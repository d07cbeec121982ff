CONSTANTS
  MaxThreads = 2
  Closures = {x}
  Yolo = FALSE
  Errors = {}
  Truthy = {}
  Undefined = Undefined
SPECIFICATION Spec
PROPERTIES
  CollectedThreadRequeued
CHECK_DEADLOCK FALSE
