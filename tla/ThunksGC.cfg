CONSTANTS
  MaxThreads = 2
  Closures = {x, y}
  Yolo = FALSE
  Errors = {err}
  Truthy = {err}
  Undefined = Undefined
SPECIFICATION Spec
SYMMETRY Interchangeable
PROPERTIES
  AssignedOnceAndTold
CHECK_DEADLOCK FALSE
