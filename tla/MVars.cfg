CONSTANTS
  MaxThreads = 3
  MVars = {m}
  Values = {v, w}
  Errors = {}
  Truthy = {}
  Empty = Empty
  Undefined = Undefined
SPECIFICATION Spec
SYMMETRY Interchangeable
PROPERTIES
  NoOvertaking
  ImplementsMVarSpec
CHECK_DEADLOCK FALSE
