CONSTANTS
  MaxThreads = 2
  MVars = {m, n}
  Values = {v, w}
  Errors = {err, falsy}
  Truthy = {err}
  Empty = Empty
  Undefined = Undefined
SPECIFICATION Spec
SYMMETRY Interchangeable
PROPERTIES
  ImplementsMVarSpec
CHECK_DEADLOCK FALSE
