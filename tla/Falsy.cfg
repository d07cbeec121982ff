CONSTANTS
  MaxThreads = 1
  MVars = {}
  Values = {}
  Errors = {err,falsy}
  Truthy = {err}
  Empty = Empty
  Undefined = Undefined
SPECIFICATION Spec
INVARIANTS
  SettledCallHasOutcome
CHECK_DEADLOCK FALSE
