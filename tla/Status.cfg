CONSTANTS
  MaxThreads = 1
  MVars = {}
  Values = {}
  Errors = {err}
  Truthy = {err}
  Empty = Empty
  Undefined = Undefined
SPECIFICATION Spec
INVARIANTS
  RunnableReportedRunning
CHECK_DEADLOCK FALSE
