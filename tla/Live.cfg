CONSTANTS
  MaxThreads = 2
  MVars = {m}
  Values = {v}
  Errors = {err}
  Truthy = {err}
  Empty = Empty
  Undefined = Undefined
SPECIFICATION FairSpec
PROPERTIES
  ReadyThreadsRun
CHECK_DEADLOCK FALSE
