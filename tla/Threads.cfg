CONSTANTS
  MaxThreads = 3
  MVars = {m}
  Values = {v}
  Errors = {err}
  Truthy = {err}
  Empty = Empty
  Undefined = Undefined
SPECIFICATION Spec
INVARIANTS
  TypeOK
  OneWayToRun
  ReturnReasonTrue
  OutcomeMeetsCall
  BlockingPromiseOwned
  SettledAsEnded
  QueueDiscipline
  WokenWithOpPerformed
  SettledCallHasOutcome
PROPERTIES
  EndIsFinal
CHECK_DEADLOCK FALSE
