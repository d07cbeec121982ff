CONSTANTS
  MaxThreads = 3
  Closures = {x, y}
  Yolo = TRUE
  Errors = {}
  Truthy = {}
  Undefined = Undefined
SPECIFICATION Spec
SYMMETRY Interchangeable
INVARIANTS
  TypeOK
  EvaluatorsHaveOneWay
  EvaluatedByItsOwner
  WaitersHaveAnEvaluator
PROPERTIES
  AssignedOnceAndTold
CHECK_DEADLOCK FALSE
