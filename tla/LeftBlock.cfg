SPECIFICATION Spec
CONSTANTS
  Dynamic = {1, 2, 3, 4, 5, 6, 7}
  NonMoved = {}
  Limit = 7
  Heaps <- TreeHeaps
  BlockClosures = 2
  MaxCalls = 1
  Small = {}
  Arities = {0}
  StaticArities = {0}
INVARIANT AllScavenged
CHECK_DEADLOCK FALSE
