\* A loan that is ended on a path on which it is still in use as a zombie.
SPECIFICATION RunFairSpec
CONSTANTS
  q = q
  x = x
  y = y
  Var = {q, x, y}
  ArgVar = {q}
  NoVar = NoVar
  Bodies <- Traversal
  AlwaysLive = {"flag"}
  MalformedSpecs = {99}
  Unknown = {"unknown"}
INVARIANTS UsesHold
CHECK_DEADLOCK FALSE
