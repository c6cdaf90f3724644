\* Translation of bodies and their runs: loops, blocks, and endings of loans.
SPECIFICATION RunFairSpec
CONSTANTS
  q = q
  x = x
  y = y
  Var = {q, x, y}
  ArgVar = {q}
  NoVar = NoVar
  Bodies <- AllBodies
  AlwaysLive = {"flag"}
  MalformedSpecs = {99}
  Unknown = {"unknown"}
INVARIANTS LoopsExact CodeComplete LoopsSpecified UsesHoldUntorn LentBack
PROPERTIES Ends
CHECK_DEADLOCK FALSE
