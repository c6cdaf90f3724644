SPECIFICATION Spec
CHECK_DEADLOCK FALSE
CONSTANTS
  Region = {0, 1, 2, 3, 4, 5, 6, 7, 8}
  Lft = {0, 1, 2, 3, 4, 5, 6, 7, 8}
  Static = 0
  FunctionLft = 2
  Placeholder <- MCPlaceholder
  LocalDecls = {5, 6, 7, 8}
  KnownSubset <- MCKnownSubset
  ArgMapping = {}
  Location = {"b0", "b1", "b2", "b3", "b4", "b5"}
  Root = "b0"
  Targets <- Long
  CfgSucc <- LongEdges
  Candidates <- SwappedBodies
INVARIANTS
  AssertionHolds
