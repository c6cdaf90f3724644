SPECIFICATION Spec
CHECK_DEADLOCK FALSE
CONSTANTS
  Region = {0, 1, 2, 3, 4, 5, 6, 7, 8, 9}
  Lft = {0, 1, 2, 3, 4, 5, 6, 7, 8, 9}
  Static = 0
  FunctionLft = 2
  Placeholder <- MCPlaceholder
  LocalDecls = {5, 6, 7}
  KnownSubset <- MCKnownSubset
  ArgMapping <- MCArgMapping
  Location = {"b0", "b1", "b2", "b3"}
  Root = "b0"
  Targets <- Straight
  CfgSucc <- StraightEdges
  Candidates <- ReassignedBodies
INVARIANTS
  FullInclusionsExact
