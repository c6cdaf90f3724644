\* Calls with an argument, locals that come and go, blocks and accesses of
\* size zero: two threads, two frames each.
CONSTANTS
  AllocId = {b1, b2}
  ProvNone = ProvNone
  MByte = {0, 1}
  MPoison = MPoison
  MaxUSize = 3
  Thread = {t1, t2}
  Var = {x}
  None = None
  Functions <- MCArgFunctions
  OpTypes = {"UntypedOp"}
  AccessSizes = {0, 1}
  BlockSizes = {0, 1}
  MaxFrames = 2
SPECIFICATION Spec
SYMMETRY MCSymmetry
INVARIANTS StackDiscipline
CHECK_DEADLOCK FALSE
