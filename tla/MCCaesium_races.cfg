\* Two threads that share heap blocks of one or two bytes; no calls but main.
CONSTANTS
  AllocId = {b1, b2}
  ProvNone = ProvNone
  MByte = {0, 1}
  MPoison = MPoison
  MaxUSize = 4
  Thread = {t1, t2}
  Var = {x}
  None = None
  Functions <- MCNoVarFunctions
  OpTypes = {"IntOp"}
  AccessSizes = {1, 2}
  BlockSizes = {1, 2}
  MaxFrames = 1
SPECIFICATION Spec
SYMMETRY MCSymmetry
INVARIANTS TypeOK HeapInvariant LockAccounting SecondStepNeverStuck NoUseAfterFree
PROPERTIES AccessUndisturbed ImplementsObjects
CHECK_DEADLOCK FALSE
