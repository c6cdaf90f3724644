SPECIFICATION Spec
CONSTANTS
  Adt = {"A", "B", "C"}
  Types <- MCTypeSet
  MaxDepth = 30
  Crates <- MCCrates
INVARIANTS
  DefinedBeforeUse
  UsesDefined
  OutcomesRight
CHECK_DEADLOCK FALSE
