\* Scopes, specifications and uses of small crates.
SPECIFICATION Spec
CONSTANTS
  DefPath <- MCDefPath
  ParamIndex <- MCParamIndex
  HasAssoc <- MCHasAssoc
  Attrs <- MCAttrs
  Builtin <- MCBuiltin
  Programs <- MCPrograms
INVARIANTS
  UsesAligned
  InstanceAligned
  ConstraintsQuantified
  ClausesKept
PROPERTIES
  Ends
\* A run that has ended takes no more steps.
CHECK_DEADLOCK FALSE
