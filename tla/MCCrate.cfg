SPECIFICATION Spec
CONSTANTS
  FunctionOrder <- MCFunctionOrder
  ClosureOrder <- MCClosureOrder
  Kind <- MCKind
  ImplOrder <- MCImplOrder
  ImplOf <- MCImplOf
  Traits <- MCTraits
  TraitOf <- MCTraitOf
  AssocFns <- MCAssocFns
  TraitDeps <- MCTraitDeps
  DerivePlain = {"Clone"}
  DeriveTraits = {"Eq"}
  SelfType <- MCSelfType
  NoItem = "none"
  FoundLibs = {"closures", "base", "clash"}
  LibNames = {"closures", "base", "clash", "gone"}
  ExportLibs <- MCExportLibs
  Shims <- MCShims
  ItemPath <- MCItemPath
  Public = {"helper", "wrap", "T"}
  Flattened = {"D"}
  Programs <- MCPrograms
  Edits <- MCEdits
  MaxRuns = 2
  MaxEdited = 1
INVARIANTS
  LibrariesLoadedOnce
  SpecsProvedOrAssumed
  CallsSpecified
  ClosuresFirst
PROPERTY
  ProofsKept
CHECK_DEADLOCK FALSE
