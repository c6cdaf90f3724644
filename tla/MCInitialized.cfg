\* The definitely-initialised analysis: sound, complete, terminating and, without
\* unwinding, precise.
SPECIFICATION FairSpec
CONSTANTS
  Place <- PlacesOfPairAndBox
  Args <- Arguments
  Bodies <- AllBodies
  Statement <- AllStatements
  Terminator <- AllTerminators
  START_BLOCK = 0
  successors <- successors_of
  State <- States
  join <- join_places
  new_bottom <- bottom_places
  new_initial <- initial_places
  apply_statement_effect <- statement_effect
  supported <- is_supported
  apply_terminator_effect <- terminator_effect
  Conc <- Concrete
  entry <- initial_cells
  run_statement <- statement_run
  run_terminator <- terminator_run
  describes <- holds
INVARIANTS EdgesCovered Complete Described BestResultWithoutUnwinding
PROPERTIES DescribedAfter Terminates
CHECK_DEADLOCK FALSE
