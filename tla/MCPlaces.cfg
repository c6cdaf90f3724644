\* The sets of definitely initialised places along paths that fork and meet.
SPECIFICATION TrackSpec
CONSTANTS
  Place <- Places
  Args <- Arguments
  Statements <- AllStatements
INVARIANTS Sound Exact
