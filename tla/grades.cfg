CONSTANTS
  Lines <- MCLines
  Options <- MCOptions
  Missing = Missing
  Absent = Absent
  Garbage = {0, 7}
  Most <- MCMost
  MaxLines = 9
  MaxFiles = 2
SPECIFICATION Spec
INVARIANTS GradesTypeOK RosterComplete PercentilesRight RostersSorted DuplicatesReported CollateReadsBack ReportInRange
CHECK_DEADLOCK FALSE
