SPECIFICATION RelaxedFair
CONSTANTS
  Cap = 3
  WakeEvery = 2
INVARIANT NoneOnlyAfterHangUp
PROPERTIES ReportWakes HangUpEnds DropEndsThread
CHECK_DEADLOCK FALSE
