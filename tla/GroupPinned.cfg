SPECIFICATION Spec
CONSTANTS
  LeaderFormats <- FullFormat
  SiblingFormats <- FullSiblingFormat
  MaxSiblings = 1
  MaxMoves = 2
PROPERTY EofIsReported
CHECK_DEADLOCK FALSE
