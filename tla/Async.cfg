SPECIFICATION FairSpec
CONSTANTS
  Cap = 5
  WakeEvery = 3
INVARIANTS NoLostWakeup NoneIsFinal
PROPERTIES HangSticks ParkedIsWoken
CHECK_DEADLOCK FALSE
