CONSTANTS
  Iters = {records, aux}
  Cap = 1
  WakeEvery = 1
SPECIFICATION FairSpec
PROPERTY ParkedIsWoken
CHECK_DEADLOCK FALSE
