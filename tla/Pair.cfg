CONSTANTS
  Iters = {records, aux}
  Cap = 1
  WakeEvery = 1
SPECIFICATION FairSpec
INVARIANTS SomeoneIsServed NoneIsFinal
PROPERTY ComesToAnEnd
CHECK_DEADLOCK FALSE
