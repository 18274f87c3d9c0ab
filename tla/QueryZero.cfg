SPECIFICATION QuerySpec
CONSTANTS
  Progs = {1, 2, 3}
  MaxProgs = 3
  Bits = 3
  BufLens = {0, 1, 2, 3, 4, 5, 6, 7}
  Wraps = TRUE
INVARIANT LostAreTold
CHECK_DEADLOCK FALSE
