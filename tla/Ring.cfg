SPECIFICATION FairSpec
CONSTANTS
  i1 = i1
  i2 = i2
  Size = 32
  Lens <- SomeLens
  Iters <- OneIter
  MaxRecs = 4
INVARIANT HeldIntact
PROPERTIES TailAdvances NoneOnlyWhenDrained ImplementsQueue Delivered
