SPECIFICATION Spec
CONSTANTS
  i1 = i1
  i2 = i2
  Size = 32
  Lens <- AlignedLens
  Iters <- TwoIters
  MaxRecs = 2
PROPERTY TailStable
