SPECIFICATION FairSpec
CONSTANTS
  Unlimited = Unlimited
  Size = 8
  Bursts <- SomeBursts
  Limits <- SomeLimits
INVARIANT HeldIntact
PROPERTIES NextHandsOver ImplementsStream Delivered
