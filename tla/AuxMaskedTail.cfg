SPECIFICATION Spec
CONSTANTS
  Unlimited = Unlimited
  Size = 8
  Bursts <- SomeBursts
  Limits <- SomeLimits
INVARIANT RoomWhenDrained
