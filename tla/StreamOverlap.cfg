\* A second drain is begun before the first is done.
SPECIFICATION Spec
CONSTANTS
  MaxFrames = 1
  MaxDrains = 2
  MaxWork = 3
  MayBe <- DiscardTwice
  RingSize = 4
  MaxDecodesOutOfOrder = 2
  MaxDiscardedFrames = 2
  MaxMessages = 1
INVARIANTS DrainedMeansPassed
CHECK_DEADLOCK FALSE
