\* Three frames, the third behind the marker of a drain that plays out.
SPECIFICATION Spec
CONSTANTS
  MaxFrames = 3
  MaxDrains = 1
  MaxWork = 4
  MayBe <- PlayoutOnly
  RingSize = 4
  MaxDecodesOutOfOrder = 2
  MaxDiscardedFrames = 2
  MaxMessages = 1
INVARIANTS NoReorderFailure
CHECK_DEADLOCK FALSE
