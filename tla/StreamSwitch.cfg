\* Switches of the stream, with frames of before and after each.
SPECIFICATION Spec
CONSTANTS
  MaxFrames = 2
  MaxDrains = 2
  MaxWork = 3
  MayBe <- SwitchOnly
  RingSize = 4
  MaxDecodesOutOfOrder = 2
  MaxDiscardedFrames = 2
  MaxMessages = 1
INVARIANTS SwitchedMeansExchanged
 
CHECK_DEADLOCK FALSE
