\* Two drains, the second begun when it may.
SPECIFICATION Spec
CONSTANTS
  MaxFrames = 3
  MaxDrains = 2
  MaxWork = 3
  MayBe <- EveryPolicy
  RingSize = 4
  MaxDecodesOutOfOrder = 2
  MaxDiscardedFrames = 2
  MaxMessages = 1
INVARIANTS TypeOK NumbersIncrease DrainedMeansFlushed DiscardsEnd ResetInSequence InDisplayOrder
PROPERTIES DrainCompletes
CHECK_DEADLOCK FALSE
