\* One allocating and one freeing thread; two banks; a table that may be too small.
SPECIFICATION FairSpec
CONSTANTS
  Allocators = {a1}
  Freers = {f1}
  NoThread = NoThread
  BufferSize = 12
  SegmentSize = 2
  PhysicalAddress = 2
  BankSize = 6
  MaxBlocks = 3
  Requests = {1, 4}
INVARIANTS TypeOK NoOverlap NothingLost WholeInBank NoLostWakeup
PROPERTIES WaiterServed DestroyTerminates
