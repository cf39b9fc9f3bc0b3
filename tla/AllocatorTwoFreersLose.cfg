\* Two threads free at once into a table that is large enough.
SPECIFICATION Spec
CONSTANTS
  Allocators = {a1}
  Freers = {f1, f2}
  NoThread = NoThread
  BufferSize = 10
  SegmentSize = 2
  PhysicalAddress = 2
  BankSize = 6
  MaxBlocks = 4
  Requests = {1}
INVARIANTS NothingLost
