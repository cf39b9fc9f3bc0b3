\* A coded frame with two parameter buffers; calls are aborted, allocations fail, a pool goes.
SPECIFICATION FairSpec
CONSTANTS
  t1 = t1
  t2 = t2
  c = c
  sp = sp
  fp = fp
  coded = coded
  stream = stream
  frame = frame
  NULL = NULL
  Threads = {t1, t2}
  Pools = {coded, stream, frame}
  Buffers = {c, sp, fp}
  PoolOf <- VideoOf
  MayAttach <- VideoOnto
  Getters <- VideoGot
  MaxAttached = 2
  MemoryPools = {coded}
  MemoryUnits = 1
  MayFail = {coded}
  MayAbort = {coded}
  MayDestroy = {frame}
  QuietDestroy = TRUE
INVARIANTS TypeOK ReferencesCounted InOnePlace FreeMeansEmpty PoolCountsExact  NoMissedRelease
PROPERTIES ReleasesEnd 
