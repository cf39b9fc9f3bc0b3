\* Two producers and a consumer, with more values than slots.
SPECIFICATION FairSpec
CONSTANTS
  Producers = {p1, p2}
  Consumers = {c1}
  Flushers = {p1}
  NoThread = NoThread
  Nothing = Nothing
  Values = {v1, v2, v3}
  MaxEntries = 2
  Periods = {"none", "finite", "infinite"}
INVARIANTS TypeOK NoMissedSignal
PROPERTIES ImplementsFifo EventuallyExtracted
