\* Two signallers, a collector and a watcher that comes and goes, on a table of three.
SPECIFICATION FairSpec
CONSTANTS
  a = a
  b = b
  c1 = c1
  w1 = w1
  Codes = {a, b}
  EventIllegalIdentifier = EventIllegalIdentifier
  Nothing = Nothing
  Signallers = {s1, s2}
  Collectors = {c1}
  Watchers = {w1}
  Criteria <- OneOfEach
  MaxEvents = 3
  MaxSignals = 1
  MayClear = {w1}
  Registered = {}
  QuietRegistration = TRUE
INVARIANTS TypeOK ListWellFormed NoMissedEvent
PROPERTIES ImplementsQueue EventuallyCollected
