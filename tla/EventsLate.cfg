\* A watcher registers while a collector takes records.
SPECIFICATION Spec
CONSTANTS
  a = a
  b = b
  c1 = c1
  w1 = w1
  Codes = {a, b}
  EventIllegalIdentifier = EventIllegalIdentifier
  Nothing = Nothing
  Signallers = {s1}
  Collectors = {c1}
  Watchers = {w1}
  Criteria <- Late
  MaxEvents = 3
  MaxSignals = 1
  MayClear = {}
  Registered = {}
  QuietRegistration = FALSE
INVARIANTS NoMissedEvent
