---------------------------- MODULE PlayerEvents ----------------------------
(***************************************************************************)
(* The event records of Player_Generic_c: a list threaded through a fixed  *)
(* table, under the player's Lock.  Signallers add records, collectors     *)
(* take those that meet their criteria, and watchers register an OS event  *)
(* that is set with every record of theirs; a watcher then collects until  *)
(* there is nothing left, as HavanaPlayer_c::EventSignalThread does.       *)
(*                                                                         *)
(* A record is its code; playback and stream are part of the criteria.     *)
(* Two things are done without the Lock and are modelled step by step: the *)
(* scan of the list by SetEventSignal, and the removal of a registration.  *)
(***************************************************************************)
EXTENDS Integers, FiniteSets, Sequences

CONSTANTS
  Codes, EventIllegalIdentifier,
  Signallers,       \* threads that call SignalEvent
  Collectors,       \* threads that call GetEventRecord and wait in it
  Watchers,         \* threads with a registered event
  Criteria,         \* of every collector and watcher, the codes it is after
  MaxEvents,        \* PLAYER_MAX_OUTSTANDING_EVENTS
  MaxSignals,       \* PLAYER_MAX_EVENT_SIGNALS
  MayClear,         \* watchers whose registration may be removed
  Registered,       \* watchers registered before anything is signalled
  QuietRegistration,\* whether nobody collects while a registration looks at the list
  Nothing           \* no record, no registration, no index

Callers == Collectors \cup Watchers
Threads == Signallers \cup Callers
Slots   == 0 .. MaxEvents - 1
Signals == 1 .. MaxSignals
INVALID_INDEX == -1

ASSUME EventsAssumption ==
  /\ MaxEvents \in Nat \ {0, 1} /\ MaxSignals \in Nat
  /\ Criteria \in [Callers -> SUBSET Codes] /\ EventIllegalIdentifier \notin Codes
  /\ MayClear \subseteq Watchers /\ Registered \subseteq Watchers
  /\ Cardinality(Registered) <= MaxSignals /\ QuietRegistration \in BOOLEAN
  /\ Nothing \notin Codes \cup Watchers \cup Signallers
  /\ Signallers \cap Callers = {} /\ Collectors \cap Watchers = {}

VARIABLES
  EventList, EventListHead, EventListTail,
  ExternalEventSignals,    \* which watcher is in each entry
  Lock,                    \* the thread inside SignalEvent's locked loop
  InternalEventSignal, Event,
  pc,
  rec,                     \* the record a signaller signals
  at,                      \* how far a thread is in a list or in a table
  got                      \* what the last GetEventRecord returned

list == <<EventList, EventListHead, EventListTail>>
vars == <<list, ExternalEventSignals, Lock, InternalEventSignal, Event, pc, rec, at, got>>

Empty == [Code |-> EventIllegalIdentifier, NextIndex |-> INVALID_INDEX]

Init ==
  /\ EventList = [i \in Slots |-> Empty]
  /\ EventListHead = INVALID_INDEX /\ EventListTail = INVALID_INDEX
  /\ ExternalEventSignals \in [Signals -> Registered \cup {Nothing}]
  /\ \A w \in Registered : \E i \in Signals :
       ExternalEventSignals[i] = w
       /\ \A j \in Signals : ExternalEventSignals[j] = w => j = i
  /\ Lock = Nothing /\ InternalEventSignal = FALSE
  /\ Event = [w \in Watchers |-> FALSE]
  /\ pc = [t \in Threads |-> IF t \in Registered THEN "asleep" ELSE "idle"]
  /\ rec = [t \in Signallers |-> Nothing]
  /\ at = [t \in Threads |-> INVALID_INDEX]
  /\ got = [t \in Callers |-> Nothing]

---------------------------------------------------------------------------
(* The list: walk[k] is the index of its k-th record.                      *)

Walk ==
  LET walk[k \in 0 .. MaxEvents] ==
        IF k = 0 THEN EventListHead
        ELSE IF walk[k - 1] = INVALID_INDEX THEN INVALID_INDEX
        ELSE EventList[walk[k - 1]].NextIndex
  IN walk

Linked == {k \in 0 .. MaxEvents : Walk[k] # INVALID_INDEX}
queue  == [k \in 1 .. Cardinality(Linked) |-> EventList[Walk[k - 1]].Code]

\* ScanEventListForMatch, under the Lock: the first record that matches.
Matches(t) == {k \in Linked : EventList[Walk[k]].Code \in Criteria[t]}

---------------------------------------------------------------------------
(* SignalEvent                                                             *)

FreeSlots == {i \in Slots : EventList[i].Code = EventIllegalIdentifier}

SignalEvent(t, code) ==
  /\ pc[t] = "idle"
  /\ rec' = [rec EXCEPT ![t] = code]
  /\ pc' = [pc EXCEPT ![t] = "insert"]
  /\ UNCHANGED <<list, ExternalEventSignals, Lock, InternalEventSignal, Event, at, got>>

\* The first vessel that is empty goes to the end of the list; the Lock is kept
\* for the loop over the registrations.
SignalInsert(t) ==
  /\ pc[t] = "insert" /\ Lock = Nothing
  /\ \E i \in FreeSlots :
       /\ \A j \in FreeSlots : i <= j
       /\ EventList' = [j \in Slots |->
            IF j = i THEN [Code |-> rec[t], NextIndex |-> INVALID_INDEX]
            ELSE IF j = EventListTail THEN [EventList[j] EXCEPT !.NextIndex = i]
            ELSE EventList[j]]
       /\ EventListHead' = IF EventListTail = INVALID_INDEX THEN i ELSE EventListHead
       /\ EventListTail' = i
  /\ InternalEventSignal' = TRUE
  /\ Lock' = t
  /\ pc' = [pc EXCEPT ![t] = "test"] /\ at' = [at EXCEPT ![t] = 1]
  /\ UNCHANGED <<ExternalEventSignals, Event, rec, got>>

\* Bug: the record at the tail is the one thrown away.
SignalDiscardNewest(t) ==
  /\ pc[t] = "insert" /\ Lock = Nothing /\ FreeSlots = {}
  /\ EventList' = [EventList EXCEPT ![EventListTail].Code = EventIllegalIdentifier]
  /\ UNCHANGED <<EventListHead, EventListTail, ExternalEventSignals, Lock,
                 InternalEventSignal, Event, pc, rec, at, got>>

\* No empty vessel: the oldest record goes, and SignalEvent starts again
\* without the Lock.
SignalDiscard(t) ==
  /\ pc[t] = "insert" /\ Lock = Nothing /\ FreeSlots = {}
  /\ EventList' = [EventList EXCEPT ![EventListHead].Code = EventIllegalIdentifier]
  /\ EventListHead' = EventList[EventListHead].NextIndex
  /\ UNCHANGED <<EventListTail, ExternalEventSignals, Lock, InternalEventSignal,
                 Event, pc, rec, at, got>>

\* One registration of the loop: it is there and it matches ...
Interested(w, code) == w # Nothing /\ code \in Criteria[w]

SignalTest(t) ==
  LET w == ExternalEventSignals[at[t]] IN
  /\ pc[t] = "test" /\ at[t] <= MaxSignals
  /\ \/ /\ Interested(w, rec[t])
        /\ pc' = [pc EXCEPT ![t] = "set"] /\ UNCHANGED at
     \/ /\ ~Interested(w, rec[t])
        /\ at' = [at EXCEPT ![t] = @ + 1] /\ UNCHANGED pc
  /\ UNCHANGED <<list, ExternalEventSignals, Lock, InternalEventSignal, Event, rec, got>>

\* Bug: the loop stops one registration short.
SignalSetSkipsLast(t) ==
  LET w == ExternalEventSignals[at[t]] IN
  /\ pc[t] = "set"
  /\ Event' = IF w = Nothing \/ at[t] = MaxSignals THEN Event ELSE [Event EXCEPT ![w] = TRUE]
  /\ pc' = [pc EXCEPT ![t] = "test"] /\ at' = [at EXCEPT ![t] = @ + 1]
  /\ UNCHANGED <<list, ExternalEventSignals, Lock, InternalEventSignal, rec, got>>

\* ... so its event is set: the entry is read a second time.
SignalSet(t) ==
  LET w == ExternalEventSignals[at[t]] IN
  /\ pc[t] = "set"
  /\ Event' = IF w = Nothing THEN Event ELSE [Event EXCEPT ![w] = TRUE]
  /\ pc' = [pc EXCEPT ![t] = "test"] /\ at' = [at EXCEPT ![t] = @ + 1]
  /\ UNCHANGED <<list, ExternalEventSignals, Lock, InternalEventSignal, rec, got>>

SignalReturn(t) ==
  /\ pc[t] = "test" /\ at[t] > MaxSignals
  /\ Lock' = Nothing
  /\ pc' = [pc EXCEPT ![t] = "idle"]
  /\ rec' = [rec EXCEPT ![t] = Nothing]
  /\ at' = [at EXCEPT ![t] = INVALID_INDEX]
  /\ UNCHANGED <<list, ExternalEventSignals, InternalEventSignal, Event, got>>

---------------------------------------------------------------------------
(* GetEventRecord                                                          *)

\* The event is reset before the list is looked at.
GetReset(t) ==
  /\ \/ t \in Collectors /\ pc[t] = "idle"
     \/ t \in Watchers /\ pc[t] = "collect"
  /\ InternalEventSignal' = FALSE
  /\ pc' = [pc EXCEPT ![t] = "scan"]
  /\ UNCHANGED <<list, ExternalEventSignals, Lock, Event, rec, at, got>>

GetTakeTail(t, new) ==
  /\ pc[t] = "scan" /\ Lock = Nothing
  /\ QuietRegistration => \A w \in Watchers : pc[w] # "look"
  /\ \E k \in Matches(t) :
       LET i == Walk[k] IN
       /\ \A j \in Matches(t) : k <= j
       /\ EventList' = [j \in Slots |->
            IF j = i THEN Empty
            ELSE IF k # 0 /\ j = Walk[k - 1]
            THEN [EventList[j] EXCEPT !.NextIndex = EventList[i].NextIndex]
            ELSE EventList[j]]
       /\ EventListHead' = IF k = 0 THEN EventList[i].NextIndex ELSE EventListHead
       /\ EventListTail' = IF i # EventListTail THEN EventListTail
                           ELSE IF k = 0 THEN INVALID_INDEX ELSE new[k]
       /\ got' = [got EXCEPT ![t] = EventList[i].Code]
  /\ pc' = [pc EXCEPT ![t] = IF t \in Watchers THEN "collect" ELSE "idle"]
  /\ UNCHANGED <<ExternalEventSignals, Lock, InternalEventSignal, Event, rec, at>>

\* Bugs: the tail is not looked for again; it is taken one slot too far.
GetTakeKeepsTail(t) == GetTakeTail(t, Walk)
GetTakePastTail(t)  == GetTakeTail(t, [k \in 1 .. MaxEvents |-> Walk[k - 1] + 1])

\* The record is unlinked; if it was the tail, the walk from the head ends at
\* the one before it.
GetTake(t) == GetTakeTail(t, [k \in 1 .. MaxEvents |-> Walk[k - 1]])

\* A watcher asks without blocking and goes back to its event.
GetNothing(t) ==
  /\ pc[t] = "scan" /\ Lock = Nothing /\ Matches(t) = {}
  /\ got' = [got EXCEPT ![t] = Nothing]
  /\ pc' = [pc EXCEPT ![t] = IF t \in Watchers THEN "asleep" ELSE "wait"]
  /\ UNCHANGED <<list, ExternalEventSignals, Lock, InternalEventSignal, Event, rec, at>>

\* The event, or PLAYER_MAX_EVENT_WAIT.
GetWoken(t) ==
  /\ pc[t] = "wait"
  /\ pc' = [pc EXCEPT ![t] = "idle"]
  /\ UNCHANGED <<list, ExternalEventSignals, Lock, InternalEventSignal, Event, rec,
                 at, got>>

---------------------------------------------------------------------------
(* Watchers: SetEventSignal, and the loop of EventSignalThread.            *)

SetEventSignal(w) ==
  /\ w \in Watchers /\ pc[w] = "idle" /\ Lock = Nothing
  /\ \E i \in Signals :
       /\ ExternalEventSignals[i] = Nothing
       /\ \A j \in Signals : ExternalEventSignals[j] = Nothing => i <= j
       /\ ExternalEventSignals' = [ExternalEventSignals EXCEPT ![i] = w]
  /\ pc' = [pc EXCEPT ![w] = "look"]
  /\ at' = [at EXCEPT ![w] = EventListHead]
  /\ UNCHANGED <<list, Lock, InternalEventSignal, Event, rec, got>>

\* Bug: the registration does not look for records already there.
LookMatchSilent(w) ==
  /\ pc[w] = "look" /\ at[w] # INVALID_INDEX
  /\ pc' = [pc EXCEPT ![w] = "asleep"] /\ at' = [at EXCEPT ![w] = INVALID_INDEX]
  /\ UNCHANGED <<list, ExternalEventSignals, Lock, InternalEventSignal, Event, rec, got>>

\* The scan for records signalled before the registration, without the Lock:
\* one record, then on along whatever its NextIndex now is.
LookMatch(w) ==
  /\ pc[w] = "look" /\ at[w] # INVALID_INDEX
  /\ EventList[at[w]].Code \in Criteria[w]
  /\ Event' = [Event EXCEPT ![w] = TRUE]
  /\ pc' = [pc EXCEPT ![w] = "asleep"] /\ at' = [at EXCEPT ![w] = INVALID_INDEX]
  /\ UNCHANGED <<list, ExternalEventSignals, Lock, InternalEventSignal, rec, got>>

LookOn(w) ==
  /\ pc[w] = "look" /\ at[w] # INVALID_INDEX
  /\ EventList[at[w]].Code \notin Criteria[w]
  /\ at' = [at EXCEPT ![w] = EventList[at[w]].NextIndex]
  /\ UNCHANGED <<list, ExternalEventSignals, Lock, InternalEventSignal, Event, pc, rec, got>>

LookEnd(w) ==
  /\ pc[w] = "look" /\ at[w] = INVALID_INDEX
  /\ pc' = [pc EXCEPT ![w] = "asleep"]
  /\ UNCHANGED <<list, ExternalEventSignals, Lock, InternalEventSignal, Event, rec, at, got>>

\* OS_WaitForEvent without a timeout, OS_ResetEvent.
WatchWoken(w) ==
  /\ pc[w] = "asleep" /\ Event[w]
  /\ Event' = [Event EXCEPT ![w] = FALSE]
  /\ pc' = [pc EXCEPT ![w] = "collect"]
  /\ UNCHANGED <<list, ExternalEventSignals, Lock, InternalEventSignal, rec, at, got>>

\* SetEventSignal(NULL), without the Lock: the first entry with these criteria,
\* whoever's it is.  The thread that waited for it stops.
ClearEventSignal(w) ==
  LET same == {i \in Signals : ExternalEventSignals[i] # Nothing
                               /\ Criteria[ExternalEventSignals[i]] = Criteria[w]}
  IN
  /\ w \in MayClear /\ pc[w] = "asleep"
  /\ \E i \in same :
       /\ \A j \in same : i <= j
       /\ ExternalEventSignals' = [ExternalEventSignals EXCEPT ![i] = Nothing]
  /\ Event' = [Event EXCEPT ![w] = FALSE]
  /\ pc' = [pc EXCEPT ![w] = "idle"]
  /\ UNCHANGED <<list, Lock, InternalEventSignal, rec, at, got>>

---------------------------------------------------------------------------
SignalStep(t) ==
  \/ SignalInsert(t) \/ SignalDiscard(t) \/ SignalTest(t) \/ SignalSet(t)
  \/ SignalReturn(t)
GetStep(t)   == GetTake(t) \/ GetNothing(t) \/ GetWoken(t)
WatchStep(w) ==
  LookMatch(w) \/ LookOn(w) \/ LookEnd(w) \/ WatchWoken(w) \/ (w \in Watchers /\ GetReset(w))

Next ==
  \/ \E t \in Signallers : (\E code \in Codes : SignalEvent(t, code)) \/ SignalStep(t)
  \/ \E c \in Collectors : GetReset(c)
  \/ \E t \in Callers : GetStep(t)
  \/ \E w \in Watchers : SetEventSignal(w) \/ ClearEventSignal(w) \/ WatchStep(w)

Spec == Init /\ [][Next]_vars

\* Calls are carried on and a watcher keeps to its loop; nobody is made to signal,
\* to register or to ask for a record.
FairSpec ==
  /\ Spec
  /\ \A t \in Signallers : WF_vars(SignalStep(t))
  /\ \A t \in Callers : WF_vars(GetStep(t))
  /\ \A w \in Watchers : WF_vars(WatchStep(w))

---------------------------------------------------------------------------
(* Properties.                                                             *)

Index == Slots \cup {INVALID_INDEX}

TypeOK ==
  /\ EventList \in [Slots -> [Code : Codes \cup {EventIllegalIdentifier}, NextIndex : Index]]
  /\ EventListHead \in Index /\ EventListTail \in Index
  /\ ExternalEventSignals \in [Signals -> Watchers \cup {Nothing}]
  /\ Lock \in Signallers \cup {Nothing}
  /\ InternalEventSignal \in BOOLEAN /\ Event \in [Watchers -> BOOLEAN]
  /\ pc \in [Threads -> {"idle", "insert", "test", "set", "scan", "wait", "look",
                         "asleep", "collect"}]
  /\ rec \in [Signallers -> Codes \cup {Nothing}]
  /\ at \in [Threads -> Int]
  /\ got \in [Callers -> Codes \cup {Nothing}]

\* The table, its links and its two ends are a queue: the records come out in the
\* order they were signalled, none is lost but by a discard when the table is
\* full, and a slot is out of the list exactly when it is free.
Q == INSTANCE EventQueue WITH Collectors <- Callers
ImplementsQueue == Q!Spec

\* The links never form a loop, the tail is the end of the walk from the head and
\* the records in use are the ones on the list: no slot of the table is lost.
ListWellFormed ==
  /\ {Walk[k] : k \in Linked} = Slots \ FreeSlots
  /\ Cardinality(Linked) = Cardinality(Slots \ FreeSlots)
  /\ EventListTail = IF Linked = {} THEN INVALID_INDEX ELSE Walk[Cardinality(Linked) - 1]

\* The thread in the locked loop that will yet come to the entry of w.
WillSet(t, w) ==
  /\ Lock = t /\ rec[t] \in Criteria[w]
  /\ \E i \in Signals : i >= at[t] /\ ExternalEventSignals[i] = w

\* player_events.cpp:117, "check if there is an event record in the queue that
\* results in us setting this event": a registered watcher does not sleep beside a
\* record of its own without its event set, or about to be.
NoMissedEvent ==
  \A w \in Watchers :
    pc[w] = "asleep" /\ (\E i \in Signals : ExternalEventSignals[i] = w) /\ Matches(w) # {} =>
      Event[w] \/ \E t \in Signallers : WillSet(t, w)

\* When nothing more is signalled, a watcher that stays registered is left with
\* nothing to collect.
EventuallyCollected ==
  \A w \in Watchers :
    <>[]((\A t \in Signallers : pc[t] = "idle") /\ pc[w] # "idle") => <>[](Matches(w) = {})
=============================================================================
