---------------------------- MODULE RingGeneric ----------------------------
(***************************************************************************)
(* RingGeneric_c, the ring every pair of stream processes shares: a        *)
(* circular array under a mutex, and an event that wakes a blocked         *)
(* extraction.  Insert is taken apart because Extract looks at the indices *)
(* before it takes the mutex and sees NextInsert on its way.  The event is *)
(* a manual-reset one (OS_SetEvent, OS_ResetEvent, OS_WaitForEvent).       *)
(***************************************************************************)
EXTENDS Integers, Sequences

CONSTANTS
  Producers, Consumers, Flushers,
  NoThread, Nothing,
  Values,            \* what is put in: buffers, each in the ring at most once
  MaxEntries,
  Periods            \* the blocking periods callers use

Threads == Producers \cup Consumers
Limit   == MaxEntries + 1
Index   == 0 .. MaxEntries

ASSUME RingAssumption ==
  /\ MaxEntries \in Nat \ {0}
  /\ NoThread \notin Threads /\ Nothing \notin Values
  /\ Producers \cap Consumers = {} /\ Flushers \subseteq Producers
  /\ Periods \subseteq {"none", "finite", "infinite"}

VARIABLES
  Storage, NextInsert, NextExtract, Lock, Signal,
  pc,
  OldNextInsert,     \* the local of the insertion that holds the mutex
  period,            \* per consumer: the BlockingPeriod of its call
  got                \* per consumer: what its last call returned

ring == <<Storage, NextInsert, NextExtract>>
vars == <<ring, Lock, Signal, pc, OldNextInsert, period, got>>

Init ==
  /\ Storage \in [Index -> Values]       \* not initialised
  /\ NextInsert = 0 /\ NextExtract = 0
  /\ Lock = NoThread /\ Signal = FALSE
  /\ pc = [t \in Threads |-> "idle"]
  /\ OldNextInsert = 0
  /\ period = [c \in Consumers |-> "none"]
  /\ got = [c \in Consumers |-> Nothing]

---------------------------------------------------------------------------
(* What the ring holds: the slots from NextExtract up to the last insertion *)
(* that has been accepted.                                                  *)

Inserting == Lock # NoThread
Accepted  == IF Inserting THEN OldNextInsert ELSE NextInsert
Wrapped(i) == IF i >= Limit THEN i - Limit ELSE i
Count     == IF Accepted >= NextExtract THEN Accepted - NextExtract
             ELSE Accepted - NextExtract + Limit
Contents  == [k \in 1 .. Count |-> Storage[Wrapped(NextExtract + k - 1)]]
InRing    == {Contents[k] : k \in 1 .. Count}

---------------------------------------------------------------------------
(* Insert                                                                  *)

InsertStore(p, v) ==
  /\ pc[p] = "idle" /\ Lock = NoThread /\ v \notin InRing
  /\ Lock' = p
  /\ OldNextInsert' = NextInsert
  /\ Storage' = [Storage EXCEPT ![NextInsert] = v]
  /\ NextInsert' = NextInsert + 1
  /\ pc' = [pc EXCEPT ![p] = "advanced"]
  /\ UNCHANGED <<NextExtract, Signal, period, got>>

InsertWrap(p) ==
  /\ pc[p] = "advanced"
  /\ NextInsert' = IF NextInsert = Limit THEN 0 ELSE NextInsert
  /\ pc' = [pc EXCEPT ![p] = "compare"]
  /\ UNCHANGED <<Storage, NextExtract, Lock, Signal, OldNextInsert, period, got>>

\* Bug: the index stays advanced over the value that did not fit.
InsertFullKeepsIndex(p) ==
  /\ pc[p] = "compare" /\ NextInsert = NextExtract
  /\ OldNextInsert' = 0 /\ Lock' = NoThread
  /\ pc' = [pc EXCEPT ![p] = "idle"]
  /\ UNCHANGED <<ring, Signal, period, got>>

\* RingTooManyEntries: the index goes back, nobody is told.
InsertFull(p) ==
  /\ pc[p] = "compare" /\ NextInsert = NextExtract
  /\ NextInsert' = OldNextInsert
  /\ OldNextInsert' = 0
  /\ Lock' = NoThread
  /\ pc' = [pc EXCEPT ![p] = "idle"]
  /\ UNCHANGED <<Storage, NextExtract, Signal, period, got>>

\* Bug: nobody is told of the new value.
InsertAcceptSilent(p) ==
  /\ pc[p] = "compare" /\ NextInsert # NextExtract
  /\ OldNextInsert' = 0 /\ Lock' = NoThread
  /\ pc' = [pc EXCEPT ![p] = "idle"]
  /\ UNCHANGED <<ring, Signal, period, got>>

InsertAccept(p) ==
  /\ pc[p] = "compare" /\ NextInsert # NextExtract
  /\ OldNextInsert' = 0
  /\ Lock' = NoThread
  /\ pc' = [pc EXCEPT ![p] = "signal"]
  /\ UNCHANGED <<ring, Signal, period, got>>

\* OS_SetEvent, after the mutex is released.
InsertSignal(p) ==
  /\ pc[p] = "signal"
  /\ Signal' = TRUE
  /\ pc' = [pc EXCEPT ![p] = "idle"]
  /\ UNCHANGED <<ring, Lock, OldNextInsert, period, got>>

---------------------------------------------------------------------------
(* Extract                                                                 *)

ExtractReset(c, b) ==
  /\ pc[c] = "idle"
  /\ Signal' = FALSE
  /\ period' = [period EXCEPT ![c] = b]
  /\ pc' = [pc EXCEPT ![c] = "test"]
  /\ UNCHANGED <<ring, Lock, OldNextInsert, got>>

\* Bug: a blocking extraction waits whatever the ring holds.
ExtractTestAlwaysWaits(c) ==
  /\ pc[c] = "test"
  /\ pc' = [pc EXCEPT ![c] = IF period[c] # "none" THEN "wait" ELSE "take"]
  /\ UNCHANGED <<ring, Lock, Signal, OldNextInsert, period, got>>

\* The two indices are compared without the mutex.
ExtractTest(c) ==
  /\ pc[c] = "test"
  /\ pc' = [pc EXCEPT ![c] =
       IF NextExtract = NextInsert /\ period[c] # "none" THEN "wait" ELSE "take"]
  /\ UNCHANGED <<ring, Lock, Signal, OldNextInsert, period, got>>

ExtractWake(c) ==
  /\ pc[c] = "wait"
  /\ Signal \/ period[c] = "finite"      \* signalled, or timed out
  /\ pc' = [pc EXCEPT ![c] = "take"]
  /\ UNCHANGED <<ring, Lock, Signal, OldNextInsert, period, got>>

ExtractReturn(c, v) ==
  /\ got' = [got EXCEPT ![c] = v]
  /\ period' = [period EXCEPT ![c] = "none"]
  /\ pc' = [pc EXCEPT ![c] = "idle"]
  /\ UNCHANGED <<Storage, NextInsert, Lock, Signal, OldNextInsert>>

\* Bug: the extraction index runs off the array.
ExtractTakeUnwrapped(c) ==
  /\ pc[c] = "take" /\ Lock = NoThread /\ NextExtract # NextInsert
  /\ NextExtract' = NextExtract + 1
  /\ ExtractReturn(c, Storage[NextExtract])

ExtractTake(c) ==
  /\ pc[c] = "take" /\ Lock = NoThread /\ NextExtract # NextInsert
  /\ NextExtract' = Wrapped(NextExtract + 1)
  /\ ExtractReturn(c, Storage[NextExtract])

\* RingNothingToGet, after a timeout, a late signal or a call that never waits.
ExtractNothing(c) ==
  /\ pc[c] = "take" /\ Lock = NoThread /\ NextExtract = NextInsert
  /\ UNCHANGED NextExtract
  /\ ExtractReturn(c, Nothing)

\* Bug: only the insertion side is reset.
FlushHalf(p) ==
  /\ p \in Flushers /\ pc[p] = "idle" /\ Lock = NoThread
  /\ NextInsert' = 0
  /\ UNCHANGED <<Storage, NextExtract, Lock, Signal, pc, OldNextInsert, period, got>>

Flush(p) ==
  /\ p \in Flushers /\ pc[p] = "idle" /\ Lock = NoThread
  /\ NextExtract' = 0 /\ NextInsert' = 0
  /\ UNCHANGED <<Storage, Lock, Signal, pc, OldNextInsert, period, got>>

---------------------------------------------------------------------------
InsertStep(p)  == InsertWrap(p) \/ InsertFull(p) \/ InsertAccept(p) \/ InsertSignal(p)
ExtractStep(c) ==
  \/ ExtractTest(c) \/ ExtractWake(c) \/ ExtractTake(c) \/ ExtractNothing(c)

Next ==
  \/ \E p \in Producers :
       (\E v \in Values : InsertStore(p, v)) \/ InsertStep(p) \/ Flush(p)
  \/ \E c \in Consumers :
       (\E b \in Periods : ExtractReset(c, b)) \/ ExtractStep(c)

Spec == Init /\ [][Next]_vars

\* A call that has started is carried on, and a consumer is a loop around
\* Extract (the stream processes); nobody is made to insert.
FairSpec ==
  /\ Spec
  /\ \A p \in Producers : WF_vars(InsertStep(p))
  /\ \A c \in Consumers :
       /\ WF_vars(\E b \in Periods : ExtractReset(c, b))
       /\ WF_vars(ExtractTest(c) \/ ExtractWake(c))
       /\ SF_vars(ExtractTake(c) \/ ExtractNothing(c))

---------------------------------------------------------------------------
(* Properties.                                                             *)

TypeOK ==
  /\ Storage \in [Index -> Values]
  /\ NextInsert \in 0 .. Limit /\ NextExtract \in Index
  /\ Lock \in Producers \cup {NoThread}
  /\ Signal \in BOOLEAN
  /\ pc \in [Threads -> {"idle", "advanced", "compare", "signal", "test", "wait", "take"}]
  /\ OldNextInsert \in Index
  /\ period \in [Consumers -> {"none", "finite", "infinite"}]
  /\ got \in [Consumers -> Values \cup {Nothing}]

Fifo == INSTANCE BoundedFifo WITH queue <- Contents, calls <- pc, MayFlush <- (Flushers # {})

\* The ring implements the bounded queue: insertion is the step that releases
\* the mutex, extraction the step that advances NextExtract, and the write into
\* the spare slot that precedes the test for a full ring disturbs nothing.
ImplementsFifo == Fifo!Spec

\* A consumer asleep beside a ring that is neither empty nor full has been, or is
\* about to be, signalled: the reset comes before the test, the signal after the
\* insertion.
NoMissedSignal ==
  \A c \in Consumers :
    pc[c] = "wait" /\ Count \in 1 .. MaxEntries - 1 =>
      Signal \/ \E p \in Producers : pc[p] = "signal"

\* Whatever is put in comes out (or is flushed) although every extraction may wait
\* for ever, unless the ring stays full: an extraction that a refused insertion put
\* to sleep may then sleep on.
EventuallyExtracted ==
  []<>(Count < MaxEntries) => \A v \in Values : v \in InRing ~> v \notin InRing
===========================================================================
