----------------------------- MODULE RingProofs -----------------------------
(***************************************************************************)
(* RingGeneric implements BoundedFifo, for any number of producers and     *)
(* consumers and any size.                                                 *)
(***************************************************************************)
EXTENDS RingGeneric, TLAPS

\* The mutex and the insertion index tell how far the insertion in progress is.
InsertionInv ==
  /\ \A p \in Producers :
       /\ pc[p] \in {"idle", "advanced", "compare", "signal"}
       /\ Lock = p <=> pc[p] \in {"advanced", "compare"}
       /\ pc[p] = "advanced" => NextInsert = OldNextInsert + 1
       /\ pc[p] = "compare" => NextInsert = Wrapped(OldNextInsert + 1)
  /\ \A c \in Consumers : pc[c] \in {"idle", "test", "wait", "take"}
  /\ Lock = NoThread => NextInsert \in Index

RingInv == TypeOK /\ InsertionInv

\* The empty ring of the constructor satisfies the invariant.
LEMMA RingInit == Init => RingInv
<1> SUFFICES ASSUME Init PROVE RingInv  OBVIOUS
<1>1. \A p \in Producers : p # NoThread  BY RingAssumption DEF Threads
<1>2. 0 \in Index /\ 0 \in 0 .. Limit  BY RingAssumption DEF Index, Limit
<1>3. TypeOK  BY <1>2 DEF Init, TypeOK
<1>4. InsertionInv  BY <1>1, <1>2 DEF Init, InsertionInv, Threads
<1> QED BY <1>3, <1>4 DEF RingInv

\* Every step of a producer or a consumer keeps the invariant: one case per action.
LEMMA RingStep == RingInv /\ [Next]_vars => RingInv'
<1> SUFFICES ASSUME RingInv, [Next]_vars PROVE RingInv'  OBVIOUS
<1> USE RingAssumption DEF RingInv, TypeOK, InsertionInv, Threads, Index, Limit, ring
<1>0. /\ \A p \in Producers : p # NoThread
      /\ \A p \in Producers, c \in Consumers : p # c
  OBVIOUS
<1>1. ASSUME NEW p \in Producers, NEW v \in Values, InsertStore(p, v) PROVE RingInv'
  BY <1>0, <1>1 DEF InsertStore, Wrapped
<1>2. ASSUME NEW p \in Producers, InsertWrap(p) PROVE RingInv'
  BY <1>0, <1>2 DEF InsertWrap, Wrapped
<1>3. ASSUME NEW p \in Producers, InsertFull(p) PROVE RingInv'
  BY <1>0, <1>3 DEF InsertFull, Wrapped
<1>4. ASSUME NEW p \in Producers, InsertAccept(p) PROVE RingInv'
  BY <1>0, <1>4 DEF InsertAccept, Wrapped
<1>5. ASSUME NEW p \in Producers, InsertSignal(p) PROVE RingInv'
  BY <1>0, <1>5 DEF InsertSignal
<1>6. ASSUME NEW p \in Producers, Flush(p) PROVE RingInv'
  BY <1>0, <1>6 DEF Flush
<1>7. ASSUME NEW c \in Consumers, NEW b \in Periods, ExtractReset(c, b) PROVE RingInv'
  BY <1>0, <1>7 DEF ExtractReset
<1>8. ASSUME NEW c \in Consumers, ExtractTest(c) PROVE RingInv'
  BY <1>0, <1>8 DEF ExtractTest
<1>9. ASSUME NEW c \in Consumers, ExtractWake(c) PROVE RingInv'
  BY <1>0, <1>9 DEF ExtractWake
<1>10. ASSUME NEW c \in Consumers, ExtractTake(c) PROVE RingInv'
  BY <1>0, <1>10 DEF ExtractTake, ExtractReturn, Wrapped
<1>11. ASSUME NEW c \in Consumers, ExtractNothing(c) PROVE RingInv'
  BY <1>0, <1>11 DEF ExtractNothing, ExtractReturn
<1>12. CASE UNCHANGED vars  BY <1>12 DEF vars
<1> QED
  BY <1>1, <1>2, <1>3, <1>4, <1>5, <1>6, <1>7, <1>8, <1>9, <1>10, <1>11, <1>12
     DEF Next, InsertStep, ExtractStep

\* Indices, the mutex and the locals of every call stay in range.
THEOREM TypeCorrect == Spec => []TypeOK
<1>1. RingInv => TypeOK  BY DEF RingInv
<1> QED BY <1>1, RingInit, RingStep, PTL DEF Spec

---------------------------------------------------------------------------
(* The step simulation.                                                    *)

QueueFacts ==
  /\ Count \in 0 .. MaxEntries /\ Accepted \in Index
  /\ Contents \in Seq(Values) /\ Len(Contents) = Count

\* The invariant bounds what the ring holds: at most all entries but the spare one.
LEMMA CountInRange == RingInv => QueueFacts
<1> SUFFICES ASSUME RingInv PROVE QueueFacts  OBVIOUS
<1> USE RingAssumption DEF RingInv, TypeOK, Index, Limit
<1>1. Accepted \in Index  BY DEF Accepted, Inserting, InsertionInv
<1>2. Count \in 0 .. MaxEntries  BY <1>1 DEF Count
<1>3. ASSUME NEW k \in 1 .. Count PROVE Wrapped(NextExtract + k - 1) \in Index
  BY <1>2 DEF Wrapped
<1>4. Contents \in [1 .. Count -> Values]  BY <1>3 DEF Contents
<1> QED BY <1>1, <1>2, <1>4 DEF QueueFacts

\* The queue is empty exactly when the two indices meet.
LEMMA EmptyContents ==
  ASSUME RingInv
  PROVE  (Count = 0 <=> Contents = <<>>) /\ (Count = 0 <=> Accepted = NextExtract)
<1>1. Count = 0 <=> Contents = <<>>  BY CountInRange DEF QueueFacts
<1>2. Count = 0 <=> Accepted = NextExtract
  BY CountInRange, RingAssumption DEF QueueFacts, Count, RingInv, TypeOK, Index, Limit
<1> QED BY <1>1, <1>2

\* What does not move the ends of the queue nor its slots does not move the queue.
LEMMA SameContents ==
  ASSUME RingInv, NextExtract' = NextExtract, Accepted' = Accepted,
         \A k \in 1 .. Count : Storage'[Wrapped(NextExtract + k - 1)]
                                 = Storage[Wrapped(NextExtract + k - 1)]
  PROVE  Contents' = Contents
<1>1. Count' = Count  BY DEF Count, Limit
<1>2. Contents' = [k \in 1 .. Count |-> Storage'[Wrapped(NextExtract + k - 1)]]
  BY <1>1 DEF Contents, Wrapped, Limit
<1> QED BY <1>2 DEF Contents

\* Every step of the ring is a step of the queue or leaves it alone.
LEMMA RingSimulates ==
  RingInv /\ RingInv' /\ [Next]_vars => [Fifo!Next]_<<Contents, got>>
<1> SUFFICES ASSUME RingInv, RingInv', [Next]_vars
             PROVE  [Fifo!Next]_<<Contents, got>>
  OBVIOUS
<1> USE RingAssumption
<1>prime. QueueFacts'  BY CountInRange, PTL
<1>0. /\ Count \in 0 .. MaxEntries /\ Accepted \in Index /\ NextExtract \in Index
      /\ Contents \in Seq(Values) /\ Len(Contents) = Count
      /\ \A k \in 1 .. Count : Contents[k] = Storage[Wrapped(NextExtract + k - 1)]
      /\ \A k \in 1 .. Count : Wrapped(NextExtract + k - 1) \in Index
                               /\ Wrapped(NextExtract + k - 1) # Accepted
  <2>1. Count \in 0 .. MaxEntries /\ Accepted \in Index /\ NextExtract \in Index
    BY CountInRange DEF QueueFacts, RingInv, TypeOK
  <2>2. \A k \in 1 .. Count : Wrapped(NextExtract + k - 1) \in Index
                              /\ Wrapped(NextExtract + k - 1) # Accepted
    BY <2>1 DEF Count, Wrapped, Index, Limit
  <2> QED BY <2>1, <2>2, CountInRange DEF Contents, QueueFacts
<1>1. ASSUME NEW p \in Producers, NEW v \in Values, InsertStore(p, v)
      PROVE  UNCHANGED <<Contents, got>>
  <2>1. Accepted = NextInsert /\ Accepted' = NextInsert /\ NextExtract' = NextExtract
    BY <1>1 DEF InsertStore, Accepted, Inserting, Threads
  <2>2. \A k \in 1 .. Count : Storage'[Wrapped(NextExtract + k - 1)]
                                = Storage[Wrapped(NextExtract + k - 1)]
    BY <1>0, <1>1, <2>1 DEF InsertStore, RingInv, TypeOK
  <2> QED BY <1>1, <2>1, <2>2, SameContents DEF InsertStore
<1>2. ASSUME NEW p \in Producers, InsertWrap(p) \/ InsertFull(p)
      PROVE  UNCHANGED <<Contents, got>>
  <2>1. Lock = p /\ p # NoThread
    BY <1>2 DEF InsertWrap, InsertFull, RingInv, InsertionInv, Threads
  <2>2. Accepted' = Accepted /\ UNCHANGED <<NextExtract, Storage, got>>
    BY <1>2, <2>1 DEF InsertWrap, InsertFull, Accepted, Inserting
  <2> QED BY <2>2, SameContents
<1>3. ASSUME NEW p \in Producers, InsertAccept(p) PROVE Fifo!Next
  <2>1. /\ Lock = p /\ p # NoThread /\ Accepted = OldNextInsert
        /\ NextInsert = Wrapped(OldNextInsert + 1) /\ NextInsert # NextExtract
        /\ Accepted' = NextInsert /\ UNCHANGED <<NextExtract, Storage, got>>
    BY <1>3 DEF InsertAccept, RingInv, InsertionInv, Accepted, Inserting, Threads, ring
  <2>2. Count' = Count + 1 /\ Count < MaxEntries
    BY <1>0, <2>1 DEF Count, Wrapped, Index, Limit
  <2>3. Wrapped(NextExtract + (Count + 1) - 1) = OldNextInsert
    BY <1>0, <2>1 DEF Count, Wrapped, Index, Limit
  <2>4. OldNextInsert \in Index /\ Storage[OldNextInsert] \in Values
    BY DEF RingInv, TypeOK
  <2>5. Contents' = [k \in 1 .. Count + 1 |-> Storage[Wrapped(NextExtract + k - 1)]]
    BY <2>1, <2>2 DEF Contents, Wrapped, Limit
  <2>6. Contents' = Append(Contents, Storage[OldNextInsert])
    <3>1. Contents' \in Seq(Values) /\ Len(Contents') = Count + 1
      BY <1>0, <1>prime, <2>2 DEF QueueFacts
    <3>2. Append(Contents, Storage[OldNextInsert]) \in Seq(Values)
          /\ Len(Append(Contents, Storage[OldNextInsert])) = Count + 1
      BY <1>0, <2>4
    <3>3. ASSUME NEW k \in 1 .. Count + 1
          PROVE  Contents'[k] = Append(Contents, Storage[OldNextInsert])[k]
      <4>1. CASE k = Count + 1  BY <1>0, <2>3, <2>4, <2>5, <4>1
      <4>2. CASE k # Count + 1
        <5>1. k \in 1 .. Count  BY <1>0, <4>2
        <5> QED BY <1>0, <2>4, <2>5, <5>1
      <4> QED BY <4>1, <4>2
    <3> QED BY <1>0, <3>1, <3>2, <3>3
  <2>7. Fifo!Put(Storage[OldNextInsert])
    BY <1>0, <2>1, <2>2, <2>6 DEF Fifo!Put
  <2> QED BY <2>4, <2>7 DEF Fifo!Next
<1>4. ASSUME NEW c \in Consumers, ExtractTake(c) PROVE Fifo!Next
  <2>1. /\ Accepted = NextInsert /\ NextInsert # NextExtract /\ Accepted' = Accepted
        /\ NextExtract' = Wrapped(NextExtract + 1) /\ UNCHANGED Storage
        /\ got' = [got EXCEPT ![c] = Storage[NextExtract]]
    BY <1>4 DEF ExtractTake, ExtractReturn, Accepted, Inserting
  <2>2. Count > 0 /\ Count' = Count - 1
    <3>1. /\ MaxEntries \in Nat \ {0} /\ Accepted \in 0 .. MaxEntries
          /\ NextExtract \in 0 .. MaxEntries /\ Accepted # NextExtract
      BY <1>0, <2>1 DEF Index
    <3>2. Count > 0  BY <3>1 DEF Count, Limit
    <3>3. CASE NextExtract = MaxEntries
      <4>1. NextExtract' = 0  BY <2>1, <3>1, <3>3 DEF Wrapped, Limit
      <4> QED BY <2>1, <3>1, <3>3, <4>1 DEF Count, Limit
    <3>4. CASE NextExtract # MaxEntries
      <4>1. NextExtract' = NextExtract + 1  BY <2>1, <3>1, <3>4 DEF Wrapped, Limit
      <4> QED BY <2>1, <3>1, <4>1 DEF Count, Limit
    <3> QED BY <3>2, <3>3, <3>4
  <2>3. Contents # <<>> /\ Head(Contents) = Storage[NextExtract]
    <3>1. Wrapped(NextExtract + 1 - 1) = NextExtract  BY <1>0 DEF Wrapped, Index, Limit
    <3> QED BY <1>0, <2>2, <3>1
  <2>4. Contents' = [k \in 1 .. Count - 1 |->
                       Storage[Wrapped(Wrapped(NextExtract + 1) + k - 1)]]
    BY <2>1, <2>2 DEF Contents, Wrapped, Limit
  <2>5. Contents' = Tail(Contents)
    <3>1. Contents' \in Seq(Values) /\ Len(Contents') = Count - 1
      BY <1>0, <1>prime, <2>2 DEF QueueFacts
    <3>2. Tail(Contents) \in Seq(Values) /\ Len(Tail(Contents)) = Count - 1
      BY <1>0, <2>2, <2>3
    <3>3. ASSUME NEW k \in 1 .. Count - 1 PROVE Contents'[k] = Tail(Contents)[k]
      <4>1. k + 1 \in 1 .. Count /\ Tail(Contents)[k] = Contents[k + 1]
        BY <1>0, <2>2, <2>3
      <4>2. Wrapped(Wrapped(NextExtract + 1) + k - 1) = Wrapped(NextExtract + (k + 1) - 1)
        BY <1>0 DEF Wrapped, Index, Limit
      <4> QED BY <1>0, <2>4, <4>1, <4>2
    <3> QED BY <1>0, <2>2, <3>1, <3>2, <3>3
  <2>6. Fifo!Get(c)  BY <2>1, <2>3, <2>5 DEF Fifo!Get
  <2> QED BY <2>6 DEF Fifo!Next
<1>5. ASSUME NEW c \in Consumers, ExtractNothing(c) PROVE Fifo!Next
  <2>1. /\ Accepted = NextExtract /\ Accepted' = Accepted /\ UNCHANGED <<Storage, NextExtract>>
        /\ got' = [got EXCEPT ![c] = Nothing]
    BY <1>5 DEF ExtractNothing, ExtractReturn, Accepted, Inserting
  <2>2. Contents = <<>> /\ Contents' = Contents
    BY <2>1, EmptyContents, SameContents
  <2> QED BY <2>1, <2>2 DEF Fifo!GetNothing, Fifo!Next
<1>6. ASSUME NEW p \in Producers, Flush(p) PROVE Fifo!Next
  <2>1. NextExtract' = 0 /\ Accepted' = 0 /\ UNCHANGED got
    BY <1>6 DEF Flush, Accepted, Inserting
  <2>2. Count' = 0  BY <2>1 DEF Count
  <2>3. Contents' = <<>>  BY <1>prime, <2>2 DEF QueueFacts
  <2> QED BY <1>6, <2>1, <2>3 DEF Flush, Fifo!Flush, Fifo!Next
<1>7. ASSUME NEW p \in Producers, InsertSignal(p) PROVE UNCHANGED <<Contents, got>>
  <2>1. Accepted' = Accepted /\ UNCHANGED <<Storage, NextExtract, got>>
    BY <1>7 DEF InsertSignal, Accepted, Inserting, ring
  <2> QED BY <2>1, SameContents
<1>8. ASSUME NEW c \in Consumers,
             \/ \E b \in Periods : ExtractReset(c, b)
             \/ ExtractTest(c) \/ ExtractWake(c)
      PROVE  UNCHANGED <<Contents, got>>
  <2>1. Accepted' = Accepted /\ UNCHANGED <<Storage, NextExtract, got>>
    BY <1>8 DEF ExtractReset, ExtractTest, ExtractWake, Accepted, Inserting, ring
  <2> QED BY <2>1, SameContents
<1>9. CASE UNCHANGED vars
  <2>1. Accepted' = Accepted /\ UNCHANGED <<Storage, NextExtract, got>>
    BY <1>9 DEF vars, Accepted, Inserting, ring
  <2> QED BY <2>1, SameContents
<1> QED BY <1>1, <1>2, <1>3, <1>4, <1>5, <1>6, <1>7, <1>8, <1>9
     DEF Next, InsertStep, ExtractStep

\* The ring is a bounded first-in first-out queue, for any size and any number
\* of producers, consumers and flushes at once.
THEOREM RingIsFifo == Spec => ImplementsFifo
<1>1. Init => Fifo!Init
  <2> SUFFICES ASSUME Init PROVE Contents = <<>> /\ got = [c \in Consumers |-> Nothing]
    BY DEF Fifo!Init
  <2>1. Accepted = NextExtract  BY DEF Init, Accepted, Inserting
  <2> QED BY <2>1, RingInit, EmptyContents DEF Init
<1> QED BY <1>1, RingInit, RingStep, RingSimulates, PTL DEF Spec, ImplementsFifo, Fifo!Spec

---------------------------------------------------------------------------
(* No missed signal, with one consumer.                                    *)

\* A second consumer would reset the event that is meant for the first; every
\* ring of the player is emptied by one process.
OneConsumer == \A c, d \in Consumers : c = d

\* The indices meet over an empty ring, or over a full one that an insertion in
\* progress is about to refuse.
LEMMA IndicesMeet ==
  ASSUME RingInv, NextExtract = NextInsert
  PROVE  Count = 0 \/ Count = MaxEntries
<1> USE RingAssumption DEF RingInv, TypeOK, Index, Limit
<1>1. CASE Lock = NoThread
  BY <1>1 DEF Count, Accepted, Inserting
<1>2. CASE Lock # NoThread
  <2>1. Lock \in Producers  BY <1>2
  <2>2. NextInsert = OldNextInsert + 1 \/ NextInsert = Wrapped(OldNextInsert + 1)
    BY <2>1 DEF InsertionInv
  <2> QED BY <1>2, <2>2 DEF Count, Accepted, Inserting, Wrapped
<1> QED BY <1>1, <1>2

\* The steps that leave the queue alone leave alone how much is in it.
LEMMA CountUnmoved ==
  ASSUME RingInv, [Next]_vars,
         ~\E p \in Producers : InsertAccept(p) \/ Flush(p),
         ~\E c \in Consumers : ExtractTake(c)
  PROVE  Count' = Count
<1> SUFFICES Accepted' = Accepted /\ NextExtract' = NextExtract  BY DEF Count, Limit
<1>0. \A p \in Producers : Lock = p <=> pc[p] \in {"advanced", "compare"}
  BY DEF RingInv, InsertionInv
<1>1. ASSUME NEW p \in Producers, NEW v \in Values, InsertStore(p, v)
      PROVE  Accepted' = Accepted /\ NextExtract' = NextExtract
  BY <1>1, RingAssumption DEF InsertStore, Accepted, Inserting, Threads
<1>2. ASSUME NEW p \in Producers, InsertWrap(p) \/ InsertFull(p)
      PROVE  Accepted' = Accepted /\ NextExtract' = NextExtract
  <2>1. Lock = p /\ p # NoThread
    BY <1>0, <1>2, RingAssumption DEF InsertWrap, InsertFull, Threads
  <2> QED BY <1>2, <2>1 DEF InsertWrap, InsertFull, Accepted, Inserting
<1>3. ASSUME NEW p \in Producers, InsertSignal(p)
      PROVE  Accepted' = Accepted /\ NextExtract' = NextExtract
  BY <1>3 DEF InsertSignal, Accepted, Inserting, ring
<1>4. ASSUME NEW c \in Consumers,
             \/ \E b \in Periods : ExtractReset(c, b)
             \/ ExtractTest(c) \/ ExtractWake(c) \/ ExtractNothing(c)
      PROVE  Accepted' = Accepted /\ NextExtract' = NextExtract
  BY <1>4 DEF ExtractReset, ExtractTest, ExtractWake, ExtractNothing, ExtractReturn,
              Accepted, Inserting, ring
<1>5. CASE UNCHANGED vars  BY <1>5 DEF vars, ring, Accepted, Inserting
<1> QED BY <1>1, <1>2, <1>3, <1>4, <1>5 DEF Next, InsertStep, ExtractStep

\* A consumer asleep beside a ring that is neither empty nor full has been, or is
\* about to be, signalled, for any number of producers and flushes and any size:
\* it went to sleep when the indices met, and since then only an insertion, which
\* is followed by its signal, has left something between them.
THEOREM NeverMissesSignal ==
  ASSUME OneConsumer
  PROVE  Spec => []NoMissedSignal
<1>1. Init => NoMissedSignal
  BY DEF Init, NoMissedSignal, Threads
<1>2. RingInv /\ RingInv' /\ NoMissedSignal /\ [Next]_vars => NoMissedSignal'
  <2> SUFFICES ASSUME RingInv, RingInv', NoMissedSignal, [Next]_vars,
                      NEW c \in Consumers, pc'[c] = "wait", Count' \in 1 .. MaxEntries - 1
               PROVE  Signal' \/ \E p \in Producers : pc'[p] = "signal"
    BY DEF NoMissedSignal
  <2> DEFINE Told == Signal \/ \E p \in Producers : pc[p] = "signal"
  <2>0. /\ pc \in [Threads -> {"idle", "advanced", "compare", "signal", "test", "wait", "take"}]
        /\ c \in Threads /\ Producers \subseteq Threads
        /\ \A p \in Producers : p # c
        /\ \A d \in Consumers : d = c
    BY RingAssumption DEF RingInv, TypeOK, Threads, OneConsumer
  <2>1. ASSUME NEW p \in Producers, InsertAccept(p) PROVE Told'
    <3>1. pc'[p] = "signal"  BY <2>0, <2>1 DEF InsertAccept
    <3> QED BY <3>1
  <2>2. ASSUME NEW p \in Producers, Flush(p) PROVE FALSE
    <3>1. Count' = 0  BY <2>2 DEF Flush, Count, Accepted, Inserting
    <3> QED BY <3>1
  <2>3. ASSUME ExtractTake(c) PROVE FALSE
    BY <2>0, <2>3 DEF ExtractTake, ExtractReturn
  <2>4. CASE /\ ~\E p \in Producers : InsertAccept(p) \/ Flush(p)
             /\ ~ExtractTake(c)
    <3>0. Count' = Count  BY <2>0, <2>4, CountUnmoved
    <3>1. pc[c] = "wait" => Told  BY <3>0 DEF NoMissedSignal
    <3>2. ASSUME NEW p \in Producers, NEW v \in Values, InsertStore(p, v) PROVE Told'
      BY <2>0, <3>1, <3>2 DEF InsertStore
    <3>3. ASSUME NEW p \in Producers, InsertWrap(p) \/ InsertFull(p) PROVE Told'
      BY <2>0, <3>1, <3>3 DEF InsertWrap, InsertFull
    <3>4. ASSUME NEW p \in Producers, InsertSignal(p) PROVE Told'
      BY <3>4 DEF InsertSignal
    <3>5. ASSUME NEW b \in Periods, ExtractReset(c, b) PROVE FALSE
      BY <2>0, <3>5 DEF ExtractReset
    <3>6. ASSUME ExtractTest(c) PROVE FALSE
      <4>1. NextExtract = NextInsert  BY <2>0, <3>6 DEF ExtractTest
      <4> QED BY <3>0, <4>1, IndicesMeet, RingAssumption
    <3>7. ASSUME ExtractWake(c) \/ ExtractNothing(c) PROVE FALSE
      BY <2>0, <3>7 DEF ExtractWake, ExtractNothing, ExtractReturn
    <3>8. CASE UNCHANGED vars  BY <3>1, <3>8 DEF vars
    <3> QED BY <2>0, <2>4, <3>2, <3>3, <3>4, <3>5, <3>6, <3>7, <3>8
            DEF Next, InsertStep, ExtractStep
  <2> QED BY <2>0, <2>1, <2>2, <2>3, <2>4
<1> QED BY <1>1, <1>2, RingInit, RingStep, PTL DEF Spec
=============================================================================
