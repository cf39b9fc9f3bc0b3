------------------------- MODULE PlayerEventsProofs -------------------------
(***************************************************************************)
(* The event records of the player, for every table, every set of codes    *)
(* and any number of signallers, collectors and watchers: the table is the *)
(* queue EventQueue promises, and a watcher after all events does not      *)
(* sleep beside one.                                                       *)
(***************************************************************************)
EXTENDS PlayerEvents, FiniteSetTheorems, FunctionTheorems, SequenceTheorems,
        WellFoundedInduction, TLAPS

---------------------------------------------------------------------------
(* The list as the sequence of its slots.                                  *)

Used(L, i) == L[i].Code # EventIllegalIdentifier

\* The slots of s, in this order, are the records of table L between head h and
\* tail e, and no other slot is in use.
Chain(L, h, e, s) ==
  /\ \A k, l \in 1 .. Len(s) : s[k] = s[l] => k = l
  /\ \A i \in Slots : Used(L, i) <=> \E k \in 1 .. Len(s) : s[k] = i
  /\ \A k \in 1 .. Len(s) :
       L[s[k]].NextIndex = IF k = Len(s) THEN INVALID_INDEX ELSE s[k + 1]
  /\ h = IF Len(s) = 0 THEN INVALID_INDEX ELSE s[1]
  /\ e = IF Len(s) = 0 THEN INVALID_INDEX ELSE s[Len(s)]

Chained(s) == Chain(EventList, EventListHead, EventListTail, s)

\* There is no more room when every slot is on the list.
LEMMA ChainLength ==
  ASSUME NEW L, NEW h, NEW e, NEW s \in Seq(Slots), Chain(L, h, e, s)
  PROVE  /\ Len(s) \in 0 .. MaxEvents
         /\ Len(s) = MaxEvents <=> \A i \in Slots : Used(L, i)
<1> DEFINE n == Len(s)
<1>1. n \in Nat /\ s \in [1 .. n -> Slots]  OBVIOUS
<1>2. IsFiniteSet(Slots) /\ Cardinality(Slots) = MaxEvents /\ MaxEvents \in Nat
  <2>1. MaxEvents \in Nat \ {0, 1}  BY EventsAssumption
  <2> QED BY <2>1, FS_Interval DEF Slots
<1>3. IsFiniteSet(1 .. n) /\ Cardinality(1 .. n) = n  BY <1>1, FS_Interval
<1>4. s \in Injection(1 .. n, Slots)
  BY <1>1 DEF Chain, Injection, IsInjective
<1>5. n <= MaxEvents /\ (n = MaxEvents <=> s \in Surjection(1 .. n, Slots))
  BY <1>2, <1>3, <1>4, FS_Injection
<1>6. s \in Surjection(1 .. n, Slots) <=> \A i \in Slots : \E k \in 1 .. n : s[k] = i
  BY <1>1 DEF Surjection
<1>7. (\A i \in Slots : \E k \in 1 .. n : s[k] = i) <=> \A i \in Slots : Used(L, i)
  BY DEF Chain
<1>8. n \in 0 .. MaxEvents
  <2>1. n \in Nat /\ MaxEvents \in Nat /\ n <= MaxEvents  BY <1>1, <1>2, <1>5
  <2> HIDE DEF n
  <2> QED BY <2>1
<1> QED BY <1>5, <1>6, <1>7, <1>8

\* What the walk from the head meets: the slots of the list, then no index.
Places(s) == [k \in 0 .. MaxEvents |-> IF k < Len(s) THEN s[k + 1] ELSE INVALID_INDEX]

\* The equation that defines the walk has that one solution.
LEMMA WalkUnique ==
  ASSUME NEW L, NEW h, NEW e, NEW s \in Seq(Slots), Chain(L, h, e, s), NEW g
  PROVE  g = [k \in 0 .. MaxEvents |->
               IF k = 0 THEN h ELSE IF g[k - 1] = INVALID_INDEX THEN INVALID_INDEX
               ELSE L[g[k - 1]].NextIndex]
         <=> g = Places(s)
<1> DEFINE n == Len(s)
           F == [k \in 0 .. MaxEvents |->
               IF k = 0 THEN h ELSE IF g[k - 1] = INVALID_INDEX THEN INVALID_INDEX
               ELSE L[g[k - 1]].NextIndex]
<1>1. /\ MaxEvents \in Nat \ {0, 1} /\ n \in Nat /\ n <= MaxEvents
      /\ \A k \in 1 .. n : s[k] \in Nat /\ s[k] # INVALID_INDEX
  BY EventsAssumption, ChainLength DEF Slots, INVALID_INDEX
<1>2. \A k \in 1 .. MaxEvents :
        Places(s)[k] = IF Places(s)[k - 1] = INVALID_INDEX THEN INVALID_INDEX
                       ELSE L[Places(s)[k - 1]].NextIndex
  <2> SUFFICES ASSUME NEW k \in 1 .. MaxEvents
               PROVE  Places(s)[k] = IF Places(s)[k - 1] = INVALID_INDEX THEN INVALID_INDEX
                                     ELSE L[Places(s)[k - 1]].NextIndex
    OBVIOUS
  <2>1. k \in 0 .. MaxEvents /\ k - 1 \in 0 .. MaxEvents /\ k - 1 + 1 = k  BY <1>1
  <2>2. /\ Places(s)[k] = IF k < n THEN s[k + 1] ELSE INVALID_INDEX
        /\ Places(s)[k - 1] = IF k - 1 < n THEN s[k] ELSE INVALID_INDEX
    BY <2>1 DEF Places
  <2>3. CASE k <= n
    <3>1. k \in 1 .. n /\ k - 1 < n  BY <1>1, <2>3
    <3>2. L[s[k]].NextIndex = IF k = n THEN INVALID_INDEX ELSE s[k + 1]
      BY <3>1 DEF Chain
    <3> QED BY <1>1, <2>2, <3>1, <3>2
  <2>4. CASE n < k  BY <1>1, <2>2, <2>4
  <2> QED BY <1>1, <2>3, <2>4
<1>3. Places(s)[0] = h
  BY <1>1 DEF Places, Chain
<1>4. ASSUME g = Places(s) PROVE g = F
  <2>1. \A k \in 0 .. MaxEvents : g[k] = F[k]
    BY <1>1, <1>2, <1>3, <1>4
  <2>2. g = [k \in 0 .. MaxEvents |-> g[k]]  BY <1>4 DEF Places
  <2> QED BY <2>1, <2>2
<1>5. ASSUME g = F PROVE g = Places(s)
  <2> DEFINE differs == {k \in 0 .. MaxEvents : g[k] # Places(s)[k]}
  <2>0. /\ g[0] = h
        /\ \A k \in 1 .. MaxEvents :
             g[k] = IF g[k - 1] = INVALID_INDEX THEN INVALID_INDEX ELSE L[g[k - 1]].NextIndex
    BY <1>1, <1>5
  <2>1. SUFFICES ASSUME differs # {} PROVE FALSE
    <3>1. g = [k \in 0 .. MaxEvents |-> g[k]]  BY <1>5
    <3> QED BY <2>1, <3>1 DEF Places
  <2>2. PICK k \in differs : \A j \in differs : k <= j
    <3> DEFINE Below == OpToRel(<, Nat)
    <3>1. IsWellFoundedOn(Below, Nat)  BY NatLessThanWellFounded
    <3>2. \A i, j \in Nat : <<j, i>> \in Below <=> j < i  BY DEF OpToRel
    <3>3. differs \in SUBSET Nat  BY <1>1
    <3> HIDE DEF Below, differs
    <3>4. PICK k \in differs : \A j \in differs : ~ (<<j, k>> \in Below)
      BY <2>1, <3>1, <3>3, WFMin
    <3>5. ASSUME NEW j \in differs PROVE k <= j
      <4>1. k \in Nat /\ j \in Nat  BY <3>3
      <4>2. ~(j < k)  BY <3>2, <3>4, <4>1
      <4> QED BY <4>1, <4>2
    <3> QED BY <3>5
  <2>3. k # 0  BY <1>3, <2>0
  <2>4. k \in 1 .. MaxEvents /\ k - 1 \in 0 .. MaxEvents /\ k - 1 \notin differs
    BY <1>1, <2>2, <2>3
  <2>5. g[k - 1] = Places(s)[k - 1]  BY <2>4
  <2> QED BY <1>2, <2>0, <2>4, <2>5
<1> QED BY <1>4, <1>5

\* So that is what Walk is.
LEMMA WalkIs == \A s \in Seq(Slots) : Chained(s) => Walk = Places(s)
<1> SUFFICES ASSUME NEW s \in Seq(Slots), Chained(s) PROVE Walk = Places(s)
  OBVIOUS
<1> QED BY WalkUnique DEF Walk, Chained

\* The records the walk meets, and the queue of their codes.
WalkFacts ==
  \A s \in Seq(Slots) : Chained(s) =>
    /\ Linked = 0 .. Len(s) - 1 /\ Cardinality(Linked) = Len(s)
    /\ \A k \in Linked : Walk[k] = s[k + 1] /\ k + 1 \in 1 .. Len(s)
    /\ queue = [k \in 1 .. Len(s) |-> EventList[s[k]].Code]

\* They are the list, record by record.
LEMMA LinkedIs == WalkFacts
<1> SUFFICES ASSUME NEW s \in Seq(Slots), Chained(s)
             PROVE  /\ Linked = 0 .. Len(s) - 1 /\ Cardinality(Linked) = Len(s)
                    /\ \A k \in Linked : Walk[k] = s[k + 1] /\ k + 1 \in 1 .. Len(s)
                    /\ queue = [k \in 1 .. Len(s) |-> EventList[s[k]].Code]
  BY DEF WalkFacts
<1> DEFINE n == Len(s)
<1>1. /\ MaxEvents \in Nat /\ n \in Nat /\ n <= MaxEvents
      /\ \A k \in 1 .. n : s[k] \in Nat /\ s[k] # INVALID_INDEX
  BY EventsAssumption, ChainLength DEF Slots, INVALID_INDEX, Chained
<1>2. /\ \A k \in 0 .. MaxEvents : Walk[k] = IF k < n THEN s[k + 1] ELSE INVALID_INDEX
  BY WalkIs DEF Places
<1>3. ASSUME NEW k \in 0 .. MaxEvents PROVE Walk[k] # INVALID_INDEX <=> k \in 0 .. n - 1
  <2>1. CASE k < n
    <3>1. k + 1 \in 1 .. n /\ k \in 0 .. n - 1  BY <1>1, <2>1
    <3> QED BY <1>1, <1>2, <2>1, <3>1
  <2>2. CASE ~(k < n)  BY <1>1, <1>2, <2>2
  <2> QED BY <2>1, <2>2
<1>4. Linked = 0 .. n - 1
  <2>1. 0 .. n - 1 \subseteq 0 .. MaxEvents  BY <1>1
  <2> QED BY <1>3, <2>1 DEF Linked
<1>5. Cardinality(Linked) = n
  <2>1. 0 \in Int /\ n - 1 \in Int  BY <1>1
  <2>2. Cardinality(0 .. n - 1) = IF 0 > n - 1 THEN 0 ELSE n - 1 - 0 + 1
    BY <2>1, FS_Interval
  <2> QED BY <1>1, <1>4, <2>2
<1>6. \A k \in 0 .. n - 1 : Walk[k] = s[k + 1] /\ k + 1 \in 1 .. n
  BY <1>1, <1>2
<1>7. queue = [k \in 1 .. n |-> EventList[s[k]].Code]
  <2>1. \A k \in 1 .. n : k - 1 \in 0 .. n - 1 /\ k - 1 + 1 = k  BY <1>1
  <2>2. \A k \in 1 .. n : Walk[k - 1] = s[k]  BY <1>6, <2>1
  <2> QED BY <1>5, <2>2 DEF queue
<1> QED BY <1>4, <1>5, <1>6, <1>7

---------------------------------------------------------------------------
(* Types, and what is true of a thread at each step.                       *)

\* The Lock is held in the loop over the registrations, and there only; a thread
\* that scans the list without it is at a slot, or has come to the end.
LocalsOK ==
  /\ \A t \in Signallers :
       /\ pc[t] \in {"idle", "insert", "test", "set"}
       /\ pc[t] # "idle" => rec[t] \in Codes
       /\ pc[t] = "test" => at[t] \in 1 .. MaxSignals + 1
       /\ pc[t] = "set" => at[t] \in Signals
       /\ Lock = t <=> pc[t] \in {"test", "set"}
  /\ \A w \in Watchers : pc[w] = "look" => at[w] \in Index

ListOK == \E s \in Seq(Slots) : Chained(s)

EventsInv == TypeOK /\ LocalsOK /\ ListOK

\* The empty table is a list of no records.
LEMMA EventsInit == Init => EventsInv
<1> SUFFICES ASSUME Init PROVE EventsInv  OBVIOUS
<1> USE EventsAssumption DEF Init
<1>1. TypeOK
  <2>1. /\ EventList \in [Slots -> [Code : Codes \cup {EventIllegalIdentifier}, NextIndex : Index]]
        /\ EventListHead \in Index /\ EventListTail \in Index
    BY DEF Empty, Index
  <2>2. ExternalEventSignals \in [Signals -> Watchers \cup {Nothing}]
    <3>1. Registered \cup {Nothing} \subseteq Watchers \cup {Nothing}  OBVIOUS
    <3>2. ExternalEventSignals \in [Signals -> Registered \cup {Nothing}]  OBVIOUS
    <3> QED BY <3>1, <3>2
  <2>3. /\ Lock \in Signallers \cup {Nothing}
        /\ InternalEventSignal \in BOOLEAN /\ Event \in [Watchers -> BOOLEAN]
    OBVIOUS
  <2>4. /\ pc \in [Threads -> {"idle", "insert", "test", "set", "scan", "wait", "look",
                               "asleep", "collect"}]
        /\ rec \in [Signallers -> Codes \cup {Nothing}]
    OBVIOUS
  <2>5. at \in [Threads -> Int] /\ got \in [Callers -> Codes \cup {Nothing}]
    BY DEF INVALID_INDEX
  <2> QED BY <2>1, <2>2, <2>3, <2>4, <2>5 DEF TypeOK
<1>2. LocalsOK
  BY DEF LocalsOK, Threads, Callers
<1>3. Chained(<<>>)
  BY DEF Chained, Chain, Used, Empty
<1>4. ListOK  BY <1>3, EmptySeq DEF ListOK
<1> QED BY <1>1, <1>2, <1>4 DEF EventsInv

---------------------------------------------------------------------------
(* What the three changes of the list make of the sequence.                *)

Tables == [Slots -> [Code : Codes \cup {EventIllegalIdentifier}, NextIndex : Index]]

\* SignalEvent: a free slot goes to the end.
LEMMA ChainAppend ==
  ASSUME NEW L \in Tables, NEW h, NEW e, NEW s \in Seq(Slots), Chain(L, h, e, s),
         NEW i \in Slots, ~Used(L, i), NEW code \in Codes, NEW M,
         M = [j \in Slots |->
               IF j = i THEN [Code |-> code, NextIndex |-> INVALID_INDEX]
               ELSE IF j = e THEN [L[j] EXCEPT !.NextIndex = i] ELSE L[j]]
  PROVE  /\ Append(s, i) \in Seq(Slots)
         /\ Chain(M, IF e = INVALID_INDEX THEN i ELSE h, i, Append(s, i))
         /\ \A k \in 1 .. Len(s) : M[s[k]].Code = L[s[k]].Code
         /\ M[i].Code = code
<1> DEFINE n == Len(s)
           r == Append(s, i)
<1>1. /\ n \in Nat /\ \A k \in 1 .. n : s[k] \in Slots
      /\ \A j \in Slots : j # INVALID_INDEX
  BY EventsAssumption DEF Slots, INVALID_INDEX
<1>2. /\ r \in Seq(Slots) /\ Len(r) = n + 1 /\ r[n + 1] = i
      /\ \A k \in 1 .. n : r[k] = s[k]
  OBVIOUS
<1>3. \A k \in 1 .. n : s[k] # i  BY <1>1 DEF Chain
<1>4. e = IF n = 0 THEN INVALID_INDEX ELSE s[n]  BY DEF Chain
<1>5. /\ \A k \in 1 .. n : k # n => M[s[k]] = L[s[k]]
      /\ n # 0 => M[s[n]] = [L[s[n]] EXCEPT !.NextIndex = i]
      /\ M[i] = [Code |-> code, NextIndex |-> INVALID_INDEX]
  <2>1. \A k \in 1 .. n : k # n => s[k] # e
    <3>1. n # 0 => n \in 1 .. n  BY <1>1
    <3> QED BY <1>1, <1>4, <3>1 DEF Chain
  <2>2. n # 0 => n \in 1 .. n  BY <1>1
  <2> QED BY <1>1, <1>3, <1>4, <2>1, <2>2
<1>6. \A j \in Slots : L[j] \in [Code : Codes \cup {EventIllegalIdentifier}, NextIndex : Index]
  BY DEF Tables
<1>7. \A k \in 1 .. n : M[s[k]].Code = L[s[k]].Code
  <2>1. n # 0 => M[s[n]].Code = L[s[n]].Code
    <3>1. n # 0 => n \in 1 .. n  BY <1>1
    <3> QED BY <1>1, <1>5, <1>6, <3>1
  <2>2. \A k \in 1 .. n : k = n => n # 0  BY <1>1
  <2>3. \A k \in 1 .. n : k # n => M[s[k]].Code = L[s[k]].Code  BY <1>5
  <2> HIDE DEF n
  <2> QED BY <2>1, <2>2, <2>3
<1> HIDE DEF r, n
<1>8. \A k, l \in 1 .. n + 1 : r[k] = r[l] => k = l
  <2> SUFFICES ASSUME NEW k \in 1 .. n + 1, NEW l \in 1 .. n + 1, r[k] = r[l] PROVE k = l
    OBVIOUS
  <2>1. CASE k \in 1 .. n /\ l \in 1 .. n  BY <1>2, <2>1 DEF Chain, n
  <2>2. CASE k = n + 1 \/ l = n + 1
    <3>1. k = n + 1 \/ k \in 1 .. n  BY <1>1
    <3>2. l = n + 1 \/ l \in 1 .. n  BY <1>1
    <3> QED BY <1>2, <1>3, <2>2, <3>1, <3>2
  <2> QED BY <1>1, <2>1, <2>2
<1>9. \A j \in Slots : Used(M, j) <=> \E k \in 1 .. n + 1 : r[k] = j
  <2> SUFFICES ASSUME NEW j \in Slots
               PROVE  Used(M, j) <=> \E k \in 1 .. n + 1 : r[k] = j
    OBVIOUS
  <2>1. n + 1 \in 1 .. n + 1 /\ \A k \in 1 .. n : k \in 1 .. n + 1  BY <1>1
  <2>2. CASE j = i
    <3>1. Used(M, j)  BY <1>5, <2>2, EventsAssumption DEF Used
    <3> QED BY <1>2, <2>1, <2>2, <3>1
  <2>3. CASE j # i
    <3>1. M[j].Code = L[j].Code
      <4>1. CASE j = e  BY <1>6, <2>3, <4>1
      <4>2. CASE j # e  BY <2>3, <4>2
      <4> QED BY <4>1, <4>2
    <3>2. Used(M, j) <=> \E k \in 1 .. n : s[k] = j  BY <3>1 DEF Chain, Used, n
    <3>3. \A k \in 1 .. n + 1 : r[k] = j => k \in 1 .. n  BY <1>1, <1>2, <2>3
    <3> QED BY <1>2, <2>1, <3>2, <3>3
  <2> QED BY <2>2, <2>3
<1>10. \A k \in 1 .. n + 1 :
         M[r[k]].NextIndex = IF k = n + 1 THEN INVALID_INDEX ELSE r[k + 1]
  <2> SUFFICES ASSUME NEW k \in 1 .. n + 1
               PROVE  M[r[k]].NextIndex = IF k = n + 1 THEN INVALID_INDEX ELSE r[k + 1]
    OBVIOUS
  <2>1. CASE k = n + 1  BY <1>2, <1>5, <2>1
  <2>2. CASE k = n /\ k # 0
    <3>1. r[k] = s[n] /\ k \in 1 .. n /\ s[n] \in Slots  BY <1>1, <1>2, <2>2
    <3> QED BY <1>1, <1>2, <1>5, <1>6, <2>2, <3>1
  <2>3. CASE k < n
    <3>1. /\ k \in 1 .. n /\ k + 1 \in 1 .. n /\ k # n /\ k # n + 1
          /\ r[k] = s[k] /\ r[k + 1] = s[k + 1]
      BY <1>1, <1>2, <2>3
    <3>2. L[s[k]].NextIndex = s[k + 1]  BY <3>1 DEF Chain, n
    <3> QED BY <1>5, <3>1, <3>2
  <2> QED BY <1>1, <2>1, <2>2, <2>3
<1>11. IF e = INVALID_INDEX THEN r[1] = i ELSE r[1] = h
  <2>1. CASE n = 0  BY <1>2, <1>4, <2>1
  <2>2. CASE n # 0
    <3>1. 1 \in 1 .. n /\ n \in 1 .. n  BY <1>1, <2>2
    <3>2. e # INVALID_INDEX /\ h = s[1]  BY <1>1, <1>4, <2>2, <3>1 DEF Chain, n
    <3> QED BY <1>2, <3>1, <3>2
  <2> QED BY <2>1, <2>2
<1>12. Chain(M, IF e = INVALID_INDEX THEN i ELSE h, i, r)
  <2>1. Len(r) = n + 1  BY <1>2
  <2>2. \A k, l \in 1 .. Len(r) : r[k] = r[l] => k = l  BY <1>8, <2>1
  <2>3. \A j \in Slots : Used(M, j) <=> \E k \in 1 .. Len(r) : r[k] = j  BY <1>9, <2>1
  <2>4. \A k \in 1 .. Len(r) :
          M[r[k]].NextIndex = IF k = Len(r) THEN INVALID_INDEX ELSE r[k + 1]
    BY <1>10, <2>1
  <2>5. (IF e = INVALID_INDEX THEN i ELSE h) = IF Len(r) = 0 THEN INVALID_INDEX ELSE r[1]
    BY <1>1, <1>11, <2>1
  <2>6. i = IF Len(r) = 0 THEN INVALID_INDEX ELSE r[Len(r)]
    BY <1>1, <1>2, <2>1
  <2> QED BY <2>2, <2>3, <2>4, <2>5, <2>6 DEF Chain
<1> QED BY <1>2, <1>5, <1>7, <1>12 DEF r, n

WithoutHead(L, h) == [L EXCEPT ![h].Code = EventIllegalIdentifier]

\* An overflow: the head goes.
LEMMA ChainTail ==
  ASSUME NEW L \in Tables, NEW h, NEW e, NEW s \in Seq(Slots), Chain(L, h, e, s),
         Len(s) > 1
  PROVE  /\ Tail(s) \in Seq(Slots) /\ h \in Slots /\ h = s[1]
         /\ Chain(WithoutHead(L, h), L[h].NextIndex, e, Tail(s))
         /\ \A k \in 2 .. Len(s) : WithoutHead(L, h)[s[k]].Code = L[s[k]].Code
<1> DEFINE n == Len(s)
           r == Tail(s)
           M == WithoutHead(L, h)
<1>1. /\ n \in Nat /\ n > 1 /\ \A k \in 1 .. n : s[k] \in Slots
      /\ 1 \in 1 .. n /\ h = s[1] /\ h \in Slots
  BY DEF Chain
<1>2. r \in Seq(Slots) /\ Len(r) = n - 1 /\ \A k \in 1 .. n - 1 : r[k] = s[k + 1]
  BY <1>1
<1>3. /\ \A j \in Slots : j # h => M[j] = L[j]
      /\ M[h].Code = EventIllegalIdentifier
  BY <1>1 DEF Tables, WithoutHead
<1>4. \A k \in 1 .. n : s[k] = h => k = 1  BY <1>1 DEF Chain
<1>5. \A k \in 2 .. n : k \in 1 .. n /\ s[k] # h /\ M[s[k]] = L[s[k]]
  BY <1>1, <1>3, <1>4
<1> HIDE DEF r, n, M
<1>6. \A k \in 1 .. n - 1 : k \in 1 .. n /\ k + 1 \in 2 .. n /\ k + 1 \in 1 .. n  BY <1>1
<1>7. \A k, l \in 1 .. n - 1 : r[k] = r[l] => k = l
  <2> SUFFICES ASSUME NEW k \in 1 .. n - 1, NEW l \in 1 .. n - 1, r[k] = r[l] PROVE k = l
    OBVIOUS
  <2>1. k + 1 = l + 1  BY <1>2, <1>6 DEF Chain, n
  <2> QED BY <1>1, <2>1
<1>8. \A j \in Slots : Used(M, j) <=> \E k \in 1 .. n - 1 : r[k] = j
  <2> SUFFICES ASSUME NEW j \in Slots
               PROVE  Used(M, j) <=> \E k \in 1 .. n - 1 : r[k] = j
    OBVIOUS
  <2>1. CASE j = h
    <3>1. \A k \in 1 .. n - 1 : r[k] # h  BY <1>2, <1>5, <1>6
    <3> QED BY <1>3, <2>1, <3>1 DEF Used
  <2>2. CASE j # h
    <3>1. Used(M, j) <=> \E k \in 1 .. n : s[k] = j  BY <1>3, <2>2 DEF Chain, Used, n
    <3>2. \A k \in 1 .. n : s[k] = j => k - 1 \in 1 .. n - 1 /\ k - 1 + 1 = k
      BY <1>1, <2>2
    <3> QED BY <1>2, <1>6, <3>1, <3>2
  <2> QED BY <2>1, <2>2
<1>9. \A k \in 1 .. n - 1 :
        M[r[k]].NextIndex = IF k = n - 1 THEN INVALID_INDEX ELSE r[k + 1]
  <2> SUFFICES ASSUME NEW k \in 1 .. n - 1
               PROVE  M[r[k]].NextIndex = IF k = n - 1 THEN INVALID_INDEX ELSE r[k + 1]
    OBVIOUS
  <2>1. M[r[k]].NextIndex = L[s[k + 1]].NextIndex  BY <1>2, <1>5, <1>6
  <2>2. L[s[k + 1]].NextIndex = IF k + 1 = n THEN INVALID_INDEX ELSE s[k + 1 + 1]
    BY <1>6 DEF Chain, n
  <2>3. CASE k = n - 1  BY <1>1, <2>1, <2>2, <2>3
  <2>4. CASE k # n - 1
    <3>1. k + 1 \in 1 .. n - 1 /\ k + 1 # n  BY <1>1, <2>4
    <3> QED BY <1>2, <2>1, <2>2, <2>4, <3>1
  <2> QED BY <2>3, <2>4
<1>10. L[h].NextIndex = r[1]
  <2>1. 1 \in 1 .. n - 1 /\ 1 # n  BY <1>1
  <2>2. L[s[1]].NextIndex = s[1 + 1]  BY <1>1, <2>1 DEF Chain, n
  <2> QED BY <1>1, <1>2, <2>1, <2>2
<1>11. e = r[n - 1]
  <2>1. n - 1 \in 1 .. n - 1 /\ n - 1 + 1 = n /\ n # 0  BY <1>1
  <2>2. e = s[n]  BY <2>1 DEF Chain, n
  <2> QED BY <1>2, <2>1, <2>2
<1>12. Chain(M, L[h].NextIndex, e, r)
  <2>1. Len(r) = n - 1  BY <1>2
  <2>2. \A k, l \in 1 .. Len(r) : r[k] = r[l] => k = l  BY <1>7, <2>1
  <2>3. \A j \in Slots : Used(M, j) <=> \E k \in 1 .. Len(r) : r[k] = j  BY <1>8, <2>1
  <2>4. \A k \in 1 .. Len(r) :
          M[r[k]].NextIndex = IF k = Len(r) THEN INVALID_INDEX ELSE r[k + 1]
    BY <1>9, <2>1
  <2>5. L[h].NextIndex = IF Len(r) = 0 THEN INVALID_INDEX ELSE r[1]
    BY <1>1, <1>10, <2>1
  <2>6. e = IF Len(r) = 0 THEN INVALID_INDEX ELSE r[Len(r)]
    BY <1>1, <1>11, <2>1
  <2> QED BY <2>2, <2>3, <2>4, <2>5, <2>6 DEF Chain
<1> QED BY <1>1, <1>2, <1>5, <1>12 DEF r, n, M

\* A sequence without its m-th element.
Without(s, m) == [k \in 1 .. Len(s) - 1 |-> IF k < m THEN s[k] ELSE s[k + 1]]

\* It is what is left and right of that element, put together.
LEMMA WithoutIs ==
  ASSUME NEW S, NEW s \in Seq(S), NEW m \in 1 .. Len(s)
  PROVE  /\ Without(s, m) \in Seq(S) /\ Len(Without(s, m)) = Len(s) - 1
         /\ SubSeq(s, 1, m - 1) \o SubSeq(s, m + 1, Len(s)) = Without(s, m)
<1> DEFINE n == Len(s)
           a == SubSeq(s, 1, m - 1)
           b == SubSeq(s, m + 1, n)
<1>1. n \in Nat \ {0} /\ m \in 1 .. n /\ \A k \in 1 .. n : s[k] \in S
  OBVIOUS
<1>2. \A k \in 1 .. n - 1 : (IF k < m THEN s[k] ELSE s[k + 1]) \in S
  BY <1>1
<1>3. n - 1 \in Nat  BY <1>1
<1>4. Without(s, m) \in Seq(S) /\ Len(Without(s, m)) = n - 1
  BY <1>2, <1>3 DEF Without
<1>5. /\ a \in Seq(S) /\ Len(a) = m - 1 /\ \A k \in 1 .. m - 1 : a[k] = s[k]
  BY <1>1
<1>6. /\ b \in Seq(S) /\ Len(b) = n - m /\ \A k \in 1 .. n - m : b[k] = s[m + k]
  BY <1>1
<1> HIDE DEF n, a, b
<1>7. /\ a \o b \in Seq(S) /\ Len(a \o b) = n - 1
      /\ \A k \in 1 .. n - 1 : (a \o b)[k] = IF k <= m - 1 THEN a[k] ELSE b[k - (m - 1)]
  <2>1. /\ a \o b \in Seq(S) /\ Len(a \o b) = Len(a) + Len(b)
        /\ \A k \in 1 .. Len(a) + Len(b) :
             (a \o b)[k] = IF k <= Len(a) THEN a[k] ELSE b[k - Len(a)]
    BY <1>5, <1>6, ConcatProperties
  <2>2. Len(a) + Len(b) = n - 1  BY <1>1, <1>5, <1>6
  <2> QED BY <1>5, <2>1, <2>2
<1>8. ASSUME NEW k \in 1 .. n - 1 PROVE (a \o b)[k] = Without(s, m)[k]
  <2>1. Without(s, m)[k] = IF k < m THEN s[k] ELSE s[k + 1]  BY DEF Without, n
  <2>2. CASE k < m
    <3>1. k \in 1 .. m - 1 /\ k <= m - 1  BY <1>1, <2>2
    <3> QED BY <1>5, <1>7, <2>1, <2>2, <3>1
  <2>3. CASE ~(k < m)
    <3>1. k - (m - 1) \in 1 .. n - m /\ ~(k <= m - 1) /\ m + (k - (m - 1)) = k + 1
      BY <1>1, <2>3
    <3> QED BY <1>6, <1>7, <2>1, <2>3, <3>1
  <2> QED BY <2>2, <2>3
<1>9. a \o b = Without(s, m)
  BY <1>4, <1>7, <1>8, SeqEqual
<1> QED BY <1>4, <1>9 DEF a, b, n

\* The table and the tail without the m-th record.
Removed(L, s, m) == [j \in Slots |->
  IF j = s[m] THEN Empty
  ELSE IF m # 1 /\ j = s[m - 1] THEN [L[j] EXCEPT !.NextIndex = L[s[m]].NextIndex]
  ELSE L[j]]

TailWithout(e, s, m) == IF s[m] # e THEN e ELSE IF m = 1 THEN INVALID_INDEX ELSE s[m - 1]

\* GetEventRecord: the m-th record goes, from wherever it is.
LEMMA ChainRemove ==
  ASSUME NEW L \in Tables, NEW h, NEW e, NEW s \in Seq(Slots), Chain(L, h, e, s),
         NEW m \in 1 .. Len(s)
  PROVE  /\ Chain(Removed(L, s, m), IF m = 1 THEN L[s[m]].NextIndex ELSE h,
                  TailWithout(e, s, m), Without(s, m))
         /\ \A k \in 1 .. Len(s) : k # m => Removed(L, s, m)[s[k]].Code = L[s[k]].Code
<1> DEFINE n == Len(s)
           i == s[m]
           M == Removed(L, s, m)
           f == TailWithout(e, s, m)
           r == Without(s, m)
<1>0. /\ M = [j \in Slots |->
                IF j = i THEN Empty
                ELSE IF m # 1 /\ j = s[m - 1] THEN [L[j] EXCEPT !.NextIndex = L[i].NextIndex]
                ELSE L[j]]
      /\ f = IF i # e THEN e ELSE IF m = 1 THEN INVALID_INDEX ELSE s[m - 1]
      /\ r \in Seq(Slots) /\ Len(r) = Len(s) - 1
      /\ \A k \in 1 .. Len(s) - 1 : r[k] = IF k < m THEN s[k] ELSE s[k + 1]
      /\ i = s[m]
  BY WithoutIs DEF Removed, TailWithout, Without
<1> HIDE DEF i, M, f, r
<1>1. /\ n \in Nat \ {0} /\ m \in 1 .. n /\ \A k \in 1 .. n : s[k] \in Slots
      /\ \A j \in Slots : j # INVALID_INDEX
      /\ \A k, l \in 1 .. n : s[k] = s[l] => k = l
      /\ \A k \in 1 .. n : L[s[k]].NextIndex = IF k = n THEN INVALID_INDEX ELSE s[k + 1]
      /\ h = s[1] /\ e = s[n] /\ 1 \in 1 .. n /\ n \in 1 .. n
      /\ \A j \in Slots : Used(L, j) <=> \E k \in 1 .. n : s[k] = j
  <2>1. n \in Nat /\ m \in 1 .. n /\ \A k \in 1 .. n : s[k] \in Slots  OBVIOUS
  <2>2. n \in Nat \ {0} /\ 1 \in 1 .. n /\ n \in 1 .. n  BY <2>1
  <2>3. \A j \in Slots : j # INVALID_INDEX  BY EventsAssumption DEF Slots, INVALID_INDEX
  <2> QED BY <1>0, <2>1, <2>2, <2>3 DEF Chain
<1>2. /\ Len(r) = n - 1
      /\ \A k \in 1 .. n - 1 : k < m => r[k] = s[k]
      /\ \A k \in 1 .. n - 1 : ~(k < m) => r[k] = s[k + 1]
  BY <1>0
<1>3. /\ \A j \in Slots : L[j] \in [Code : Codes \cup {EventIllegalIdentifier}, NextIndex : Index]
  BY DEF Tables
<1> HIDE DEF n
<1>4. \A k \in 1 .. n : k # m => s[k] # i  BY <1>0, <1>1
<1>5. /\ M[i] = Empty
      /\ \A k \in 1 .. n : k # m /\ k # m - 1 => M[s[k]] = L[s[k]]
      /\ m # 1 => M[s[m - 1]] = [L[s[m - 1]] EXCEPT !.NextIndex = L[i].NextIndex]
  <2>1. m # 1 => m - 1 \in 1 .. n /\ m - 1 # m  BY <1>1
  <2>2. \A k \in 1 .. n : m # 1 /\ k # m - 1 => s[k] # s[m - 1]  BY <1>1, <2>1
  <2> QED BY <1>0, <1>1, <1>4, <2>1, <2>2
<1>6. \A k \in 1 .. n : k # m => M[s[k]].Code = L[s[k]].Code
  <2> SUFFICES ASSUME NEW k \in 1 .. n, k # m PROVE M[s[k]].Code = L[s[k]].Code
    OBVIOUS
  <2>1. CASE k = m - 1
    <3>1. m # 1 /\ s[k] \in Slots  BY <1>1, <2>1
    <3> QED BY <1>3, <1>5, <2>1, <3>1
  <2>2. CASE k # m - 1  BY <1>5, <2>2
  <2> QED BY <2>1, <2>2
<1>7. \A k \in 1 .. n - 1 : k \in 1 .. n /\ k + 1 \in 1 .. n  BY <1>1
<1>8. \A k, l \in 1 .. n - 1 : r[k] = r[l] => k = l
  <2> SUFFICES ASSUME NEW k \in 1 .. n - 1, NEW l \in 1 .. n - 1, r[k] = r[l] PROVE k = l
    OBVIOUS
  <2>1. CASE k < m /\ l < m  BY <1>1, <1>2, <1>7, <2>1
  <2>2. CASE k < m /\ ~(l < m)
    <3>1. k = l + 1  BY <1>1, <1>2, <1>7, <2>2
    <3> QED BY <1>1, <2>2, <3>1
  <2>3. CASE ~(k < m) /\ l < m
    <3>1. k + 1 = l  BY <1>1, <1>2, <1>7, <2>3
    <3> QED BY <1>1, <2>3, <3>1
  <2>4. CASE ~(k < m) /\ ~(l < m)
    <3>1. k + 1 = l + 1  BY <1>1, <1>2, <1>7, <2>4
    <3> QED BY <1>1, <3>1
  <2> QED BY <2>1, <2>2, <2>3, <2>4
<1>9. \A j \in Slots : (\E k \in 1 .. n - 1 : r[k] = j) <=> \E k \in 1 .. n : k # m /\ s[k] = j
  <2> SUFFICES ASSUME NEW j \in Slots
               PROVE  (\E k \in 1 .. n - 1 : r[k] = j) <=> \E k \in 1 .. n : k # m /\ s[k] = j
    OBVIOUS
  <2>1. ASSUME NEW k \in 1 .. n - 1, r[k] = j PROVE \E l \in 1 .. n : l # m /\ s[l] = j
    <3>1. CASE k < m
      <4>1. k # m  BY <1>1, <3>1
      <4> QED BY <1>2, <1>7, <2>1, <3>1, <4>1
    <3>2. CASE ~(k < m)
      <4>1. k + 1 # m  BY <1>1, <3>2
      <4> QED BY <1>2, <1>7, <2>1, <3>2, <4>1
    <3> QED BY <3>1, <3>2
  <2>2. ASSUME NEW k \in 1 .. n, k # m, s[k] = j PROVE \E l \in 1 .. n - 1 : r[l] = j
    <3>1. CASE k < m
      <4>1. k \in 1 .. n - 1  BY <1>1, <3>1
      <4> QED BY <1>2, <2>2, <3>1, <4>1
    <3>2. CASE m < k
      <4>1. k - 1 \in 1 .. n - 1 /\ ~(k - 1 < m) /\ k - 1 + 1 = k  BY <1>1, <3>2
      <4> QED BY <1>2, <2>2, <4>1
    <3> QED BY <1>1, <2>2, <3>1, <3>2
  <2> QED BY <2>1, <2>2
<1>10. \A j \in Slots : Used(M, j) <=> \E k \in 1 .. n : k # m /\ s[k] = j
  <2> SUFFICES ASSUME NEW j \in Slots
               PROVE  Used(M, j) <=> \E k \in 1 .. n : k # m /\ s[k] = j
    OBVIOUS
  <2>1. CASE j = i
    <3>1. ~Used(M, j)  BY <1>5, <2>1 DEF Used, Empty
    <3> QED BY <1>4, <2>1, <3>1
  <2>2. CASE j # i
    <3>1. M[j].Code = L[j].Code
      <4>1. CASE m # 1 /\ j = s[m - 1]  BY <1>0, <1>3, <2>2, <4>1
      <4>2. CASE ~(m # 1 /\ j = s[m - 1])  BY <1>0, <2>2, <4>2
      <4> QED BY <4>1, <4>2
    <3>2. \A k \in 1 .. n : s[k] = j => k # m  BY <1>0, <2>2
    <3>3. Used(M, j) <=> Used(L, j)  BY <3>1 DEF Used
    <3> HIDE DEF Used
    <3> QED BY <1>1, <3>2, <3>3
  <2> QED BY <2>1, <2>2
<1>11. \A k \in 1 .. n - 1 :
         M[r[k]].NextIndex = IF k = n - 1 THEN INVALID_INDEX ELSE r[k + 1]
  <2> SUFFICES ASSUME NEW k \in 1 .. n - 1
               PROVE  M[r[k]].NextIndex = IF k = n - 1 THEN INVALID_INDEX ELSE r[k + 1]
    OBVIOUS
  <2>0. k \in Nat /\ m \in Nat /\ n \in Nat  BY <1>1
  <2>1. CASE k < m - 1
    <3>1. /\ k \in 1 .. n /\ k # m /\ k # m - 1 /\ k < m /\ k # n /\ k + 1 < m
          /\ k # n - 1 /\ k + 1 \in 1 .. n - 1
      BY <1>1, <2>0, <2>1
    <3>2. r[k] = s[k] /\ r[k + 1] = s[k + 1]  BY <1>2, <3>1
    <3>3. M[s[k]] = L[s[k]]  BY <1>5, <3>1
    <3>4. L[s[k]].NextIndex = s[k + 1]  BY <1>1, <3>1
    <3> QED BY <3>1, <3>2, <3>3, <3>4
  <2>2. CASE k = m - 1
    <3>1. /\ k < m /\ m # 1 /\ m - 1 \in 1 .. n /\ m \in 1 .. n
      BY <1>1, <2>0, <2>2
    <3>2. r[k] = s[m - 1] /\ s[m - 1] \in Slots  BY <1>1, <1>2, <2>2, <3>1
    <3>3. M[r[k]].NextIndex = L[i].NextIndex  BY <1>3, <1>5, <3>1, <3>2
    <3>4. L[i].NextIndex = IF m = n THEN INVALID_INDEX ELSE s[m + 1]  BY <1>0, <1>1
    <3>5. CASE m = n  BY <2>0, <2>2, <3>3, <3>4, <3>5
    <3>6. CASE m # n
      <4>1. m \in 1 .. n - 1 /\ k + 1 = m /\ ~(m < m) /\ k # n - 1  BY <1>1, <2>0, <2>2, <3>6
      <4>2. r[k + 1] = s[m + 1]  BY <1>2, <4>1
      <4> QED BY <3>3, <3>4, <3>6, <4>1, <4>2
    <3> QED BY <3>5, <3>6
  <2>3. CASE ~(k < m)
    <3>1. k + 1 \in 1 .. n /\ k + 1 # m /\ k + 1 # m - 1  BY <1>1, <2>0, <2>3
    <3>2. r[k] = s[k + 1] /\ M[r[k]] = L[s[k + 1]]  BY <1>2, <1>5, <2>3, <3>1
    <3>3. L[s[k + 1]].NextIndex = IF k + 1 = n THEN INVALID_INDEX ELSE s[k + 1 + 1]
      BY <1>1, <3>1
    <3>0. k + 1 = n <=> k = n - 1
      <4>1. \A x, y \in Int : x + 1 = y <=> x = y - 1  OBVIOUS
      <4>2. k \in Int /\ n \in Int  BY <2>0
      <4> QED BY <4>1, <4>2, Zenon
    <3>4. CASE k = n - 1  BY <3>0, <3>2, <3>3, <3>4
    <3>5. CASE k # n - 1
      <4>1. k + 1 \in 1 .. n - 1 /\ ~(k + 1 < m) /\ k + 1 # n
        <5>1. k \in 1 .. n - 1  OBVIOUS
        <5> QED BY <2>0, <2>3, <3>0, <3>5, <5>1
      <4>2. r[k + 1] = s[k + 1 + 1]  BY <1>2, <4>1
      <4> QED BY <3>2, <3>3, <3>5, <4>1, <4>2
    <3> QED BY <3>4, <3>5
  <2> QED BY <2>0, <2>1, <2>2, <2>3
<1>12. (IF m = 1 THEN L[i].NextIndex ELSE h) = IF n - 1 = 0 THEN INVALID_INDEX ELSE r[1]
  <2>1. CASE n = 1
    <3>1. m = 1 /\ m = n  BY <1>1, <2>1
    <3> QED BY <1>0, <1>1, <2>1, <3>1
  <2>2. CASE n # 1 /\ m = 1
    <3>1. 1 \in 1 .. n - 1 /\ ~(1 < m) /\ m # n /\ n - 1 # 0  BY <1>1, <2>2
    <3> QED BY <1>0, <1>1, <1>2, <2>2, <3>1
  <2>3. CASE n # 1 /\ m # 1
    <3>1. 1 \in 1 .. n - 1 /\ 1 < m /\ n - 1 # 0  BY <1>1, <2>3
    <3> QED BY <1>1, <1>2, <2>3, <3>1
  <2> QED BY <2>1, <2>2, <2>3
<1>13. f = IF n - 1 = 0 THEN INVALID_INDEX ELSE r[n - 1]
  <2>0. i # e <=> m # n  BY <1>0, <1>1
  <2>1. CASE n = 1
    <3>1. m = 1 /\ m = n  BY <1>1, <2>1
    <3> QED BY <1>0, <2>0, <2>1, <3>1
  <2>2. CASE n # 1 /\ m = n
    <3>1. n - 1 \in 1 .. n - 1 /\ n - 1 < m /\ m # 1 /\ n - 1 # 0  BY <1>1, <2>2
    <3> QED BY <1>0, <1>2, <2>0, <2>2, <3>1
  <2>3. CASE n # 1 /\ m # n
    <3>1. n - 1 \in 1 .. n - 1 /\ ~(n - 1 < m) /\ n - 1 # 0 /\ n - 1 + 1 = n
      BY <1>1, <2>3
    <3> QED BY <1>0, <1>1, <1>2, <2>0, <2>3, <3>1
  <2> QED BY <2>1, <2>2, <2>3
<1>14. Chain(M, IF m = 1 THEN L[i].NextIndex ELSE h, f, r)
  <2>1. Len(r) = n - 1  BY <1>2
  <2>2. \A k, l \in 1 .. Len(r) : r[k] = r[l] => k = l  BY <1>8, <2>1
  <2>3. \A j \in Slots : Used(M, j) <=> \E k \in 1 .. Len(r) : r[k] = j  BY <1>9, <1>10, <2>1
  <2>4. \A k \in 1 .. Len(r) :
          M[r[k]].NextIndex = IF k = Len(r) THEN INVALID_INDEX ELSE r[k + 1]
    BY <1>11, <2>1
  <2>5. (IF m = 1 THEN L[i].NextIndex ELSE h) = IF Len(r) = 0 THEN INVALID_INDEX ELSE r[1]
    BY <1>12, <2>1
  <2>6. f = IF Len(r) = 0 THEN INVALID_INDEX ELSE r[Len(r)]
    BY <1>13, <2>1
  <2> QED BY <2>2, <2>3, <2>4, <2>5, <2>6 DEF Chain
<1> QED BY <1>6, <1>14 DEF n, i, M, f, r

---------------------------------------------------------------------------
(* The steps that change the list.                                         *)

\* SignalInsert finds room and appends the record.
LEMMA ListInsert ==
  ASSUME TypeOK, LocalsOK, NEW t \in Signallers, SignalInsert(t),
         NEW s \in Seq(Slots), Chained(s)
  PROVE  \E i \in Slots :
           /\ Append(s, i) \in Seq(Slots) /\ Chained(Append(s, i))' /\ Len(s) < MaxEvents
           /\ \A k \in 1 .. Len(s) : EventList'[s[k]].Code = EventList[s[k]].Code
           /\ EventList'[i].Code = rec[t]
<1>1. PICK i \in FreeSlots :
        /\ EventList' = [j \in Slots |->
             IF j = i THEN [Code |-> rec[t], NextIndex |-> INVALID_INDEX]
             ELSE IF j = EventListTail THEN [EventList[j] EXCEPT !.NextIndex = i]
             ELSE EventList[j]]
        /\ EventListHead' = IF EventListTail = INVALID_INDEX THEN i ELSE EventListHead
        /\ EventListTail' = i
  BY DEF SignalInsert
<1>2. rec[t] \in Codes  BY DEF SignalInsert, LocalsOK
<1>3. i \in Slots /\ ~Used(EventList, i)  BY DEF FreeSlots, Used
<1>4. EventList \in Tables  BY DEF TypeOK, Tables
<1>5. Chain(EventList, EventListHead, EventListTail, s)  BY DEF Chained
<1>6. /\ Append(s, i) \in Seq(Slots)
      /\ Chain(EventList', EventListHead', EventListTail', Append(s, i))
      /\ \A k \in 1 .. Len(s) : EventList'[s[k]].Code = EventList[s[k]].Code
      /\ EventList'[i].Code = rec[t]
  <2> DEFINE M == EventList'
  <2> HIDE DEF M
  <2>1. /\ Append(s, i) \in Seq(Slots)
        /\ Chain(M, IF EventListTail = INVALID_INDEX THEN i ELSE EventListHead, i, Append(s, i))
        /\ \A k \in 1 .. Len(s) : M[s[k]].Code = EventList[s[k]].Code
        /\ M[i].Code = rec[t]
    BY <1>1, <1>2, <1>3, <1>4, <1>5, ChainAppend DEF M
  <2> QED BY <1>1, <2>1 DEF M
<1>7. Len(s) < MaxEvents
  <2>1. Len(s) \in 0 .. MaxEvents /\ Len(s) # MaxEvents  BY <1>3, <1>5, ChainLength
  <2> QED BY <2>1, EventsAssumption
<1> QED BY <1>3, <1>6, <1>7 DEF Chained

\* SignalDiscard finds none, and takes off the head.
LEMMA ListDiscard ==
  ASSUME TypeOK, NEW t \in Signallers, SignalDiscard(t),
         NEW s \in Seq(Slots), Chained(s)
  PROVE  /\ Len(s) = MaxEvents /\ EventListHead \in Slots /\ EventListHead = s[1]
         /\ Tail(s) \in Seq(Slots) /\ Chained(Tail(s))'
         /\ \A k \in 2 .. Len(s) : EventList'[s[k]].Code = EventList[s[k]].Code
<1>1. /\ EventList' = [EventList EXCEPT ![EventListHead].Code = EventIllegalIdentifier]
      /\ EventListHead' = EventList[EventListHead].NextIndex
      /\ EventListTail' = EventListTail /\ FreeSlots = {}
  BY DEF SignalDiscard
<1>2. EventList \in Tables  BY DEF TypeOK, Tables
<1>3. Chain(EventList, EventListHead, EventListTail, s)  BY DEF Chained
<1>4. Len(s) = MaxEvents /\ Len(s) > 1
  <2>1. \A i \in Slots : Used(EventList, i)  BY <1>1 DEF FreeSlots, Used
  <2>2. Len(s) = MaxEvents  BY <1>3, <2>1, ChainLength
  <2> QED BY <2>2, EventsAssumption
<1>5. /\ Tail(s) \in Seq(Slots) /\ EventListHead \in Slots /\ EventListHead = s[1]
      /\ Chain(EventList', EventListHead', EventListTail', Tail(s))
      /\ \A k \in 2 .. Len(s) : EventList'[s[k]].Code = EventList[s[k]].Code
  <2>1. EventList' = WithoutHead(EventList, EventListHead)  BY <1>1 DEF WithoutHead
  <2>2. /\ Tail(s) \in Seq(Slots) /\ EventListHead \in Slots /\ EventListHead = s[1]
        /\ Chain(WithoutHead(EventList, EventListHead), EventList[EventListHead].NextIndex,
                 EventListTail, Tail(s))
        /\ \A k \in 2 .. Len(s) :
             WithoutHead(EventList, EventListHead)[s[k]].Code = EventList[s[k]].Code
    BY <1>2, <1>3, <1>4, ChainTail
  <2> QED BY <1>1, <2>1, <2>2
<1> QED BY <1>4, <1>5 DEF Chained

\* GetTake finds the oldest record that meets the criteria, and removes it.
LEMMA ListTake ==
  ASSUME TypeOK, NEW t \in Callers, GetTake(t), NEW s \in Seq(Slots), Chained(s)
  PROVE  \E m \in 1 .. Len(s) :
           /\ EventList[s[m]].Code \in Criteria[t]
           /\ \A j \in 1 .. Len(s) : EventList[s[j]].Code \in Criteria[t] => m <= j
           /\ got' = [got EXCEPT ![t] = EventList[s[m]].Code]
           /\ Without(s, m) \in Seq(Slots) /\ Chained(Without(s, m))'
           /\ EventList' = Removed(EventList, s, m)
           /\ \A k \in 1 .. Len(s) : k # m => EventList'[s[k]].Code = EventList[s[k]].Code
<1> DEFINE new == [k \in 1 .. MaxEvents |-> Walk[k - 1]]
           n == Len(s)
<1>1. PICK k \in Matches(t) :
        /\ \A j \in Matches(t) : k <= j
        /\ EventList' = [j \in Slots |->
             IF j = Walk[k] THEN Empty
             ELSE IF k # 0 /\ j = Walk[k - 1]
             THEN [EventList[j] EXCEPT !.NextIndex = EventList[Walk[k]].NextIndex]
             ELSE EventList[j]]
        /\ EventListHead' = IF k = 0 THEN EventList[Walk[k]].NextIndex ELSE EventListHead
        /\ EventListTail' = IF Walk[k] # EventListTail THEN EventListTail
                            ELSE IF k = 0 THEN INVALID_INDEX ELSE new[k]
        /\ got' = [got EXCEPT ![t] = EventList[Walk[k]].Code]
  BY DEF GetTake, GetTakeTail
<1>2. /\ Linked = 0 .. n - 1 /\ n \in Nat /\ n <= MaxEvents /\ MaxEvents \in Nat
      /\ \A j \in Linked : Walk[j] = s[j + 1] /\ j + 1 \in 1 .. n
  BY LinkedIs, ChainLength, EventsAssumption DEF Chained, WalkFacts
<1>3. k \in Linked /\ EventList[Walk[k]].Code \in Criteria[t]  BY DEF Matches
<1>4. k \in Nat /\ k < n  BY <1>2, <1>3
<1> DEFINE m == k + 1
<1>5. m \in 1 .. n /\ Walk[k] = s[m] /\ (k = 0 <=> m = 1)  BY <1>2, <1>3, <1>4
<1>6. k # 0 => Walk[k - 1] = s[m - 1] /\ new[k] = s[m - 1]
  <2>1. k # 0 => k - 1 \in Linked /\ k - 1 + 1 = m - 1 /\ k \in 1 .. MaxEvents
    BY <1>2, <1>4
  <2> QED BY <1>2, <2>1
<1> HIDE DEF new, m
<1>7. \A j \in 1 .. n : EventList[s[j]].Code \in Criteria[t] => m <= j
  <2> SUFFICES ASSUME NEW j \in 1 .. n, EventList[s[j]].Code \in Criteria[t] PROVE m <= j
    OBVIOUS
  <2>1. j - 1 \in Linked /\ j - 1 + 1 = j  BY <1>2
  <2>2. j - 1 \in Matches(t)  BY <1>2, <2>1 DEF Matches
  <2>3. k <= j - 1  BY <1>1, <2>2
  <2> QED BY <1>4, <2>3 DEF m
<1>8. /\ EventList \in Tables /\ Chain(EventList, EventListHead, EventListTail, s)
  BY DEF TypeOK, Tables, Chained
<1>9. EventList' = Removed(EventList, s, m)
  BY <1>1, <1>5, <1>6 DEF Removed
<1>10. EventListHead' = IF m = 1 THEN EventList[s[m]].NextIndex ELSE EventListHead
  BY <1>1, <1>5
<1>11. EventListTail' = TailWithout(EventListTail, s, m)
  BY <1>1, <1>5, <1>6 DEF TailWithout
<1>12. /\ Chain(Removed(EventList, s, m),
               IF m = 1 THEN EventList[s[m]].NextIndex ELSE EventListHead,
               TailWithout(EventListTail, s, m), Without(s, m))
       /\ \A j \in 1 .. n : j # m => Removed(EventList, s, m)[s[j]].Code = EventList[s[j]].Code
  BY <1>5, <1>8, ChainRemove
<1>13. \A j \in 1 .. n : j # m => EventList'[s[j]].Code = EventList[s[j]].Code
  BY <1>9, <1>12
<1>14. Chained(Without(s, m))'
  BY <1>9, <1>10, <1>11, <1>12 DEF Chained
<1>15. Without(s, m) \in Seq(Slots)  BY <1>5, WithoutIs
<1> QED BY <1>1, <1>3, <1>5, <1>7, <1>9, <1>13, <1>14, <1>15

---------------------------------------------------------------------------
(* The invariant of the table.                                             *)

\* The ends of the list are slots of the table, or no index.
LEMMA ChainEnds ==
  ASSUME NEW L, NEW h, NEW e, NEW s \in Seq(Slots), Chain(L, h, e, s)
  PROVE  h \in Index /\ e \in Index
<1>1. Len(s) \in Nat /\ \A k \in 1 .. Len(s) : s[k] \in Slots  OBVIOUS
<1>2. Len(s) # 0 => 1 \in 1 .. Len(s) /\ Len(s) \in 1 .. Len(s)  BY <1>1
<1> QED BY <1>1, <1>2 DEF Chain, Index

\* The table without a record is a table.
LEMMA RemovedIn ==
  ASSUME NEW L \in Tables, NEW s \in Seq(Slots), NEW m \in 1 .. Len(s)
  PROVE  Removed(L, s, m) \in Tables
<1>1. s[m] \in Slots  OBVIOUS
<1>2. L[s[m]].NextIndex \in Index  BY <1>1 DEF Tables
<1>3. ASSUME NEW j \in Slots
      PROVE  Removed(L, s, m)[j] \in [Code : Codes \cup {EventIllegalIdentifier}, NextIndex : Index]
  <2>1. L[j] \in [Code : Codes \cup {EventIllegalIdentifier}, NextIndex : Index]  BY DEF Tables
  <2>2. [L[j] EXCEPT !.NextIndex = L[s[m]].NextIndex]
          \in [Code : Codes \cup {EventIllegalIdentifier}, NextIndex : Index]
    BY <1>2, <2>1
  <2>3. Empty \in [Code : Codes \cup {EventIllegalIdentifier}, NextIndex : Index]
    BY DEF Empty, Index
  <2> QED BY <2>1, <2>2, <2>3 DEF Removed
<1> QED BY <1>3 DEF Removed, Tables

\* A step of a thread that leaves the list alone.
LEMMA ListStays ==
  ASSUME ListOK, UNCHANGED list
  PROVE  ListOK'
BY DEF ListOK, Chained, list

\* SignalInsert, SignalDiscard and GetTake keep the list and the table well formed.
LEMMA ListMoves ==
  ASSUME EventsInv,
         \/ \E t \in Signallers : SignalInsert(t) \/ SignalDiscard(t)
         \/ \E t \in Callers : GetTake(t)
  PROVE  ListOK' /\ EventList' \in Tables /\ EventListHead' \in Index /\ EventListTail' \in Index
<1>1. PICK s \in Seq(Slots) : Chained(s)  BY DEF EventsInv, ListOK
<1>2. TypeOK /\ LocalsOK /\ EventList \in Tables  BY DEF EventsInv, TypeOK, Tables
<1>3. ASSUME NEW r \in Seq(Slots), Chained(r)'
      PROVE  ListOK' /\ EventListHead' \in Index /\ EventListTail' \in Index
  BY <1>3, ChainEnds DEF Chained, ListOK
<1>4. ASSUME NEW t \in Signallers, SignalInsert(t)
      PROVE  ListOK' /\ EventList' \in Tables /\ EventListHead' \in Index /\ EventListTail' \in Index
  <2>1. PICK i \in Slots : Append(s, i) \in Seq(Slots) /\ Chained(Append(s, i))'
    BY <1>1, <1>2, <1>4, ListInsert
  <2>2. EventList' \in Tables
    <3>1. PICK j \in Slots :
            EventList' = [k \in Slots |->
               IF k = j THEN [Code |-> rec[t], NextIndex |-> INVALID_INDEX]
               ELSE IF k = EventListTail THEN [EventList[k] EXCEPT !.NextIndex = j]
               ELSE EventList[k]]
      BY <1>4 DEF SignalInsert, FreeSlots
    <3>2. rec[t] \in Codes /\ j \in Index  BY <1>2, <1>4 DEF SignalInsert, LocalsOK, Index
    <3>3. ASSUME NEW k \in Slots
          PROVE  /\ EventList[k] \in [Code : Codes \cup {EventIllegalIdentifier}, NextIndex : Index]
                 /\ [EventList[k] EXCEPT !.NextIndex = j]
                      \in [Code : Codes \cup {EventIllegalIdentifier}, NextIndex : Index]
                 /\ [Code |-> rec[t], NextIndex |-> INVALID_INDEX]
                      \in [Code : Codes \cup {EventIllegalIdentifier}, NextIndex : Index]
      BY <1>2, <3>2 DEF Tables, Index
    <3> QED BY <3>1, <3>3 DEF Tables
  <2> QED BY <1>3, <2>1, <2>2
<1>5. ASSUME NEW t \in Signallers, SignalDiscard(t)
      PROVE  ListOK' /\ EventList' \in Tables /\ EventListHead' \in Index /\ EventListTail' \in Index
  <2>1. Tail(s) \in Seq(Slots) /\ Chained(Tail(s))'  BY <1>1, <1>2, <1>5, ListDiscard
  <2>2. EventList' \in Tables  BY <1>2, <1>5 DEF SignalDiscard, Tables
  <2> QED BY <1>3, <2>1, <2>2
<1>6. ASSUME NEW t \in Callers, GetTake(t)
      PROVE  ListOK' /\ EventList' \in Tables /\ EventListHead' \in Index /\ EventListTail' \in Index
  <2>1. PICK m \in 1 .. Len(s) :
          /\ Without(s, m) \in Seq(Slots) /\ Chained(Without(s, m))'
          /\ EventList' = Removed(EventList, s, m)
    BY <1>1, <1>2, <1>6, ListTake
  <2>2. EventList' \in Tables  BY <1>2, <2>1, RemovedIn
  <2> QED BY <1>3, <2>1, <2>2
<1> QED BY <1>4, <1>5, <1>6

\* Every step keeps the types, the locals and the list: one case per action.
LEMMA EventsStep == EventsInv /\ [Next]_vars => EventsInv'
<1> SUFFICES ASSUME EventsInv, [Next]_vars PROVE EventsInv'  OBVIOUS
<1> USE DEF EventsInv
<1>0. /\ Callers \subseteq Threads /\ Signallers \subseteq Threads /\ Watchers \subseteq Callers
      /\ \A t \in Signallers : t \notin Callers /\ t # Nothing
      /\ MaxSignals \in Nat /\ INVALID_INDEX \in Int /\ INVALID_INDEX \in Index
      /\ Slots \subseteq Int /\ Index \subseteq Int /\ Signals \subseteq Int
      /\ Tables = [Slots -> [Code : Codes \cup {EventIllegalIdentifier}, NextIndex : Index]]
  BY EventsAssumption DEF Threads, Callers, INVALID_INDEX, Index, Slots, Signals, Tables
<1>1. ASSUME NEW t \in Signallers, NEW code \in Codes, SignalEvent(t, code) PROVE EventsInv'
  <2>1. TypeOK'  BY <1>0, <1>1 DEF SignalEvent, TypeOK, list
  <2>2. LocalsOK'  BY <1>0, <1>1 DEF SignalEvent, TypeOK, LocalsOK
  <2> QED BY <1>1, <2>1, <2>2, ListStays DEF SignalEvent
<1>2. ASSUME NEW t \in Signallers, SignalInsert(t) PROVE EventsInv'
  <2>1. TypeOK'
    <3>1. EventList' \in Tables /\ EventListHead' \in Index /\ EventListTail' \in Index
      BY <1>2, ListMoves
    <3> QED BY <1>0, <1>2, <3>1 DEF SignalInsert, TypeOK
  <2>2. LocalsOK'  BY <1>0, <1>2 DEF SignalInsert, TypeOK, LocalsOK
  <2> QED BY <1>2, <2>1, <2>2, ListMoves
<1>3. ASSUME NEW t \in Signallers, SignalDiscard(t) PROVE EventsInv'
  <2>1. TypeOK'
    <3>1. EventList' \in Tables /\ EventListHead' \in Index /\ EventListTail' \in Index
      BY <1>3, ListMoves
    <3> QED BY <1>0, <1>3, <3>1 DEF SignalDiscard, TypeOK
  <2>2. LocalsOK'  BY <1>3 DEF SignalDiscard, LocalsOK
  <2> QED BY <1>3, <2>1, <2>2, ListMoves
<1>4. ASSUME NEW t \in Signallers, SignalTest(t) PROVE EventsInv'
  <2>1. TypeOK'  BY <1>0, <1>4 DEF SignalTest, TypeOK, list
  <2>2. LocalsOK'
    BY <1>0, <1>4 DEF SignalTest, TypeOK, LocalsOK, Signals
  <2> QED BY <1>4, <2>1, <2>2, ListStays DEF SignalTest
<1>5. ASSUME NEW t \in Signallers, SignalSet(t) PROVE EventsInv'
  <2>1. TypeOK'
    <3>1. \/ Event' = Event
          \/ Event' = [Event EXCEPT ![ExternalEventSignals[at[t]]] = TRUE]
      BY <1>5 DEF SignalSet
    <3>2. Event' \in [Watchers -> BOOLEAN]  BY <3>1 DEF TypeOK
    <3>3. /\ pc' = [pc EXCEPT ![t] = "test"] /\ at' = [at EXCEPT ![t] = @ + 1]
          /\ UNCHANGED <<list, ExternalEventSignals, Lock, InternalEventSignal, rec, got>>
      BY <1>5 DEF SignalSet
    <3> QED BY <1>0, <3>2, <3>3 DEF TypeOK, list
  <2>2. LocalsOK'
    BY <1>0, <1>5 DEF SignalSet, TypeOK, LocalsOK, Signals
  <2> QED BY <1>5, <2>1, <2>2, ListStays DEF SignalSet
<1>6. ASSUME NEW t \in Signallers, SignalReturn(t) PROVE EventsInv'
  <2>1. TypeOK'  BY <1>0, <1>6 DEF SignalReturn, TypeOK, list
  <2>2. LocalsOK'  BY <1>0, <1>6 DEF SignalReturn, TypeOK, LocalsOK
  <2> QED BY <1>6, <2>1, <2>2, ListStays DEF SignalReturn
<1>7. ASSUME NEW c \in Callers, GetReset(c) PROVE EventsInv'
  <2>1. TypeOK'  BY <1>0, <1>7 DEF GetReset, TypeOK, list
  <2>2. LocalsOK'  BY <1>0, <1>7 DEF GetReset, TypeOK, LocalsOK
  <2> QED BY <1>7, <2>1, <2>2, ListStays DEF GetReset
<1>8. ASSUME NEW c \in Callers, GetTake(c) PROVE EventsInv'
  <2>1. TypeOK'
    <3>1. EventList' \in Tables /\ EventListHead' \in Index /\ EventListTail' \in Index
      BY <1>8, ListMoves
    <3>2. got' \in [Callers -> Codes \cup {Nothing}]
      <4>1. PICK s \in Seq(Slots) : Chained(s)  BY DEF ListOK
      <4>2. PICK m \in 1 .. Len(s) :
              /\ EventList[s[m]].Code \in Criteria[c]
              /\ got' = [got EXCEPT ![c] = EventList[s[m]].Code]
        BY <1>8, <4>1, ListTake
      <4>3. Criteria[c] \subseteq Codes  BY EventsAssumption
      <4> QED BY <4>2, <4>3 DEF TypeOK
    <3> QED BY <1>0, <1>8, <3>1, <3>2 DEF GetTake, GetTakeTail, TypeOK
  <2>2. LocalsOK'  BY <1>0, <1>8 DEF GetTake, GetTakeTail, TypeOK, LocalsOK
  <2> QED BY <1>8, <2>1, <2>2, ListMoves
<1>9. ASSUME NEW c \in Callers, GetNothing(c) PROVE EventsInv'
  <2>1. TypeOK'  BY <1>0, <1>9 DEF GetNothing, TypeOK, list
  <2>2. LocalsOK'  BY <1>0, <1>9 DEF GetNothing, TypeOK, LocalsOK
  <2> QED BY <1>9, <2>1, <2>2, ListStays DEF GetNothing
<1>10. ASSUME NEW c \in Callers, GetWoken(c) PROVE EventsInv'
  <2>1. TypeOK'  BY <1>0, <1>10 DEF GetWoken, TypeOK, list
  <2>2. LocalsOK'  BY <1>0, <1>10 DEF GetWoken, TypeOK, LocalsOK
  <2> QED BY <1>10, <2>1, <2>2, ListStays DEF GetWoken
<1>11. ASSUME NEW w \in Watchers, SetEventSignal(w) PROVE EventsInv'
  <2>1. TypeOK'  BY <1>0, <1>11 DEF SetEventSignal, TypeOK, list
  <2>2. LocalsOK'  BY <1>0, <1>11 DEF SetEventSignal, TypeOK, LocalsOK
  <2> QED BY <1>11, <2>1, <2>2, ListStays DEF SetEventSignal
<1>12. ASSUME NEW w \in Watchers, ClearEventSignal(w) PROVE EventsInv'
  <2>1. TypeOK'  BY <1>0, <1>12 DEF ClearEventSignal, TypeOK, list
  <2>2. LocalsOK'  BY <1>0, <1>12 DEF ClearEventSignal, TypeOK, LocalsOK
  <2> QED BY <1>12, <2>1, <2>2, ListStays DEF ClearEventSignal
<1>13. ASSUME NEW w \in Watchers, LookMatch(w) PROVE EventsInv'
  <2>1. TypeOK'  BY <1>0, <1>13 DEF LookMatch, TypeOK, list
  <2>2. LocalsOK'  BY <1>0, <1>13 DEF LookMatch, TypeOK, LocalsOK
  <2> QED BY <1>13, <2>1, <2>2, ListStays DEF LookMatch
<1>14. ASSUME NEW w \in Watchers, LookOn(w) PROVE EventsInv'
  <2>0. EventList[at[w]].NextIndex \in Index
    BY <1>14 DEF LookOn, LocalsOK, TypeOK, Index
  <2>1. TypeOK'  BY <1>0, <1>14, <2>0 DEF LookOn, TypeOK, list
  <2>2. LocalsOK'  BY <1>0, <1>14, <2>0 DEF LookOn, TypeOK, LocalsOK
  <2> QED BY <1>14, <2>1, <2>2, ListStays DEF LookOn
<1>15. ASSUME NEW w \in Watchers, LookEnd(w) PROVE EventsInv'
  <2>1. TypeOK'  BY <1>0, <1>15 DEF LookEnd, TypeOK, list
  <2>2. LocalsOK'  BY <1>0, <1>15 DEF LookEnd, TypeOK, LocalsOK
  <2> QED BY <1>15, <2>1, <2>2, ListStays DEF LookEnd
<1>16. ASSUME NEW w \in Watchers, WatchWoken(w) PROVE EventsInv'
  <2>1. TypeOK'  BY <1>0, <1>16 DEF WatchWoken, TypeOK, list
  <2>2. LocalsOK'  BY <1>0, <1>16 DEF WatchWoken, TypeOK, LocalsOK
  <2> QED BY <1>16, <2>1, <2>2, ListStays DEF WatchWoken
<1>17. CASE UNCHANGED vars
  BY <1>17, ListStays DEF vars, list, TypeOK, LocalsOK
<1> QED BY <1>0, <1>1, <1>2, <1>3, <1>4, <1>5, <1>6, <1>7, <1>8, <1>9, <1>10, <1>11, <1>12, <1>13,
           <1>14, <1>15, <1>16, <1>17
        DEF Next, SignalStep, GetStep, WatchStep, Callers

\* The invariant holds in every behaviour.
LEMMA EventsInvariant == Spec => []EventsInv
BY EventsInit, EventsStep, PTL DEF Spec

---------------------------------------------------------------------------
(* What follows of the table.                                              *)

\* Table, indices, registrations and the locals of every thread keep their types,
\* for any number of records and threads.
THEOREM TypeCorrect == Spec => []TypeOK
<1>1. EventsInv => TypeOK  BY DEF EventsInv
<1> QED BY <1>1, EventsInvariant, PTL

\* The links form one chain from head to tail through the slots in use, whoever
\* signals, overflows the table, or takes records out of its middle.
THEOREM AlwaysWellFormed == Spec => []ListWellFormed
<1>1. ASSUME EventsInv PROVE ListWellFormed
  <2>1. PICK s \in Seq(Slots) : Chained(s)  BY <1>1 DEF EventsInv, ListOK
  <2> DEFINE n == Len(s)
  <2>2. /\ n \in Nat /\ Linked = 0 .. n - 1 /\ Cardinality(Linked) = n
        /\ \A k \in Linked : Walk[k] = s[k + 1] /\ k + 1 \in 1 .. n
    BY <2>1, LinkedIs DEF WalkFacts
  <2>7. \A k \in 1 .. n : s[k] \in Slots  OBVIOUS
  <2>3. Slots \ FreeSlots = {i \in Slots : \E k \in 1 .. n : s[k] = i}
    BY <2>1 DEF Chained, Chain, Used, FreeSlots
  <2>4. {Walk[k] : k \in Linked} = Slots \ FreeSlots
    <3>1. \A k \in 1 .. n : k - 1 \in Linked /\ k - 1 + 1 = k /\ s[k] \in Slots  BY <2>2
    <3> HIDE DEF n
    <3>2. \A k \in Linked : k + 1 \in 1 .. n /\ Walk[k] = s[k + 1]  BY <2>2
    <3>4. \A k \in 1 .. n : Walk[k - 1] = s[k]  BY <3>1, <3>2
    <3>5. ASSUME NEW i \in {Walk[k] : k \in Linked} PROVE i \in Slots \ FreeSlots
      <4>1. PICK k \in Linked : i = Walk[k]  OBVIOUS
      <4>2. k + 1 \in 1 .. n /\ s[k + 1] = i /\ i \in Slots  BY <2>7, <3>2, <4>1
      <4> QED BY <2>3, <4>2
    <3>6. ASSUME NEW i \in Slots \ FreeSlots PROVE i \in {Walk[k] : k \in Linked}
      <4>1. PICK k \in 1 .. n : s[k] = i  BY <2>3
      <4> QED BY <3>1, <3>4, <4>1
    <3> QED BY <3>5, <3>6
  <2>5. Cardinality(Slots \ FreeSlots) = n
    <3>1. s \in Bijection(1 .. n, Slots \ FreeSlots)
      <4>1. s \in [1 .. n -> Slots \ FreeSlots]  BY <2>3
      <4>2. \A k, l \in 1 .. n : s[k] = s[l] => k = l  BY <2>1 DEF Chained, Chain
      <4>3. \A i \in Slots \ FreeSlots : \E k \in 1 .. n : s[k] = i  BY <2>3
      <4> QED BY <4>1, <4>2, <4>3 DEF Bijection, Injection, Surjection, IsInjective
    <3>2. ExistsBijection(1 .. n, Slots \ FreeSlots)  BY <3>1 DEF ExistsBijection
    <3> QED BY <2>2, <3>2, FS_CountingElements
  <2>6. EventListTail = IF Linked = {} THEN INVALID_INDEX ELSE Walk[n - 1]
    <3>1. EventListTail = IF n = 0 THEN INVALID_INDEX ELSE s[n]
      BY <2>1 DEF Chained, Chain
    <3> HIDE DEF n
    <3>2. n = 0 <=> Linked = {}
      <4>1. n # 0 => 0 \in 0 .. n - 1  BY <2>2
      <4>2. n = 0 => 0 .. n - 1 = {}  OBVIOUS
      <4> QED BY <2>2, <4>1, <4>2
    <3>3. n # 0 => n - 1 \in Linked /\ n - 1 + 1 = n  BY <2>2
    <3> QED BY <2>2, <3>1, <3>2, <3>3
  <2> QED BY <2>2, <2>4, <2>5, <2>6 DEF ListWellFormed
<1> QED BY <1>1, EventsInvariant, PTL

---------------------------------------------------------------------------
(* The table is the queue.                                                 *)

\* Every step of the player is a step of the queue, or leaves it alone.
LEMMA TableSimulates ==
  EventsInv /\ EventsInv' /\ [Next]_vars => [Q!Next]_<<queue, got>>
<1> SUFFICES ASSUME EventsInv, EventsInv', [Next]_vars PROVE [Q!Next]_<<queue, got>>
  OBVIOUS
<1>1. PICK s \in Seq(Slots) : Chained(s)  BY DEF EventsInv, ListOK
<1> DEFINE n == Len(s)
<1>2. n \in Nat /\ queue = [k \in 1 .. n |-> EventList[s[k]].Code]  BY <1>1, LinkedIs DEF WalkFacts
<1>3. TypeOK /\ LocalsOK  BY DEF EventsInv
<1>4. WalkFacts'  BY LinkedIs, PTL
<1>5. ASSUME NEW r \in Seq(Slots), Chained(r)'
      PROVE  queue' = [k \in 1 .. Len(r) |-> EventList'[r[k]].Code]
  BY <1>4, <1>5 DEF WalkFacts
<1>6. queue \in Seq(Codes) /\ Len(queue) = n /\ \A k \in 1 .. n : queue[k] = EventList[s[k]].Code
  <2>1. \A k \in 1 .. n : EventList[s[k]].Code \in Codes
    <3>1. \A k \in 1 .. n : s[k] \in Slots /\ Used(EventList, s[k])
      BY <1>1 DEF Chained, Chain
    <3> QED BY <1>3, <3>1 DEF TypeOK, Used
  <2> QED BY <1>2, <2>1
<1>7. ASSUME NEW t \in Signallers, SignalInsert(t) PROVE Q!Next
  <2>1. PICK i \in Slots :
          /\ Append(s, i) \in Seq(Slots) /\ Chained(Append(s, i))' /\ n < MaxEvents
          /\ \A k \in 1 .. n : EventList'[s[k]].Code = EventList[s[k]].Code
          /\ EventList'[i].Code = rec[t]
    BY <1>1, <1>3, <1>7, ListInsert
  <2>2. rec[t] \in Codes  BY <1>3, <1>7 DEF SignalInsert, LocalsOK
  <2>3. queue' = [k \in 1 .. n + 1 |-> EventList'[Append(s, i)[k]].Code]
    <3>1. Len(Append(s, i)) = n + 1  OBVIOUS
    <3> QED BY <1>5, <2>1, <3>1
  <2>4. queue' = Append(queue, rec[t])
    <3>1. /\ Append(queue, rec[t]) \in Seq(Codes) /\ Len(Append(queue, rec[t])) = n + 1
          /\ \A k \in 1 .. n + 1 :
               Append(queue, rec[t])[k] = IF k = n + 1 THEN rec[t] ELSE queue[k]
      BY <1>6, <2>2
    <3>2. \A k \in 1 .. n + 1 : Append(s, i)[k] = IF k = n + 1 THEN i ELSE s[k]  OBVIOUS
    <3>3. \A k \in 1 .. n + 1 : k # n + 1 => k \in 1 .. n  BY <1>2
    <3>4. \A k \in 1 .. n + 1 : queue'[k] = Append(queue, rec[t])[k]
      BY <1>6, <2>1, <2>3, <3>1, <3>2, <3>3
    <3>5. Append(queue, rec[t]) = [k \in 1 .. n + 1 |-> Append(queue, rec[t])[k]]
      BY <3>1
    <3> QED BY <2>3, <3>4, <3>5
  <2>5. UNCHANGED got  BY <1>7 DEF SignalInsert
  <2> QED BY <1>6, <2>1, <2>2, <2>4, <2>5 DEF Q!Next, Q!Signal
<1>8. ASSUME NEW t \in Signallers, SignalDiscard(t) PROVE Q!Next
  <2>1. /\ n = MaxEvents /\ Tail(s) \in Seq(Slots) /\ Chained(Tail(s))'
        /\ \A k \in 2 .. n : EventList'[s[k]].Code = EventList[s[k]].Code
    BY <1>1, <1>3, <1>8, ListDiscard
  <2>2. n > 1 /\ n - 1 \in Nat  BY <2>1, EventsAssumption
  <2>3. /\ Len(Tail(s)) = n - 1 /\ \A k \in 1 .. n - 1 : Tail(s)[k] = s[k + 1]
        /\ Len(Tail(queue)) = n - 1 /\ \A k \in 1 .. n - 1 : Tail(queue)[k] = queue[k + 1]
        /\ Tail(queue) \in Seq(Codes)
    BY <1>6, <2>2
  <2>4. queue' = [k \in 1 .. n - 1 |-> EventList'[Tail(s)[k]].Code]  BY <1>5, <2>1, <2>3
  <2>5. \A k \in 1 .. n - 1 : k + 1 \in 2 .. n /\ k + 1 \in 1 .. n  BY <2>2
  <2>6. \A k \in 1 .. n - 1 : queue'[k] = Tail(queue)[k]  BY <1>6, <2>1, <2>3, <2>4, <2>5
  <2>7. Tail(queue) = [k \in 1 .. n - 1 |-> Tail(queue)[k]]
    BY <2>3, LenProperties
  <2>8. queue' = Tail(queue)  BY <2>4, <2>6, <2>7
  <2>9. UNCHANGED got  BY <1>8 DEF SignalDiscard
  <2> QED BY <1>6, <2>1, <2>8, <2>9 DEF Q!Next, Q!Discard
<1>9. ASSUME NEW c \in Callers, GetTake(c) PROVE Q!Next
  <2>1. PICK m \in 1 .. n :
          /\ EventList[s[m]].Code \in Criteria[c]
          /\ \A j \in 1 .. n : EventList[s[j]].Code \in Criteria[c] => m <= j
          /\ got' = [got EXCEPT ![c] = EventList[s[m]].Code]
          /\ Without(s, m) \in Seq(Slots) /\ Chained(Without(s, m))'
          /\ \A k \in 1 .. n : k # m => EventList'[s[k]].Code = EventList[s[k]].Code
    BY <1>1, <1>3, <1>9, ListTake
  <2>2. /\ Without(s, m) = [k \in 1 .. n - 1 |-> IF k < m THEN s[k] ELSE s[k + 1]]
        /\ Len(Without(s, m)) = n - 1
        /\ Without(queue, m) = [k \in 1 .. n - 1 |-> IF k < m THEN queue[k] ELSE queue[k + 1]]
        /\ SubSeq(queue, 1, m - 1) \o SubSeq(queue, m + 1, Len(queue)) = Without(queue, m)
    <3>1. /\ Without(s, m) = [k \in 1 .. n - 1 |-> IF k < m THEN s[k] ELSE s[k + 1]]
          /\ Len(Without(s, m)) = n - 1
      BY WithoutIs DEF Without
    <3>2. m \in 1 .. Len(queue)  BY <1>6
    <3>3. /\ Without(queue, m) = [k \in 1 .. n - 1 |-> IF k < m THEN queue[k] ELSE queue[k + 1]]
          /\ SubSeq(queue, 1, m - 1) \o SubSeq(queue, m + 1, Len(queue)) = Without(queue, m)
      BY <1>6, <3>2, WithoutIs DEF Without
    <3> QED BY <3>1, <3>3
  <2>3. queue' = [k \in 1 .. n - 1 |-> EventList'[Without(s, m)[k]].Code]
    BY <1>5, <2>1, <2>2
  <2>4. ASSUME NEW k \in 1 .. n - 1
        PROVE  EventList'[Without(s, m)[k]].Code = IF k < m THEN queue[k] ELSE queue[k + 1]
    <3>1. k \in 1 .. n /\ k + 1 \in 1 .. n  BY <1>2
    <3>2. CASE k < m
      <4>1. k # m /\ Without(s, m)[k] = s[k]  BY <1>2, <2>2, <3>2
      <4> QED BY <1>6, <2>1, <3>1, <3>2, <4>1
    <3>3. CASE ~(k < m)
      <4>1. k + 1 # m /\ Without(s, m)[k] = s[k + 1]  BY <1>2, <2>2, <3>3
      <4> QED BY <1>6, <2>1, <3>1, <3>3, <4>1
    <3> QED BY <3>2, <3>3
  <2>5. queue' = Without(queue, m)  BY <2>2, <2>3, <2>4
  <2>6. Q!Matching(c) = {k \in 1 .. n : EventList[s[k]].Code \in Criteria[c]}
    BY <1>6 DEF Q!Matching
  <2>7. Q!Collect(c)
    BY <1>6, <2>1, <2>2, <2>5, <2>6 DEF Q!Collect
  <2> QED BY <2>7 DEF Q!Next
<1>10. ASSUME UNCHANGED list PROVE queue' = queue
  <2>1. Chained(s)'  BY <1>1, <1>10 DEF Chained, list
  <2>2. queue' = [k \in 1 .. n |-> EventList'[s[k]].Code]  BY <1>5, <2>1
  <2> QED BY <1>2, <1>10, <2>2 DEF list
<1>11. ASSUME NEW c \in Callers, GetNothing(c) PROVE Q!Next
  <2>1. queue' = queue /\ got' = [got EXCEPT ![c] = Nothing] /\ Matches(c) = {}
    BY <1>10, <1>11 DEF GetNothing
  <2>2. Q!Matching(c) = {}
    <3> SUFFICES ASSUME NEW k \in 1 .. n, queue[k] \in Criteria[c] PROVE FALSE
      BY <1>6 DEF Q!Matching
    <3>1. /\ Linked = 0 .. n - 1 /\ \A j \in Linked : Walk[j] = s[j + 1]
      BY <1>1, LinkedIs DEF WalkFacts
    <3>2. k - 1 \in Linked /\ k - 1 + 1 = k  BY <1>2, <3>1
    <3>3. EventList[Walk[k - 1]].Code \in Criteria[c]  BY <1>6, <3>1, <3>2
    <3> QED BY <2>1, <3>2, <3>3 DEF Matches
  <2> QED BY <2>1, <2>2 DEF Q!Next, Q!CollectNothing
<1>12. CASE UNCHANGED <<list, got>>  BY <1>10, <1>12
<1>13. ASSUME NEW t \in Signallers,
              \/ \E code \in Codes : SignalEvent(t, code)
              \/ SignalTest(t) \/ SignalSet(t) \/ SignalReturn(t)
       PROVE  UNCHANGED <<list, got>>
  BY <1>13 DEF SignalEvent, SignalTest, SignalSet, SignalReturn
<1>14. ASSUME NEW c, GetReset(c) \/ GetWoken(c) PROVE UNCHANGED <<list, got>>
  BY <1>14 DEF GetReset, GetWoken
<1>15. ASSUME NEW w \in Watchers,
              \/ SetEventSignal(w) \/ ClearEventSignal(w)
              \/ LookMatch(w) \/ LookOn(w) \/ LookEnd(w) \/ WatchWoken(w)
       PROVE  UNCHANGED <<list, got>>
  BY <1>15 DEF SetEventSignal, ClearEventSignal, LookMatch, LookOn, LookEnd, WatchWoken
<1>16. CASE UNCHANGED vars  BY <1>12, <1>16 DEF vars
<1> QED BY <1>7, <1>8, <1>9, <1>11, <1>12, <1>13, <1>14, <1>15, <1>16
        DEF Next, SignalStep, GetStep, WatchStep

\* The table with its links, its restarts on overflow and its removals from the
\* middle is the queue EventQueue promises.
THEOREM TableIsQueue == Spec => ImplementsQueue
<1>1. Init => Q!Init
  <2> SUFFICES ASSUME Init PROVE queue = <<>> /\ got = [c \in Callers |-> Nothing]
    BY DEF Q!Init
  <2>1. Chained(<<>>)  BY DEF Init, Chained, Chain, Used, Empty
  <2>2. queue = [k \in 1 .. Len(<<>>) |-> EventList[<<>>[k]].Code]
    BY <2>1, LinkedIs, EmptySeq DEF WalkFacts
  <2>3. queue = <<>>  BY <2>2
  <2> QED BY <2>3 DEF Init
<1> QED BY <1>1, EventsInit, EventsStep, TableSimulates, PTL DEF Spec, ImplementsQueue, Q!Spec

---------------------------------------------------------------------------
(* No watcher sleeps beside a record.                                      *)

\* The watcher of the player asks for every event (havana_player.cpp:206).
AllEvents == \A w \in Watchers : Criteria[w] = Codes

HasEntry(w) == \E i \in Signals : ExternalEventSignals[i] = w

\* When there is a record, a registered watcher has been told of it, or will be.
Told(w) ==
  HasEntry(w) /\ FreeSlots # Slots => Event[w] \/ \E t \in Signallers : WillSet(t, w)

\* From slot i a registration that goes along the links meets a record: at once,
\* or after the one slot that an overflow has freed under it.
Reaches(i) ==
  \/ Used(EventList, i)
  \/ FreeSlots = {i} /\ EventList[i].NextIndex \in Slots \ {i}

NotedAt(w) ==
  /\ pc[w] = "asleep" => Told(w)
  /\ pc[w] = "look" /\ at[w] = INVALID_INDEX => Told(w)
  /\ pc[w] = "look" /\ at[w] # INVALID_INDEX => Reaches(at[w])

NotedInv == \A w \in Watchers : NotedAt(w)

\* The head, the matches and the free slots agree on whether there is a record.
LEMMA RecordsThere ==
  ASSUME EventsInv
  PROVE  /\ EventListHead = INVALID_INDEX => FreeSlots = Slots
         /\ EventListHead # INVALID_INDEX =>
              EventListHead \in Slots /\ Used(EventList, EventListHead)
         /\ \A c : Matches(c) = {} /\ Criteria[c] = Codes => FreeSlots = Slots
         /\ \A c : Matches(c) # {} => FreeSlots # Slots
<1>1. PICK s \in Seq(Slots) : Chained(s)  BY DEF EventsInv, ListOK
<1> DEFINE n == Len(s)
<1>2. /\ n \in Nat /\ Linked = 0 .. n - 1
      /\ \A k \in Linked : Walk[k] = s[k + 1] /\ k + 1 \in 1 .. n
  BY <1>1, LinkedIs DEF WalkFacts
<1>3. /\ \A k \in 1 .. n : s[k] \in Slots /\ Used(EventList, s[k])
      /\ \A i \in Slots : Used(EventList, i) => \E k \in 1 .. n : s[k] = i
      /\ EventListHead = IF n = 0 THEN INVALID_INDEX ELSE s[1]
  BY <1>1 DEF Chained, Chain
<1> HIDE DEF n
<1>4. \A i \in Slots : i \in FreeSlots <=> ~Used(EventList, i)  BY DEF FreeSlots, Used
<1>5. FreeSlots \subseteq Slots  BY DEF FreeSlots
<1>6. n = 0 => FreeSlots = Slots
  <2>1. n = 0 => 1 .. n = {}  OBVIOUS
  <2> QED BY <1>3, <1>4, <1>5, <2>1
<1>7. n # 0 => 1 \in 1 .. n /\ s[1] \in Slots /\ Used(EventList, s[1])  BY <1>2, <1>3
<1>8. \A i \in Slots : i # INVALID_INDEX
  BY EventsAssumption DEF Slots, INVALID_INDEX
<1>9. ASSUME NEW c, Matches(c) = {}, Criteria[c] = Codes PROVE FreeSlots = Slots
  <2> SUFFICES ASSUME NEW i \in Slots, Used(EventList, i) PROVE FALSE
    BY <1>4, <1>5
  <2>1. PICK k \in 1 .. n : s[k] = i  BY <1>3
  <2>2. k - 1 \in 0 .. n - 1 /\ k - 1 + 1 = k  BY <1>2
  <2>3. k - 1 \in Linked /\ Walk[k - 1] = i  BY <1>2, <2>1, <2>2
  <2>4. EventList[i].Code \in Codes  BY DEF EventsInv, TypeOK, Used
  <2> QED BY <1>9, <2>3, <2>4 DEF Matches
<1>10. ASSUME NEW c, Matches(c) # {} PROVE FreeSlots # Slots
  <2>1. PICK k \in Linked : TRUE  BY <1>10 DEF Matches
  <2>2. k + 1 \in 1 .. n  BY <1>2
  <2> QED BY <1>3, <1>4, <2>2
<1> QED BY <1>3, <1>6, <1>7, <1>8, <1>9, <1>10

\* An overflow frees the head, and leaves its link to the record after it.
LEMMA DiscardFrees ==
  ASSUME EventsInv, NEW t \in Signallers, SignalDiscard(t)
  PROVE  /\ FreeSlots' = {EventListHead} /\ FreeSlots # Slots
         /\ EventList'[EventListHead].NextIndex \in Slots \ {EventListHead}
         /\ \A i \in Slots \ {EventListHead} : Used(EventList', i)
<1>1. PICK s \in Seq(Slots) : Chained(s)  BY DEF EventsInv, ListOK
<1>2. TypeOK /\ EventList \in Tables  BY DEF EventsInv, TypeOK, Tables
<1>3. Len(s) = MaxEvents /\ EventListHead \in Slots /\ EventListHead = s[1]
  BY <1>1, <1>2, ListDiscard
<1>4. 1 \in 1 .. Len(s) /\ 2 \in 1 .. Len(s) /\ 1 # Len(s)  BY <1>3, EventsAssumption
<1>5. EventList[EventListHead].NextIndex = s[2] /\ s[2] # s[1] /\ s[2] \in Slots
  <2>1. /\ \A k, l \in 1 .. Len(s) : s[k] = s[l] => k = l
        /\ \A k \in 1 .. Len(s) :
             EventList[s[k]].NextIndex = IF k = Len(s) THEN INVALID_INDEX ELSE s[k + 1]
    BY <1>1 DEF Chained, Chain
  <2>2. s[2] # s[1]  BY <1>4, <2>1
  <2>3. EventList[s[1]].NextIndex = s[2]  BY <1>4, <2>1
  <2> QED BY <1>3, <1>4, <2>2, <2>3
<1>6. /\ EventList' = [EventList EXCEPT ![EventListHead].Code = EventIllegalIdentifier]
      /\ FreeSlots = {}
  BY DEF SignalDiscard
<1>7. /\ EventList'[EventListHead].Code = EventIllegalIdentifier
      /\ EventList'[EventListHead].NextIndex = EventList[EventListHead].NextIndex
      /\ \A i \in Slots \ {EventListHead} : EventList'[i] = EventList[i]
  BY <1>2, <1>3, <1>6 DEF Tables
<1>8. \A i \in Slots : EventList[i].Code # EventIllegalIdentifier  BY <1>6 DEF FreeSlots
<1>9. FreeSlots' = {EventListHead}  BY <1>3, <1>7, <1>8 DEF FreeSlots
<1> QED BY <1>3, <1>5, <1>6, <1>7, <1>8, <1>9 DEF Used

\* What a step of others has to leave to a watcher.
LEMMA NotedStays ==
  ASSUME NEW w \in Watchers, NotedAt(w), UNCHANGED <<list, ExternalEventSignals>>,
         pc'[w] = pc[w], at'[w] = at[w], Event'[w] = Event[w],
         \A t \in Signallers : WillSet(t, w) => WillSet(t, w)'
  PROVE  NotedAt(w)'
<1>1. FreeSlots' = FreeSlots  BY DEF FreeSlots, list
<1>2. Told(w) => Told(w)'  BY <1>1 DEF Told, HasEntry
<1>3. Reaches(at[w]) => Reaches(at[w])'  BY <1>1 DEF Reaches, Used, list
<1> QED BY <1>2, <1>3 DEF NotedAt, Reaches, Used, list

\* Nobody has been told before there is anything to tell.
LEMMA NotedInit == Init => NotedInv
<1> SUFFICES ASSUME Init, NEW w \in Watchers PROVE NotedAt(w)
  BY DEF NotedInv
<1>1. FreeSlots = Slots  BY DEF Init, FreeSlots, Empty
<1>2. pc[w] # "look"  BY DEF Init, Threads, Callers
<1> QED BY <1>1, <1>2 DEF NotedAt, Told

\* Every step leaves every watcher told of what is there, or on its way to it.
LEMMA NotedStep ==
  ASSUME QuietRegistration, AllEvents
  PROVE  EventsInv /\ NotedInv /\ [Next]_vars => NotedInv'
<1> SUFFICES ASSUME EventsInv, NotedInv, [Next]_vars, NEW w \in Watchers
             PROVE  NotedAt(w)'
  BY DEF NotedInv
<1>0. /\ TypeOK /\ LocalsOK /\ NotedAt(w) /\ Criteria[w] = Codes
      /\ w \in Threads /\ w \in Callers /\ w \notin Signallers /\ w # Nothing
      /\ Signallers \cap Watchers = {} /\ Collectors \cap Watchers = {}
      /\ Nothing \notin Signallers
  BY EventsAssumption DEF EventsInv, NotedInv, AllEvents, Threads, Callers
<1>1. ASSUME NEW t \in Signallers, NEW code \in Codes, SignalEvent(t, code)
      PROVE  NotedAt(w)'
  <2>1. \A u \in Signallers : WillSet(u, w) => u # t  BY <1>0, <1>1 DEF WillSet, LocalsOK, SignalEvent
  <2>2. \A u \in Signallers : WillSet(u, w) => WillSet(u, w)'
    BY <1>0, <1>1, <2>1 DEF SignalEvent, WillSet, TypeOK
  <2> QED BY <1>0, <1>1, <2>2, NotedStays DEF SignalEvent, TypeOK
<1>2. ASSUME NEW t \in Signallers, SignalInsert(t) PROVE NotedAt(w)'
  <2>1. /\ pc'[w] = pc[w] /\ at'[w] = at[w] /\ at'[t] = 1 /\ Lock' = t
        /\ rec'[t] = rec[t] /\ rec[t] \in Codes
        /\ ExternalEventSignals' = ExternalEventSignals
    BY <1>0, <1>2 DEF SignalInsert, TypeOK, LocalsOK, Threads
  <2>2. HasEntry(w)' => WillSet(t, w)'
    BY <1>0, <2>1 DEF HasEntry, WillSet, Signals
  <2>3. Told(w)'  BY <2>2 DEF Told
  <2>4. ASSUME NEW i \in Slots, Reaches(i) PROVE Used(EventList', i)
    <3>1. PICK j \in FreeSlots :
            EventList' = [k \in Slots |->
              IF k = j THEN [Code |-> rec[t], NextIndex |-> INVALID_INDEX]
              ELSE IF k = EventListTail THEN [EventList[k] EXCEPT !.NextIndex = j]
              ELSE EventList[k]]
      BY <1>2 DEF SignalInsert
    <3>2. CASE i = j  BY <2>1, <3>1, <3>2, EventsAssumption DEF Used
    <3>3. CASE i # j
      <4>1. Used(EventList, i)  BY <2>4, <3>1, <3>3 DEF Reaches
      <4>2. EventList'[i].Code = EventList[i].Code
        BY <1>0, <3>1, <3>3 DEF TypeOK
      <4> QED BY <4>1, <4>2 DEF Used
    <3> QED BY <3>2, <3>3
  <2>5. pc[w] = "look" /\ at[w] # INVALID_INDEX => Reaches(at[w])'
    <3>1. pc[w] = "look" /\ at[w] # INVALID_INDEX => at[w] \in Slots /\ Reaches(at[w])
      BY <1>0 DEF LocalsOK, Index, NotedAt
    <3> QED BY <2>1, <2>4, <3>1 DEF Reaches, Used
  <2> QED BY <2>1, <2>3, <2>5 DEF NotedAt, Reaches, Used
<1>3. ASSUME NEW t \in Signallers, SignalDiscard(t) PROVE NotedAt(w)'
  <2>1. /\ FreeSlots' = {EventListHead} /\ FreeSlots # Slots
        /\ EventList'[EventListHead].NextIndex \in Slots \ {EventListHead}
        /\ \A i \in Slots \ {EventListHead} : Used(EventList', i)
    BY <1>3, DiscardFrees
  <2>2. /\ UNCHANGED <<ExternalEventSignals, Lock, Event, pc, rec, at>> /\ Lock = Nothing
    BY <1>3 DEF SignalDiscard
  <2>3. \A u \in Signallers : ~WillSet(u, w)  BY <1>0, <2>2 DEF WillSet
  <2>4. Told(w) => Told(w)'  BY <2>1, <2>2, <2>3 DEF Told, HasEntry
  <2>5. \A i \in Slots : Reaches(i)'  BY <2>1 DEF Reaches, Used
  <2>6. pc[w] = "look" /\ at[w] # INVALID_INDEX => at[w] \in Slots
    BY <1>0 DEF LocalsOK, Index
  <2>7. pc[w] = "look" /\ at[w] # INVALID_INDEX => Reaches(at[w])'
    BY <2>2, <2>5, <2>6 DEF Reaches, Used
  <2> QED BY <1>0, <2>2, <2>4, <2>7 DEF NotedAt, Reaches, Used
<1>4. ASSUME NEW t \in Signallers, SignalTest(t) PROVE NotedAt(w)'
  <2>1. /\ UNCHANGED <<list, ExternalEventSignals, Lock, Event, rec>> /\ pc[t] = "test"
        /\ pc'[w] = pc[w] /\ at'[w] = at[w] /\ \A u \in Signallers : u # t => at'[u] = at[u]
        /\ \/ at'[t] = at[t]
           \/ ~Interested(ExternalEventSignals[at[t]], rec[t]) /\ at'[t] = at[t] + 1
    BY <1>0, <1>4 DEF SignalTest, TypeOK, Threads
  <2>2. at[t] \in Int /\ rec[t] \in Codes  BY <1>0, <2>1 DEF LocalsOK
  <2>3. WillSet(t, w) => WillSet(t, w)'
    <3> SUFFICES ASSUME WillSet(t, w) PROVE WillSet(t, w)'  OBVIOUS
    <3>1. PICK i \in Signals : i >= at[t] /\ ExternalEventSignals[i] = w  BY DEF WillSet
    <3>2. i \in Int  BY DEF Signals
    <3>3. at'[t] # at[t] => i # at[t]
      BY <1>0, <2>1, <2>2, <3>1 DEF Interested
    <3>4. i >= at'[t]  BY <2>1, <2>2, <3>1, <3>2, <3>3
    <3> QED BY <2>1, <3>1, <3>4 DEF WillSet
  <2>4. \A u \in Signallers : WillSet(u, w) => WillSet(u, w)'
    BY <2>1, <2>3 DEF WillSet
  <2> QED BY <1>0, <2>1, <2>4, NotedStays
<1>5. ASSUME NEW t \in Signallers, SignalSet(t) PROVE NotedAt(w)'
  <2> DEFINE v == ExternalEventSignals[at[t]]
  <2>1. /\ UNCHANGED <<list, ExternalEventSignals, Lock, rec>> /\ pc[t] = "set"
        /\ pc'[w] = pc[w] /\ at'[w] = at[w]
        /\ \A u \in Signallers : u # t => at'[u] = at[u]
        /\ at'[t] = at[t] + 1 /\ at[t] \in Signals
    BY <1>0, <1>5 DEF SignalSet, TypeOK, LocalsOK, Threads
  <2>2. Event'[w] = IF v = w THEN TRUE ELSE Event[w]
    BY <1>0, <1>5 DEF SignalSet, TypeOK
  <2>3. \A u \in Signallers : WillSet(u, w) => Event'[w] \/ WillSet(u, w)'
    <3>1. \A i \in Signals : i \in Int /\ at[t] \in Int  BY <2>1 DEF Signals
    <3>2. WillSet(t, w) => Event'[w] \/ WillSet(t, w)'
      <4> SUFFICES ASSUME WillSet(t, w), v # w PROVE WillSet(t, w)'  BY <2>2
      <4>1. PICK i \in Signals : i >= at[t] /\ ExternalEventSignals[i] = w  BY DEF WillSet
      <4>2. i # at[t]  BY <4>1
      <4>3. i >= at[t] + 1  BY <3>1, <4>1, <4>2
      <4> QED BY <2>1, <4>1, <4>3 DEF WillSet
    <3>3. \A u \in Signallers : u # t /\ WillSet(u, w) => WillSet(u, w)'
      BY <2>1 DEF WillSet
    <3> QED BY <3>2, <3>3
  <2>4. FreeSlots' = FreeSlots  BY <2>1 DEF FreeSlots, list
  <2>5. Told(w) => Told(w)'  BY <2>1, <2>2, <2>3, <2>4 DEF Told, HasEntry
  <2>6. Reaches(at[w]) => Reaches(at[w])'  BY <2>1, <2>4 DEF Reaches, Used, list
  <2> QED BY <1>0, <2>1, <2>5, <2>6 DEF NotedAt, Reaches, Used, list
<1>6. ASSUME NEW t \in Signallers, SignalReturn(t) PROVE NotedAt(w)'
  <2>1. /\ UNCHANGED <<list, ExternalEventSignals, Event>>
        /\ pc'[w] = pc[w] /\ at'[w] = at[w] /\ pc[t] = "test" /\ at[t] > MaxSignals
        /\ \A u \in Signallers : u # t => Lock # u /\ rec'[u] = rec[u] /\ at'[u] = at[u]
    <3>1. Lock = t  BY <1>0, <1>6 DEF SignalReturn, LocalsOK
    <3> QED BY <1>0, <1>6, <3>1 DEF SignalReturn, TypeOK, Threads
  <2>2. ~WillSet(t, w)
    <3>1. at[t] \in Int /\ MaxSignals \in Int  BY <1>0, <2>1, EventsAssumption DEF LocalsOK
    <3> QED BY <2>1, <3>1 DEF WillSet, Signals
  <2>3. \A u \in Signallers : ~WillSet(u, w)  BY <2>1, <2>2 DEF WillSet
  <2> QED BY <1>0, <2>1, <2>3, NotedStays
<1>7. ASSUME NEW c \in Callers, GetReset(c) PROVE NotedAt(w)'
  <2>1. /\ UNCHANGED <<list, ExternalEventSignals, Lock, Event, rec, at>>
        /\ \A u \in Threads : pc'[u] = IF u = c THEN "scan" ELSE pc[u]
    BY <1>0, <1>7 DEF GetReset, TypeOK, Threads
  <2>2. CASE w = c  BY <1>0, <2>1, <2>2 DEF NotedAt
  <2>3. CASE w # c
    <3>1. \A u \in Signallers : WillSet(u, w) => WillSet(u, w)'  BY <2>1 DEF WillSet
    <3> QED BY <1>0, <2>1, <2>3, <3>1, NotedStays
  <2> QED BY <2>2, <2>3
<1>8. ASSUME NEW c \in Callers, GetTake(c) PROVE NotedAt(w)'
  <2>1. /\ UNCHANGED <<ExternalEventSignals, Lock, Event, rec, at>> /\ Lock = Nothing
        /\ pc[w] # "look" /\ Matches(c) # {}
        /\ pc' = [pc EXCEPT ![c] = IF c \in Watchers THEN "collect" ELSE "idle"]
    BY <1>8 DEF GetTake, GetTakeTail
  <2>2. pc'[w] \in {pc[w], "collect"}  BY <1>0, <2>1 DEF TypeOK
  <2>3. FreeSlots # Slots  BY <2>1, RecordsThere
  <2>4. \A u \in Signallers : ~WillSet(u, w)  BY <1>0, <2>1 DEF WillSet
  <2>5. Told(w) => Told(w)'  BY <2>1, <2>3, <2>4 DEF Told, HasEntry
  <2> QED BY <1>0, <2>1, <2>2, <2>5 DEF NotedAt
<1>9. ASSUME NEW c \in Callers, GetNothing(c) PROVE NotedAt(w)'
  <2>1. /\ UNCHANGED <<list, ExternalEventSignals, Lock, Event, rec, at>> /\ Matches(c) = {}
        /\ pc' = [pc EXCEPT ![c] = IF c \in Watchers THEN "asleep" ELSE "wait"]
    BY <1>9 DEF GetNothing
  <2>2. CASE w = c
    <3>1. FreeSlots = Slots  BY <1>0, <2>1, <2>2, RecordsThere
    <3>2. FreeSlots' = FreeSlots  BY <2>1 DEF FreeSlots, list
    <3>3. pc'[w] = "asleep"  BY <1>0, <2>1, <2>2 DEF TypeOK
    <3> QED BY <3>1, <3>2, <3>3 DEF NotedAt, Told
  <2>3. CASE w # c
    <3>1. \A u \in Signallers : WillSet(u, w) => WillSet(u, w)'  BY <2>1 DEF WillSet
    <3>2. pc'[w] = pc[w]  BY <1>0, <2>1, <2>3 DEF TypeOK
    <3> QED BY <1>0, <2>1, <3>1, <3>2, NotedStays
  <2> QED BY <2>2, <2>3
<1>10. ASSUME NEW c \in Callers, GetWoken(c) PROVE NotedAt(w)'
  <2>1. /\ UNCHANGED <<list, ExternalEventSignals, Lock, Event, rec, at>>
        /\ pc' = [pc EXCEPT ![c] = "idle"]
    BY <1>10 DEF GetWoken
  <2>2. CASE w = c  BY <1>0, <2>1, <2>2 DEF NotedAt, TypeOK
  <2>3. CASE w # c
    <3>1. \A u \in Signallers : WillSet(u, w) => WillSet(u, w)'  BY <2>1 DEF WillSet
    <3>2. pc'[w] = pc[w]  BY <1>0, <2>1, <2>3 DEF TypeOK
    <3> QED BY <1>0, <2>1, <3>1, <3>2, NotedStays
  <2> QED BY <2>2, <2>3
<1>11. ASSUME NEW v \in Watchers, SetEventSignal(v) PROVE NotedAt(w)'
  <2>1. /\ UNCHANGED <<list, Lock, Event, rec>> /\ Lock = Nothing
        /\ pc' = [pc EXCEPT ![v] = "look"] /\ at' = [at EXCEPT ![v] = EventListHead]
        /\ \E i \in Signals : /\ ExternalEventSignals[i] = Nothing
                              /\ ExternalEventSignals' = [ExternalEventSignals EXCEPT ![i] = v]
    BY <1>11 DEF SetEventSignal
  <2>2. FreeSlots' = FreeSlots  BY <2>1 DEF FreeSlots, list
  <2>3. CASE w = v
    <3>1. pc'[w] = "look" /\ at'[w] = EventListHead  BY <1>0, <2>1, <2>3 DEF TypeOK
    <3>2. EventListHead = INVALID_INDEX => Told(w)'
      BY <2>2, RecordsThere DEF Told
    <3>3. EventListHead # INVALID_INDEX => Reaches(EventListHead)'
      <4>1. EventListHead # INVALID_INDEX => Used(EventList, EventListHead)
        BY RecordsThere
      <4> QED BY <2>1, <4>1 DEF Reaches, Used, list
    <3> QED BY <2>1, <3>1, <3>2, <3>3 DEF NotedAt, Reaches, Used, list
  <2>4. CASE w # v
    <3>1. pc'[w] = pc[w] /\ at'[w] = at[w]  BY <1>0, <2>1, <2>4 DEF TypeOK
    <3>2. HasEntry(w)' => HasEntry(w)  BY <1>0, <2>1, <2>4 DEF HasEntry, TypeOK
    <3>3. \A u \in Signallers : ~WillSet(u, w)  BY <1>0, <2>1 DEF WillSet
    <3>4. Told(w) => Told(w)'  BY <2>1, <2>2, <3>2, <3>3 DEF Told
    <3>5. Reaches(at[w]) => Reaches(at[w])'
      BY <2>1, <2>2, <3>1 DEF Reaches, Used, list
    <3> QED BY <1>0, <2>1, <2>2, <3>1, <3>4, <3>5 DEF NotedAt, Reaches, Used, list
  <2> QED BY <2>3, <2>4
<1>12. ASSUME NEW v \in Watchers, ClearEventSignal(v) PROVE NotedAt(w)'
  <2> DEFINE same == {i \in Signals : ExternalEventSignals[i] # Nothing
                               /\ Criteria[ExternalEventSignals[i]] = Criteria[v]}
  <2>1. PICK j \in same :
          /\ \A i \in same : j <= i
          /\ ExternalEventSignals' = [ExternalEventSignals EXCEPT ![j] = Nothing]
    BY <1>12 DEF ClearEventSignal
  <2>2. /\ UNCHANGED <<list, Lock, rec, at>>
        /\ Event' = [Event EXCEPT ![v] = FALSE] /\ pc' = [pc EXCEPT ![v] = "idle"]
    BY <1>12 DEF ClearEventSignal
  <2>3. \A i \in Signals : ExternalEventSignals[i] \in Watchers => i \in same
    BY EventsAssumption DEF AllEvents
  <2>4. ASSUME NEW i \in Signals
        PROVE  ExternalEventSignals'[i] = IF i = j THEN Nothing ELSE ExternalEventSignals[i]
    BY <1>0, <2>1 DEF TypeOK
  <2> HIDE DEF same
  <2>5. CASE w = v
    <3>1. pc'[w] = "idle"  BY <1>0, <2>2, <2>5 DEF TypeOK
    <3> QED BY <3>1 DEF NotedAt
  <2>6. CASE w # v
    <3>1. pc'[w] = pc[w] /\ at'[w] = at[w] /\ Event'[w] = Event[w]
      BY <1>0, <2>2, <2>6 DEF TypeOK
    <3>2. FreeSlots' = FreeSlots  BY <2>2 DEF FreeSlots, list
    <3>3. HasEntry(w)' => HasEntry(w)  BY <1>0, <2>4 DEF HasEntry
    <3>4. ASSUME NEW u \in Signallers, WillSet(u, w), HasEntry(w)' PROVE WillSet(u, w)'
      <4>1. PICK i \in Signals : i >= at[u] /\ ExternalEventSignals[i] = w
        BY <3>4 DEF WillSet
      <4>2. PICK k \in Signals : k # j /\ ExternalEventSignals[k] = w
        BY <1>0, <2>4, <3>4 DEF HasEntry
      <4>3. k >= at[u] \/ i # j
        <5>1. k \in same /\ i \in same  BY <2>3, <4>1, <4>2
        <5>2. k \in Int /\ i \in Int /\ at[u] \in Int
          BY <1>0 DEF Signals, TypeOK, Threads
        <5> QED BY <2>1, <4>1, <5>1, <5>2
      <4>4. \E l \in Signals : l >= at'[u] /\ ExternalEventSignals'[l] = w
        BY <2>2, <2>4, <4>1, <4>2, <4>3
      <4> QED BY <2>2, <3>4, <4>4 DEF WillSet
    <3>5. Told(w) => Told(w)'  BY <3>1, <3>2, <3>3, <3>4 DEF Told
    <3>6. Reaches(at[w]) => Reaches(at[w])'  BY <2>2, <3>2 DEF Reaches, Used, list
    <3> QED BY <1>0, <2>2, <3>1, <3>2, <3>5, <3>6 DEF NotedAt, Reaches, Used, list
  <2> QED BY <2>5, <2>6
<1>13. ASSUME NEW v \in Watchers, LookMatch(v) PROVE NotedAt(w)'
  <2>1. /\ UNCHANGED <<list, ExternalEventSignals, Lock, rec>>
        /\ Event' = [Event EXCEPT ![v] = TRUE] /\ pc' = [pc EXCEPT ![v] = "asleep"]
        /\ at' = [at EXCEPT ![v] = INVALID_INDEX]
    BY <1>13 DEF LookMatch
  <2>2. CASE w = v
    <3>1. pc'[w] = "asleep" /\ Event'[w]  BY <1>0, <2>1, <2>2 DEF TypeOK
    <3> QED BY <3>1 DEF NotedAt, Told
  <2>3. CASE w # v
    <3>1. pc'[w] = pc[w] /\ at'[w] = at[w] /\ Event'[w] = Event[w]
      BY <1>0, <2>1, <2>3 DEF TypeOK
    <3>2. \A u \in Signallers : at'[u] = at[u]  BY <1>0, <2>1 DEF TypeOK, Threads
    <3>3. \A u \in Signallers : WillSet(u, w) => WillSet(u, w)'  BY <2>1, <3>2 DEF WillSet
    <3> QED BY <1>0, <2>1, <3>1, <3>3, NotedStays
  <2> QED BY <2>2, <2>3
<1>14. ASSUME NEW v \in Watchers, LookOn(v) PROVE NotedAt(w)'
  <2>1. /\ UNCHANGED <<list, ExternalEventSignals, Lock, Event, pc, rec>>
        /\ pc[v] = "look" /\ at[v] # INVALID_INDEX /\ EventList[at[v]].Code \notin Criteria[v]
        /\ at' = [at EXCEPT ![v] = EventList[at[v]].NextIndex]
    BY <1>14 DEF LookOn
  <2>2. CASE w = v
    <3>1. at[w] \in Slots /\ Reaches(at[w])
      BY <1>0, <2>1, <2>2 DEF LocalsOK, Index, NotedAt
    <3>2. ~Used(EventList, at[w])
      BY <1>0, <2>1, <2>2, <3>1 DEF TypeOK, Used
    <3>3. FreeSlots = {at[w]} /\ EventList[at[w]].NextIndex \in Slots \ {at[w]}
      BY <3>1, <3>2 DEF Reaches
    <3>4. Used(EventList, EventList[at[w]].NextIndex)
      BY <3>3 DEF FreeSlots, Used
    <3>5. at'[w] = EventList[at[w]].NextIndex /\ pc'[w] = "look"
      BY <1>0, <2>1, <2>2 DEF TypeOK
    <3>6. at'[w] # INVALID_INDEX
      BY <3>3, <3>5, EventsAssumption DEF Slots, INVALID_INDEX
    <3>7. Used(EventList', at'[w])  BY <2>1, <3>4, <3>5 DEF list
    <3> QED BY <3>5, <3>6, <3>7 DEF NotedAt, Reaches
  <2>3. CASE w # v
    <3>1. at'[w] = at[w]  BY <1>0, <2>1, <2>3 DEF TypeOK
    <3>2. \A u \in Signallers : at'[u] = at[u]  BY <1>0, <2>1 DEF TypeOK, Threads
    <3>3. \A u \in Signallers : WillSet(u, w) => WillSet(u, w)'  BY <2>1, <3>2 DEF WillSet
    <3> QED BY <1>0, <2>1, <3>1, <3>3, NotedStays
  <2> QED BY <2>2, <2>3
<1>15. ASSUME NEW v \in Watchers, LookEnd(v) PROVE NotedAt(w)'
  <2>1. /\ UNCHANGED <<list, ExternalEventSignals, Lock, Event, rec, at>>
        /\ pc[v] = "look" /\ at[v] = INVALID_INDEX /\ pc' = [pc EXCEPT ![v] = "asleep"]
    BY <1>15 DEF LookEnd
  <2>2. FreeSlots' = FreeSlots  BY <2>1 DEF FreeSlots, list
  <2>3. \A u \in Signallers : WillSet(u, w) => WillSet(u, w)'  BY <2>1 DEF WillSet
  <2>4. CASE w = v
    <3>1. Told(w) /\ pc'[w] = "asleep"  BY <1>0, <2>1, <2>4 DEF NotedAt, TypeOK
    <3>2. Told(w)'  BY <2>1, <2>2, <2>3, <3>1 DEF Told, HasEntry
    <3> QED BY <3>1, <3>2 DEF NotedAt
  <2>5. CASE w # v
    <3>1. pc'[w] = pc[w]  BY <1>0, <2>1, <2>5 DEF TypeOK
    <3> QED BY <1>0, <2>1, <2>3, <3>1, NotedStays
  <2> QED BY <2>4, <2>5
<1>16. ASSUME NEW v \in Watchers, WatchWoken(v) PROVE NotedAt(w)'
  <2>1. /\ UNCHANGED <<list, ExternalEventSignals, Lock, rec, at>>
        /\ Event' = [Event EXCEPT ![v] = FALSE] /\ pc' = [pc EXCEPT ![v] = "collect"]
    BY <1>16 DEF WatchWoken
  <2>2. CASE w = v
    <3>1. pc'[w] = "collect"  BY <1>0, <2>1, <2>2 DEF TypeOK
    <3> QED BY <3>1 DEF NotedAt
  <2>3. CASE w # v
    <3>1. pc'[w] = pc[w] /\ Event'[w] = Event[w]  BY <1>0, <2>1, <2>3 DEF TypeOK
    <3>2. \A u \in Signallers : WillSet(u, w) => WillSet(u, w)'  BY <2>1 DEF WillSet
    <3> QED BY <1>0, <2>1, <3>1, <3>2, NotedStays
  <2> QED BY <2>2, <2>3
<1>17. CASE UNCHANGED vars
  <2>1. \A u \in Signallers : WillSet(u, w) => WillSet(u, w)'
    BY <1>17 DEF WillSet, vars
  <2> QED BY <1>0, <1>17, <2>1, NotedStays DEF vars
<1> QED BY <1>1, <1>2, <1>3, <1>4, <1>5, <1>6, <1>7, <1>8, <1>9, <1>10, <1>11, <1>12, <1>13,
           <1>14, <1>15, <1>16, <1>17
        DEF Next, SignalStep, GetStep, WatchStep, Callers

\* player_events.cpp:117: a registered watcher does not sleep beside a record
\* without its event set or about to be, for any number of them and of records, when
\* watchers are after all events and nobody collects under the scan of a registration.
THEOREM NeverMissesEvent ==
  ASSUME QuietRegistration, AllEvents
  PROVE  Spec => []NoMissedEvent
<1>1. EventsInv /\ NotedInv => NoMissedEvent
  BY RecordsThere DEF NoMissedEvent, NotedInv, NotedAt, Told, HasEntry
<1>2. EventsInv /\ NotedInv /\ [Next]_vars => NotedInv'  BY NotedStep
<1> QED BY <1>1, <1>2, NotedInit, EventsInvariant, PTL DEF Spec
=============================================================================
