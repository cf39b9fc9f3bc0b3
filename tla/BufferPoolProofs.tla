-------------------------- MODULE BufferPoolProofs --------------------------
(***************************************************************************)
(* What holds of BufferPool for every number of threads, pools and buffers *)
(* and every way of attaching one buffer to another, when a pool is        *)
(* destroyed while no thread is inside a call (QuietDestroy), as the       *)
(* player does it.  First who refers to what and what keeps a buffer from  *)
(* going, then where the buffers are, what a release leaves behind, and    *)
(* what is left of a destroyed pool.                                       *)
(***************************************************************************)
EXTENDS BufferPool, TLAPS, FiniteSetTheorems, WellFoundedInduction, SequenceTheorems

---------------------------------------------------------------------------
(* The parts of the inductive invariant.                                   *)

Getting(t)   == pc[t] \in {"extract", "wait", "woken", "memory", "count"}
Releasing(t) == pc[t] \in {"release", "slots", "deallocate", "insert"}

\* Where a thread is tells what its locals hold.
LocalsAt(t) ==
  /\ Getting(t) => <<t, getting[t].pool>> \in Getters /\ getting[t].pool \in Pools
  /\ ~Getting(t) => getting[t] = NoGet
  /\ pc[t] \in {"memory", "count"} =>
       cur[t] \in Buffers /\ PoolOf[cur[t]] = getting[t].pool
  /\ Incrementing(t) => cur[t] \in refs[t] /\ aux[t] # NULL
  /\ Decrementing(t) => cur[t] \in Buffers
  /\ Releasing(t) => stack[t] # <<>>
  /\ stack[t] # <<>> => Releasing(t) \/ Decrementing(t)

LocalsOK == \A t \in Threads : LocalsAt(t)

\* A pool's ring holds buffers of the pool.
Home == \A p \in Pools : \A k \in DOMAIN FreeBuffer[p] : PoolOf[FreeBuffer[p][k]] = p

TypeInv == TypeOK /\ LocalsOK /\ Home

\* A decrement that has been announced finds something to take away.
DropsCounted == \A t \in Threads : Decrementing(t) => ReferenceCount[cur[t]] > 0

---------------------------------------------------------------------------
(* Types.                                                                  *)

\* Where a thread goes on after a release.
LEMMA AfterPlaces ==
  ASSUME NEW t, NEW s
  PROVE  /\ s # <<>> => After(t, s) = "slots"
         /\ s = <<>> => After(t, s) \in {"idle", "tidyup"}
BY DEF After

\* The value of "no call of GetBuffer" is one getting may have.
LEMMA NoGetType == NoGet \in [pool : Pools \cup {NULL}, NonBlocking : BOOLEAN]
BY DEF NoGet

\* The smallest slot of a set is in the set.
LEMMA FirstIn ==
  ASSUME NEW is \in SUBSET Slots, is # {}
  PROVE  First(is) \in is
<1> DEFINE Below == OpToRel(<, Nat)
<1>1. IsWellFoundedOn(Below, Nat)  BY NatLessThanWellFounded
<1>2. \A i, j \in Nat : <<j, i>> \in Below <=> j < i
  BY DEF OpToRel
<1>3. is \in SUBSET Nat  BY PoolsAssumption DEF Slots
<1> HIDE DEF Below
<1>4. PICK i \in is : \A j \in is : ~ (<<j, i>> \in Below)
  BY <1>1, <1>3, WFMin
<1>5. ASSUME NEW j \in is PROVE i <= j
  <2>1. i \in Nat /\ j \in Nat  BY <1>3
  <2>2. ~(j < i)  BY <1>2, <1>4, <2>1
  <2> QED BY <2>1, <2>2
<1> QED BY <1>5 DEF First

\* A thread's step leaves the locals of the others alone.
OthersStay(t) ==
  \A u \in Threads : u # t =>
    /\ pc'[u] = pc[u] /\ cur'[u] = cur[u] /\ aux'[u] = aux[u]
    /\ getting'[u] = getting[u] /\ stack'[u] = stack[u] /\ refs[u] \subseteq refs'[u]

\* A step that keeps its own thread's locals well formed, and leaves the other threads
\* alone but for what they refer to, keeps those of all threads well formed.
LEMMA LocalsMove ==
  ASSUME LocalsOK, NEW t \in Threads, LocalsAt(t)', OthersStay(t)
  PROVE  LocalsOK'
BY DEF LocalsOK, LocalsAt, Getting, Releasing, Incrementing, Decrementing, OthersStay

\* One pass of the loop of GetBuffer, in its three outcomes.
ExtractTakes(t) ==
  /\ FreeBuffer[getting[t].pool] # <<>>
  /\ FreeBuffer' = [FreeBuffer EXCEPT ![getting[t].pool] = Tail(@)]
  /\ cur' = [cur EXCEPT ![t] = Head(FreeBuffer[getting[t].pool])]
  /\ pc' = [pc EXCEPT ![t] = "memory"] /\ UNCHANGED getting
ExtractFails(t) == GetFails(t) /\ UNCHANGED <<FreeBuffer, cur>>
ExtractWaits(t) ==
  /\ FreeBuffer[getting[t].pool] = <<>>
  /\ pc' = [pc EXCEPT ![t] = "wait"] /\ UNCHANGED <<FreeBuffer, cur, getting>>

\* GetExtract takes a free buffer, returns without one, or goes to wait, and has reset
\* the release event before it looked.
LEMMA ExtractOutcomes ==
  ASSUME NEW t, GetExtract(t)
  PROVE  /\ pc[t] \in {"extract", "woken"}
         /\ ExtractTakes(t) \/ ExtractFails(t) \/ ExtractWaits(t)
         /\ BufferReleaseSignal' = [BufferReleaseSignal EXCEPT ![getting[t].pool] = FALSE]
         /\ UNCHANGED <<buffer, counts, AbortGetBuffer, listed, destroyer, aux, stack, refs>>
BY DEF GetExtract, ExtractTakes, ExtractFails, ExtractWaits

\* GetExtract leaves the waiting flags Boolean.
LEMMA ExtractEvents ==
  ASSUME PoolTypes, NEW t, GetExtract(t)
  PROVE  BufferReleaseSignalWaitedOn' \in [Pools -> BOOLEAN]
<1> DEFINE next(w) == BufferReleaseSignalWaitedOn' =
             [BufferReleaseSignalWaitedOn EXCEPT ![getting[t].pool] =
                w \/ (@ /\ pc[t] = "extract")]
<1>1. next(TRUE) \/ next(FALSE)  BY DEF GetExtract
<1>2. BufferReleaseSignalWaitedOn \in [Pools -> BOOLEAN]  BY DEF PoolTypes
<1> QED BY <1>1, <1>2

\* What is taken out of a ring, and what stays, is the pool's.
LEMMA TailHome ==
  ASSUME PoolTypes, Home, NEW p \in Pools, FreeBuffer[p] # <<>>,
         FreeBuffer' = [FreeBuffer EXCEPT ![p] = Tail(@)]
  PROVE  Head(FreeBuffer[p]) \in Buffers /\ PoolOf[Head(FreeBuffer[p])] = p /\ Home'
<1>1. FreeBuffer[p] \in Seq(Buffers)  BY DEF PoolTypes
<1>2. /\ Head(FreeBuffer[p]) \in Buffers /\ Tail(FreeBuffer[p]) \in Seq(Buffers)
      /\ Len(Tail(FreeBuffer[p])) = Len(FreeBuffer[p]) - 1
      /\ \A k \in 1 .. Len(Tail(FreeBuffer[p])) : Tail(FreeBuffer[p])[k] = FreeBuffer[p][k + 1]
  BY <1>1, HeadTailProperties
<1>3. Head(FreeBuffer[p]) = FreeBuffer[p][1] /\ 1 \in DOMAIN FreeBuffer[p]  BY <1>1
<1>4. ASSUME NEW k \in DOMAIN Tail(FreeBuffer[p]) PROVE PoolOf[Tail(FreeBuffer[p])[k]] = p
  <2>1. k \in 1 .. Len(FreeBuffer[p]) - 1  BY <1>2
  <2>2. k + 1 \in DOMAIN FreeBuffer[p]  BY <1>1, <2>1
  <2> QED BY <1>2, <2>1, <2>2 DEF Home
<1> QED BY <1>2, <1>3, <1>4 DEF Home, PoolTypes

\* The steps of GetBuffer keep the types.
LEMMA TypeStepGet ==
  ASSUME TypeInv, NEW t \in Threads,
         \/ \E p \in Pools, nonblocking \in BOOLEAN : GetEnter(t, p, nonblocking)
         \/ GetStep(t)
  PROVE  TypeInv'
<1> USE DEF TypeInv, TypeOK, buffer, counts, events, pool
<1>0. LocalsAt(t)  BY DEF LocalsOK
<1>1. ASSUME NEW p \in Pools, NEW nonblocking \in BOOLEAN, GetEnter(t, p, nonblocking)
      PROVE  TypeInv'
  <2>1. BufferTypes' /\ PoolTypes' /\ ThreadTypes' /\ Home'
    BY <1>1 DEF GetEnter, BufferTypes, PoolTypes, ThreadTypes, Home
  <2>2. LocalsAt(t)'
    BY <1>0, <1>1 DEF GetEnter, ThreadTypes, LocalsAt, Getting, Releasing, Incrementing,
                      Decrementing
  <2>3. OthersStay(t)  BY <1>1 DEF GetEnter, ThreadTypes, OthersStay
  <2> QED BY <2>1, <2>2, <2>3, LocalsMove
<1>2. ASSUME GetExtract(t) PROVE TypeInv'
  <2>1. getting[t].pool \in Pools /\ <<t, getting[t].pool>> \in Getters
    BY <1>0, <1>2, ExtractOutcomes DEF LocalsAt, Getting
  <2>2. BufferTypes'  BY <1>2, ExtractOutcomes DEF BufferTypes
  <2>3. FreeBuffer' \in [Pools -> Seq(Buffers)] /\ cur' \in [Threads -> Buffers \cup {NULL}]
    <3>1. CASE ExtractTakes(t)
      <4>1. FreeBuffer[getting[t].pool] \in Seq(Buffers)  BY <2>1 DEF PoolTypes
      <4> QED BY <3>1, <4>1, HeadTailProperties DEF ExtractTakes, PoolTypes, ThreadTypes
    <3>2. CASE ExtractFails(t) \/ ExtractWaits(t)
      BY <3>2 DEF ExtractFails, ExtractWaits, PoolTypes, ThreadTypes
    <3> QED BY <1>2, <3>1, <3>2, ExtractOutcomes
  <2>4. PoolTypes'
    BY <1>2, <2>1, <2>3, ExtractOutcomes, ExtractEvents DEF PoolTypes
  <2>5. CASE ExtractTakes(t)
    <3>1. ThreadTypes'
      BY <1>2, <2>3, <2>5, ExtractOutcomes DEF ExtractTakes, ThreadTypes
    <3>2. /\ Head(FreeBuffer[getting[t].pool]) \in Buffers
          /\ PoolOf[Head(FreeBuffer[getting[t].pool])] = getting[t].pool
          /\ Home'
      BY <2>1, <2>5, TailHome DEF ExtractTakes, PoolTypes
    <3>3. LocalsAt(t)'
      BY <1>0, <1>2, <2>5, <3>2, ExtractOutcomes
         DEF ExtractTakes, ThreadTypes, LocalsAt, Getting, Releasing, Incrementing, Decrementing
    <3>4. OthersStay(t)
      BY <1>2, <2>5, ExtractOutcomes DEF ExtractTakes, ThreadTypes, OthersStay
    <3> QED BY <2>2, <2>4, <3>1, <3>2, <3>3, <3>4, LocalsMove
  <2>6. CASE ExtractFails(t)
    <3>1. ThreadTypes'
      BY <1>2, <2>6, NoGetType, ExtractOutcomes DEF ExtractFails, GetFails, ThreadTypes
    <3>2. LocalsAt(t)' /\ OthersStay(t)
      BY <1>0, <1>2, <2>6, ExtractOutcomes
         DEF ExtractFails, GetFails, ThreadTypes, LocalsAt, Getting, Releasing,
             Incrementing, Decrementing, OthersStay
    <3> QED BY <2>2, <2>4, <2>6, <3>1, <3>2, LocalsMove DEF ExtractFails, Home
  <2>7. CASE ExtractWaits(t)
    <3>1. ThreadTypes'
      BY <1>2, <2>7, ExtractOutcomes DEF ExtractWaits, ThreadTypes
    <3>2. LocalsAt(t)' /\ OthersStay(t)
      BY <1>0, <1>2, <2>7, ExtractOutcomes
         DEF ExtractWaits, ThreadTypes, LocalsAt, Getting, Releasing,
             Incrementing, Decrementing, OthersStay
    <3> QED BY <2>2, <2>4, <2>7, <3>1, <3>2, LocalsMove DEF ExtractWaits, Home
  <2> QED BY <1>2, <2>5, <2>6, <2>7, ExtractOutcomes
<1>3. ASSUME GetAborted(t) PROVE TypeInv'
  <2>1. BufferTypes' /\ ThreadTypes'
    BY <1>3, NoGetType DEF GetAborted, GetFails, BufferTypes, ThreadTypes
  <2>2. PoolTypes' /\ Home'
    BY <1>0, <1>3 DEF GetAborted, PoolTypes, LocalsAt, Getting, Home
  <2>3. LocalsAt(t)' /\ OthersStay(t)
    BY <1>0, <1>3 DEF GetAborted, GetFails, ThreadTypes, LocalsAt, Getting,
                      Releasing, Incrementing, Decrementing, OthersStay
  <2> QED BY <2>1, <2>2, <2>3, LocalsMove
<1>4. ASSUME GetWoken(t) PROVE TypeInv'
  <2>1. BufferTypes' /\ PoolTypes' /\ ThreadTypes' /\ Home'
    BY <1>4 DEF GetWoken, BufferTypes, PoolTypes, ThreadTypes, Home
  <2>2. LocalsAt(t)' /\ OthersStay(t)
    BY <1>0, <1>4 DEF GetWoken, ThreadTypes, LocalsAt, Getting,
                      Releasing, Incrementing, Decrementing, OthersStay
  <2> QED BY <2>1, <2>2, LocalsMove
<1>5. ASSUME GetMemory(t) PROVE TypeInv'
  <2>0. cur[t] \in Buffers  BY <1>0, <1>5 DEF GetMemory, LocalsAt
  <2>1. /\ allocated' = allocated \/ allocated' = allocated \cup {cur[t]}
        /\ ReferenceCount' = [ReferenceCount EXCEPT ![cur[t]] = 1]
        /\ AttachedBuffers' = [AttachedBuffers EXCEPT ![cur[t]] = [i \in Slots |-> NULL]]
        /\ pc[t] = "memory" /\ pc' = [pc EXCEPT ![t] = "count"]
        /\ UNCHANGED <<BufferLock, lost, pool, cur, aux, getting, stack, refs>>
    BY <1>5 DEF GetMemory
  <2>2. BufferTypes'  BY <2>0, <2>1 DEF BufferTypes
  <2>3. PoolTypes' /\ ThreadTypes' /\ Home'  BY <2>1 DEF PoolTypes, ThreadTypes, Home
  <2>4. LocalsAt(t)' /\ OthersStay(t)
    BY <1>0, <2>1 DEF ThreadTypes, LocalsAt, Getting, Releasing, Incrementing, Decrementing,
                      OthersStay
  <2> QED BY <2>2, <2>3, <2>4, LocalsMove
<1>6. ASSUME GetMemoryFails(t) PROVE TypeInv'
  <2>0. cur[t] \in Buffers  BY <1>0, <1>6 DEF GetMemoryFails, LocalsAt
  <2>1. BufferTypes'  BY <2>0, <1>6 DEF GetMemoryFails, BufferTypes
  <2>2. PoolTypes' /\ Home'  BY <1>6 DEF GetMemoryFails, PoolTypes, Home
  <2>3. ThreadTypes'  BY <1>6, NoGetType DEF GetMemoryFails, GetFails, ThreadTypes
  <2>4. LocalsAt(t)' /\ OthersStay(t)
    BY <1>0, <1>6 DEF GetMemoryFails, GetFails, ThreadTypes, LocalsAt, Getting,
                      Releasing, Incrementing, Decrementing, OthersStay
  <2> QED BY <2>1, <2>2, <2>3, <2>4, LocalsMove
<1>7. ASSUME GetCount(t) PROVE TypeInv'
  <2>0. cur[t] \in Buffers /\ getting[t].pool \in Pools
    BY <1>0, <1>7 DEF GetCount, LocalsAt, Getting
  <2>1. BufferTypes' /\ PoolTypes' /\ ThreadTypes' /\ Home'
    BY <2>0, <1>7, NoGetType DEF GetCount, GetFails, BufferTypes, PoolTypes, ThreadTypes, Home
  <2>2. LocalsAt(t)'
    BY <1>0, <1>7 DEF GetCount, GetFails, ThreadTypes, LocalsAt, Getting,
                      Releasing, Incrementing, Decrementing
  <2>3. OthersStay(t)
    BY <1>7 DEF GetCount, GetFails, ThreadTypes, OthersStay
  <2> QED BY <2>1, <2>2, <2>3, LocalsMove
<1> QED BY <1>1, <1>2, <1>3, <1>4, <1>5, <1>6, <1>7 DEF GetStep

\* The buffer a thread is releasing.
LEMMA TopIn ==
  ASSUME ThreadTypes, NEW t \in Threads, stack[t] # <<>>
  PROVE  /\ Top(t) \in Buffers /\ Len(stack[t]) \in DOMAIN stack[t]
         /\ stack[t] \in Seq(Buffers) /\ Len(stack[t]) \in Nat \ {0}
         /\ SubSeq(stack[t], 1, Len(stack[t]) - 1) \in Seq(Buffers)
         /\ Len(SubSeq(stack[t], 1, Len(stack[t]) - 1)) = Len(stack[t]) - 1
         /\ \A k \in 1 .. Len(stack[t]) - 1 :
              SubSeq(stack[t], 1, Len(stack[t]) - 1)[k] = stack[t][k]
<1>1. stack[t] \in Seq(Buffers)  BY DEF ThreadTypes
<1>2. Len(stack[t]) \in Nat \ {0} /\ DOMAIN stack[t] = 1 .. Len(stack[t])
  BY <1>1
<1>3. \A k \in 1 .. Len(stack[t]) - 1 : stack[t][k] \in Buffers  BY <1>1
<1>4. /\ SubSeq(stack[t], 1, Len(stack[t]) - 1) \in Seq(Buffers)
      /\ Len(SubSeq(stack[t], 1, Len(stack[t]) - 1)) =
           IF 1 <= Len(stack[t]) - 1 THEN Len(stack[t]) - 1 - 1 + 1 ELSE 0
      /\ \A k \in 1 .. Len(stack[t]) - 1 - 1 + 1 :
           SubSeq(stack[t], 1, Len(stack[t]) - 1)[k] = stack[t][1 + k - 1]
  BY <1>2, <1>3, SubSeqProperties
<1>5. stack[t][Len(stack[t])] \in Buffers  BY <1>1, <1>2
<1> QED BY <1>1, <1>2, <1>4, <1>5 DEF Top

\* Increments, and decrements that find something to take away, keep the types.
LEMMA TypeStepReference ==
  ASSUME TypeInv, DropsCounted, NEW t \in Threads,
         \/ \E b \in Buffers, u \in Threads : IncrementReferenceCount(t, b, u)
         \/ \E b \in Buffers : DecrementReferenceCount(t, b)
         \/ ReferenceStep(t)
  PROVE  TypeInv'
<1> USE DEF TypeInv, TypeOK, buffer, counts, events, pool
<1>0. LocalsAt(t)  BY DEF LocalsOK
<1>1. ASSUME NEW b \in Buffers, NEW u \in Threads, IncrementReferenceCount(t, b, u)
      PROVE  TypeInv'
  <2>1. BufferTypes' /\ PoolTypes' /\ Home'
    BY <1>1 DEF IncrementReferenceCount, BufferTypes, PoolTypes, Home
  <2>2. ThreadTypes'  BY <1>1 DEF IncrementReferenceCount, ThreadTypes
  <2>3. u # NULL  BY PoolsAssumption
  <2>4. LocalsAt(t)' /\ OthersStay(t)
    BY <1>0, <1>1, <2>3 DEF IncrementReferenceCount, ThreadTypes, LocalsAt, Getting, Releasing,
                      Incrementing, Decrementing, OthersStay
  <2> QED BY <2>1, <2>2, <2>4, LocalsMove
<1>2. ASSUME NEW b \in Buffers, DecrementReferenceCount(t, b) PROVE TypeInv'
  <2>1. BufferTypes' /\ PoolTypes' /\ Home'
    BY <1>2 DEF DecrementReferenceCount, BufferTypes, PoolTypes, Home
  <2>2. ThreadTypes'  BY <1>2 DEF DecrementReferenceCount, ThreadTypes
  <2>3. LocalsAt(t)' /\ OthersStay(t)
    BY <1>0, <1>2 DEF DecrementReferenceCount, ThreadTypes, LocalsAt, Getting, Releasing,
                      Incrementing, Decrementing, OthersStay
  <2> QED BY <2>1, <2>2, <2>3, LocalsMove
<1>3. ASSUME IncrementPool(t) PROVE TypeInv'
  <2>1. cur[t] \in Buffers  BY <1>0, <1>3 DEF IncrementPool, LocalsAt, Incrementing, ThreadTypes
  <2>2. BufferTypes' /\ PoolTypes' /\ Home'
    BY <1>3, <2>1, PoolsAssumption DEF IncrementPool, BufferTypes, PoolTypes, Home
  <2>3. ThreadTypes' /\ LocalsAt(t)' /\ OthersStay(t)
    BY <1>0, <1>3 DEF IncrementPool, ThreadTypes, LocalsAt, Getting, Releasing,
                      Incrementing, Decrementing, OthersStay
  <2> QED BY <2>2, <2>3, LocalsMove
<1>4. ASSUME IncrementBuffer(t) PROVE TypeInv'
  <2>1. cur[t] \in Buffers  BY <1>0, <1>4 DEF IncrementBuffer, LocalsAt, Incrementing, ThreadTypes
  <2>2. BufferTypes'  BY <1>4, <2>1 DEF IncrementBuffer, BufferTypes
  <2>3. PoolTypes' /\ Home'  BY <1>4 DEF IncrementBuffer, PoolTypes, Home
  <2>4. /\ refs' \in [Threads -> SUBSET Buffers]
        /\ \A u \in Threads : refs[u] \subseteq refs'[u]
    BY <1>4, <2>1 DEF IncrementBuffer, ThreadTypes
  <2>5. ThreadTypes'  BY <1>4, <2>4 DEF IncrementBuffer, ThreadTypes
  <2>6. LocalsAt(t)' /\ OthersStay(t)
    BY <1>0, <1>4, <2>4 DEF IncrementBuffer, ThreadTypes, LocalsAt, Getting, Releasing,
                      Incrementing, Decrementing, OthersStay
  <2> QED BY <2>2, <2>3, <2>5, <2>6, LocalsMove
<1>5. ASSUME DecrementPool(t) PROVE TypeInv'
  <2>1. cur[t] \in Buffers  BY <1>0, <1>5 DEF DecrementPool, LocalsAt, Decrementing
  <2>2. BufferTypes' /\ PoolTypes' /\ Home'
    BY <1>5, <2>1, PoolsAssumption DEF DecrementPool, BufferTypes, PoolTypes, Home
  <2>3. ThreadTypes' /\ LocalsAt(t)' /\ OthersStay(t)
    BY <1>0, <1>5 DEF DecrementPool, ThreadTypes, LocalsAt, Getting, Releasing,
                      Incrementing, Decrementing, OthersStay
  <2> QED BY <2>2, <2>3, LocalsMove
<1>6. ASSUME DecrementBuffer(t) PROVE TypeInv'
  <2>1. cur[t] \in Buffers /\ Decrementing(t)
    BY <1>0, <1>6 DEF DecrementBuffer, LocalsAt, Decrementing
  <2>2. ReferenceCount[cur[t]] \in Nat \ {0}  BY <2>1 DEF BufferTypes, DropsCounted
  <2>3. BufferTypes'  BY <1>6, <2>1, <2>2 DEF DecrementBuffer, BufferTypes
  <2>4. PoolTypes' /\ Home'  BY <1>6 DEF DecrementBuffer, PoolTypes, Home
  <2>5. CASE ReferenceCount[cur[t]] = 1
    <3>1. /\ stack' = [stack EXCEPT ![t] = Append(@, cur[t])]
          /\ pc[t] = "decrementbuffer" /\ pc' = [pc EXCEPT ![t] = "release"]
          /\ cur' = [cur EXCEPT ![t] = NULL] /\ UNCHANGED <<aux, getting, refs>>
      BY <1>6, <2>5 DEF DecrementBuffer
    <3>2. stack[t] \in Seq(Buffers)  BY DEF ThreadTypes
    <3>3. Append(stack[t], cur[t]) \in Seq(Buffers) /\ Append(stack[t], cur[t]) # <<>>
      BY <2>1, <3>2, AppendProperties
    <3>4. ThreadTypes'  BY <3>1, <3>3 DEF ThreadTypes
    <3>5. LocalsAt(t)' /\ OthersStay(t)
      BY <1>0, <3>1, <3>3 DEF ThreadTypes, LocalsAt, Getting, Releasing, Incrementing,
                              Decrementing, OthersStay
    <3> QED BY <2>3, <2>4, <3>4, <3>5, LocalsMove
  <2>6. CASE ReferenceCount[cur[t]] # 1
    <3>1. /\ stack' = [stack EXCEPT ![t] = stack[t]]
          /\ pc[t] = "decrementbuffer" /\ pc' = [pc EXCEPT ![t] = After(t, stack[t])]
          /\ cur' = [cur EXCEPT ![t] = NULL] /\ UNCHANGED <<aux, getting, refs>>
      BY <1>6, <2>6 DEF DecrementBuffer, Return
    <3>2. ThreadTypes'  BY <3>1, AfterPlaces DEF ThreadTypes
    <3>3. LocalsAt(t)' /\ OthersStay(t)
      BY <1>0, <3>1, AfterPlaces
         DEF ThreadTypes, LocalsAt, Getting, Releasing, Incrementing, Decrementing, OthersStay
    <3> QED BY <2>3, <2>4, <3>2, <3>3, LocalsMove
  <2> QED BY <2>5, <2>6
<1> QED BY <1>1, <1>2, <1>3, <1>4, <1>5, <1>6 DEF ReferenceStep

\* So do attachments, and what detaches a buffer.
DetachEffect(t, h, i) ==
  /\ AttachedBuffers' = [AttachedBuffers EXCEPT ![h][i] = NULL]
  /\ pc' = [pc EXCEPT ![t] = "decrementpool"]
  /\ cur' = [cur EXCEPT ![t] = AttachedBuffers[h][i]]
  /\ UNCHANGED <<ReferenceCount, BufferLock, allocated, lost, pool, aux, getting, stack, refs>>

\* Taking an attachment out of its slot keeps the types, whoever does it.
LEMMA TypeDetach ==
  ASSUME TypeInv, NEW t \in Threads, NEW h \in Buffers, NEW i \in Slots,
         pc[t] \in {"idle", "slots", "tidyup"}, AttachedBuffers[h][i] \in Buffers,
         DetachEffect(t, h, i)
  PROVE  TypeInv'
<1> USE DEF TypeInv, TypeOK, DetachEffect, counts, events, pool
<1>0. LocalsAt(t)  BY DEF LocalsOK
<1>1. BufferTypes'  BY DEF BufferTypes
<1>2. PoolTypes' /\ Home'  BY DEF PoolTypes, Home
<1>3. ThreadTypes'  BY DEF ThreadTypes
<1>4. LocalsAt(t)' /\ OthersStay(t)
  BY <1>0 DEF ThreadTypes, LocalsAt, Getting, Releasing, Incrementing, Decrementing, OthersStay
<1> QED BY <1>1, <1>2, <1>3, <1>4, LocalsMove

\* The slot that AttachBuffer fills, and those that the detaching steps clear.
AttachEffect(t, h, b, i) ==
  /\ pc[t] = "idle" /\ h \in refs[t] /\ b \in refs[t]
  /\ AttachedBuffers[h][i] = NULL
  /\ AttachedBuffers' = [AttachedBuffers EXCEPT ![h][i] = b]
  /\ pc' = [pc EXCEPT ![t] = "incrementpool"]
  /\ cur' = [cur EXCEPT ![t] = b] /\ aux' = [aux EXCEPT ![t] = <<h, i>>]
  /\ UNCHANGED <<ReferenceCount, BufferLock, allocated, lost, pool, getting, stack, refs>>

\* AttachBuffer fills a slot of its own choice, the first empty one.
LEMMA AttachOutcome ==
  ASSUME NEW t \in Threads, NEW h \in Buffers, NEW b \in Buffers, AttachBuffer(t, h, b)
  PROVE  \E i \in Slots : AttachEffect(t, h, b, i)
<1>1. EmptySlots(h) \in SUBSET Slots /\ EmptySlots(h) # {}
  BY DEF AttachBuffer, EmptySlots
<1>2. First(EmptySlots(h)) \in EmptySlots(h)  BY <1>1, FirstIn
<1>3. AttachEffect(t, h, b, First(EmptySlots(h)))
  BY <1>2 DEF AttachBuffer, AttachEffect, MayAttachNow, EmptySlots
<1> QED BY <1>1, <1>2, <1>3

\* DetachBuffer empties the first slot that holds the buffer.
LEMMA DetachOutcome ==
  ASSUME NEW t \in Threads, NEW h \in Buffers, NEW b \in Buffers, DetachBuffer(t, h, b)
  PROVE  \E i \in Slots : AttachedBuffers[h][i] = b /\ Attached(h, i) /\ DetachEffect(t, h, i)
<1> DEFINE is == {i \in Slots : AttachedBuffers[h][i] = b}
<1>1. is \in SUBSET Slots /\ is # {}  BY DEF DetachBuffer
<1>2. First(is) \in is  BY <1>1, FirstIn
<1>3. Attached(h, First(is)) /\ DetachEffect(t, h, First(is))
  BY DEF DetachBuffer, Detach, DetachEffect
<1> QED BY <1>2, <1>3

\* ReleaseBuffer empties a slot of the buffer it is releasing.
LEMMA ReleaseOutcome ==
  ASSUME BufferTypes, ThreadTypes, NEW t \in Threads, ReleaseAttached(t), stack[t] # <<>>
  PROVE  \E i \in Slots : /\ AttachedBuffers[Top(t)][i] \in Buffers
                          /\ DetachEffect(t, Top(t), i)
<1> DEFINE is == Slots \ EmptySlots(Top(t))
<1>1. is \in SUBSET Slots /\ is # {}  BY DEF ReleaseAttached, EmptySlots
<1>2. First(is) \in is  BY <1>1, FirstIn
<1>3. Top(t) \in Buffers  BY TopIn
<1>4. AttachedBuffers[Top(t)][First(is)] \in Buffers
  BY <1>2, <1>3 DEF BufferTypes, EmptySlots
<1>5. DetachEffect(t, Top(t), First(is))  BY DEF ReleaseAttached, DetachEffect
<1> QED BY <1>2, <1>4, <1>5

\* TidyUp empties a slot of a buffer of a listed pool.
LEMMA TidyUpOutcome ==
  ASSUME NEW t \in Threads, NEW p \in Pools, TidyUpDetach(t, p)
  PROVE  \E h \in Buffers, i \in Slots :
           /\ PoolOf[h] \in listed /\ AttachedBuffers[h][i] \in Buffers
           /\ DetachEffect(t, h, i)
<1>1. PICK hi \in Buffers \X Slots :
        /\ PoolOf[hi[1]] \in listed /\ AttachedBuffers[hi[1]][hi[2]] \in PoolBuffers(p)
        /\ Detach(t, hi[1], hi[2])
  BY DEF TidyUpDetach, Holders
<1>2. DetachEffect(t, hi[1], hi[2])  BY <1>1 DEF Detach, DetachEffect
<1>3. hi[1] \in Buffers /\ hi[2] \in Slots  OBVIOUS
<1>4. AttachedBuffers[hi[1]][hi[2]] \in Buffers  BY <1>1 DEF PoolBuffers
<1> QED BY <1>1, <1>2, <1>3, <1>4

\* AttachBuffer, DetachBuffer and the detachments of ReleaseBuffer and TidyUp keep
\* the types.
LEMMA TypeStepAttach ==
  ASSUME TypeInv, NEW t \in Threads,
         \/ \E h, b \in Buffers : AttachBuffer(t, h, b) \/ DetachBuffer(t, h, b)
         \/ ReleaseAttached(t)
         \/ \E p \in Pools : TidyUpDetach(t, p)
  PROVE  TypeInv'
<1> USE DEF TypeInv, TypeOK
<1>0. LocalsAt(t)  BY DEF LocalsOK
<1>1. ASSUME NEW h \in Buffers, NEW b \in Buffers, AttachBuffer(t, h, b) PROVE TypeInv'
  <2>1. PICK i \in Slots : AttachEffect(t, h, b, i)  BY <1>1, AttachOutcome
  <2> USE <2>1 DEF AttachEffect, counts, events, pool
  <2>2. BufferTypes'  BY DEF BufferTypes
  <2>3. PoolTypes' /\ Home'  BY DEF PoolTypes, Home
  <2>4. ThreadTypes'  BY DEF ThreadTypes
  <2>5. <<h, i>> # NULL  BY PoolsAssumption
  <2>6. LocalsAt(t)' /\ OthersStay(t)
    BY <1>0, <2>5 DEF ThreadTypes, LocalsAt, Getting, Releasing, Incrementing, Decrementing,
                      OthersStay
  <2> QED BY <2>2, <2>3, <2>4, <2>6, LocalsMove
<1>2. ASSUME NEW h \in Buffers, NEW b \in Buffers, DetachBuffer(t, h, b) PROVE TypeInv'
  <2>1. pc[t] = "idle"  BY <1>2 DEF DetachBuffer
  <2> QED BY <1>2, <2>1, DetachOutcome, TypeDetach
<1>3. ASSUME ReleaseAttached(t) PROVE TypeInv'
  <2>1. pc[t] = "slots"  BY <1>3 DEF ReleaseAttached
  <2>2. stack[t] # <<>>  BY <1>0, <2>1 DEF LocalsAt, Releasing
  <2>3. Top(t) \in Buffers  BY <2>2, TopIn
  <2> QED BY <1>3, <2>1, <2>2, <2>3, ReleaseOutcome, TypeDetach
<1>4. ASSUME NEW p \in Pools, TidyUpDetach(t, p) PROVE TypeInv'
  <2>1. pc[t] = "tidyup"  BY <1>4 DEF TidyUpDetach
  <2> QED BY <1>4, <2>1, TidyUpOutcome, TypeDetach
<1> QED BY <1>1, <1>2, <1>3, <1>4

\* The last step of a release.
ReleaseEffect(t, b, p) ==
  /\ pc[t] = "insert"
  /\ FreeBuffer' = [FreeBuffer EXCEPT ![p] = Append(@, b)]
  /\ stack' = [stack EXCEPT ![t] = SubSeq(stack[t], 1, Len(stack[t]) - 1)]
  /\ pc' = [pc EXCEPT ![t] = After(t, SubSeq(stack[t], 1, Len(stack[t]) - 1))]
  /\ cur' = [cur EXCEPT ![t] = NULL]
  /\ UNCHANGED <<buffer, listed, destroyer, aux, getting, refs>>

\* ReleaseInsert gives the buffer on top of the stack back to its own pool.
LEMMA InsertOutcome ==
  ASSUME NEW t, ReleaseInsert(t) PROVE ReleaseEffect(t, Top(t), PoolOf[Top(t)])
BY DEF ReleaseInsert, ReleaseInto, Return, ReleaseEffect

\* The other steps of ReleaseBuffer keep the types.
LEMMA TypeStepRelease ==
  ASSUME TypeInv, NEW t \in Threads,
         ReleaseLock(t) \/ ReleaseUnlock(t) \/ ReleaseMemory(t) \/ ReleaseInsert(t)
  PROVE  TypeInv'
<1> USE DEF TypeInv, TypeOK, counts, events, pool
<1>0. LocalsAt(t)  BY DEF LocalsOK
<1>1. pc[t] \in {"release", "slots", "deallocate", "insert"}
  BY DEF ReleaseLock, ReleaseUnlock, ReleaseMemory, ReleaseInsert, ReleaseInto
<1>2. stack[t] # <<>>  BY <1>0, <1>1 DEF LocalsAt, Releasing
<1>3. Top(t) \in Buffers  BY <1>2, TopIn
<1>4. CASE ReleaseLock(t) \/ ReleaseUnlock(t) \/ ReleaseMemory(t)
  <2>1. /\ ReferenceCount' = ReferenceCount /\ AttachedBuffers' = AttachedBuffers
        /\ \/ BufferLock' = BufferLock
           \/ BufferLock' = [BufferLock EXCEPT ![Top(t)] = t]
           \/ BufferLock' = [BufferLock EXCEPT ![Top(t)] = NULL]
        /\ allocated' = allocated \/ allocated' = allocated \ {Top(t)}
        /\ lost' = lost
    BY <1>4 DEF ReleaseLock, ReleaseUnlock, ReleaseMemory
  <2>2. /\ \E l \in {"slots", "deallocate", "insert"} : pc' = [pc EXCEPT ![t] = l]
        /\ UNCHANGED <<pool, cur, aux, getting, stack, refs>>
    BY <1>4 DEF ReleaseLock, ReleaseUnlock, ReleaseMemory
  <2>3. BufferTypes'  BY <1>3, <2>1 DEF BufferTypes
  <2>4. PoolTypes' /\ Home'  BY <2>2 DEF PoolTypes, Home
  <2>5. ThreadTypes'  BY <2>2 DEF ThreadTypes
  <2>6. LocalsAt(t)' /\ OthersStay(t)
    BY <1>0, <1>1, <2>2 DEF ThreadTypes, LocalsAt, Getting, Releasing, Incrementing, Decrementing,
                            OthersStay
  <2> QED BY <2>3, <2>4, <2>5, <2>6, LocalsMove
<1>5. CASE ReleaseInsert(t)
  <2> DEFINE p == PoolOf[Top(t)]
             s == SubSeq(stack[t], 1, Len(stack[t]) - 1)
  <2>1. p \in Pools  BY <1>3, PoolsAssumption
  <2>2. ReleaseEffect(t, Top(t), p)  BY <1>5, InsertOutcome
  <2>3. s \in Seq(Buffers)  BY <1>2, TopIn
  <2>4. BufferTypes'  BY <2>2 DEF ReleaseEffect, buffer, BufferTypes
  <2>5. /\ FreeBuffer[p] \in Seq(Buffers) /\ Append(FreeBuffer[p], Top(t)) \in Seq(Buffers)
        /\ Len(Append(FreeBuffer[p], Top(t))) = Len(FreeBuffer[p]) + 1
        /\ \A k \in 1 .. Len(FreeBuffer[p]) : Append(FreeBuffer[p], Top(t))[k] = FreeBuffer[p][k]
        /\ Append(FreeBuffer[p], Top(t))[Len(FreeBuffer[p]) + 1] = Top(t)
    <3>1. FreeBuffer[p] \in Seq(Buffers)  BY <2>1 DEF PoolTypes
    <3> QED BY <1>3, <3>1, AppendProperties
  <2>6. /\ FreeBuffer' \in [Pools -> Seq(Buffers)]
        /\ BufferReleaseSignal' \in [Pools -> BOOLEAN]
        /\ CountOfReferencedBuffers' \in [Pools -> Int]
        /\ UNCHANGED <<PoolReferenceCount, BufferReleaseSignalWaitedOn, AbortGetBuffer>>
    <3>1. BufferReleaseSignal' = [BufferReleaseSignal EXCEPT ![p] = TRUE]
      BY <1>5, <2>1 DEF ReleaseInsert, ReleaseInto, PoolTypes
    <3>2. CountOfReferencedBuffers' = [CountOfReferencedBuffers EXCEPT ![p] = @ - 1]
      BY <1>5 DEF ReleaseInsert, ReleaseInto
    <3>3. UNCHANGED <<PoolReferenceCount, BufferReleaseSignalWaitedOn, AbortGetBuffer>>
      BY <1>5 DEF ReleaseInsert, ReleaseInto
    <3>4. FreeBuffer' = [FreeBuffer EXCEPT ![p] = Append(FreeBuffer[p], Top(t))]
      BY <2>2, <2>1 DEF ReleaseEffect, PoolTypes
    <3> HIDE DEF p
    <3> QED BY <2>1, <2>5, <3>1, <3>2, <3>3, <3>4 DEF PoolTypes
  <2>7. PoolTypes'  BY <2>2, <2>6 DEF ReleaseEffect, PoolTypes
  <2>8. Home'
    <3>1. FreeBuffer' = [FreeBuffer EXCEPT ![p] = Append(FreeBuffer[p], Top(t))]
      BY <2>2, <2>1 DEF ReleaseEffect, PoolTypes
    <3>2. ASSUME NEW k \in DOMAIN Append(FreeBuffer[p], Top(t))
          PROVE  PoolOf[Append(FreeBuffer[p], Top(t))[k]] = p
      <4>1. CASE k \in 1 .. Len(FreeBuffer[p])
        <5>1. k \in DOMAIN FreeBuffer[p]  BY <4>1, <2>5
        <5> QED BY <4>1, <5>1, <2>1, <2>5 DEF Home
      <4>2. CASE k = Len(FreeBuffer[p]) + 1  BY <4>2, <2>5
      <4> QED BY <4>1, <4>2, <2>5
    <3> HIDE DEF p
    <3> QED BY <2>1, <3>1, <3>2 DEF Home, PoolTypes
  <2>9. ThreadTypes'
    BY <2>2, <2>3, AfterPlaces DEF ReleaseEffect, ThreadTypes
  <2>10. LocalsAt(t)' /\ OthersStay(t)
    BY <1>0, <2>2, <2>3, AfterPlaces
       DEF ReleaseEffect, ThreadTypes, LocalsAt, Getting, Releasing, Incrementing, Decrementing,
           OthersStay
  <2> QED BY <2>4, <2>7, <2>8, <2>9, <2>10, LocalsMove
<1> QED BY <1>4, <1>5

\* Abort and the destruction of a pool keep the types.
LEMMA TypeStepPool ==
  ASSUME TypeInv,
         \/ \E t \in Threads, p \in Pools : DestroyPool(t, p) \/ TidyUpEnd(t, p)
         \/ \E p \in Pools : Abort(p)
  PROVE  TypeInv'
<1> USE DEF TypeInv, TypeOK, buffer, counts, events
<1>1. ASSUME NEW t \in Threads, NEW p \in Pools, DestroyPool(t, p) PROVE TypeInv'
  <2>0. LocalsAt(t)  BY DEF LocalsOK
  <2>1. BufferTypes' /\ ThreadTypes' /\ Home'
    BY <1>1 DEF DestroyPool, BufferTypes, ThreadTypes, Home
  <2>2. /\ listed' \subseteq Pools
        /\ destroyer' \in [Pools -> Threads \cup {NULL}]
        /\ UNCHANGED <<FreeBuffer, counts, BufferReleaseSignalWaitedOn>>
    BY <1>1 DEF DestroyPool, PoolTypes
  <2>3. AbortGetBuffer' \in [Pools -> BOOLEAN] /\ BufferReleaseSignal' \in [Pools -> BOOLEAN]
    <3> DEFINE w == BufferReleaseSignalWaitedOn[p]
    <3>1. AbortGetBuffer' = [AbortGetBuffer EXCEPT ![p] = AbortGetBuffer[p] \/ w]
      BY <1>1 DEF DestroyPool, PoolTypes
    <3>2. BufferReleaseSignal' = [BufferReleaseSignal EXCEPT ![p] = BufferReleaseSignal[p] \/ w]
      BY <1>1 DEF DestroyPool, PoolTypes
    <3>3. (AbortGetBuffer[p] \/ w) \in BOOLEAN /\ (BufferReleaseSignal[p] \/ w) \in BOOLEAN
      OBVIOUS
    <3> QED BY <3>1, <3>2, <3>3 DEF PoolTypes
  <2>4. PoolTypes'  BY <2>2, <2>3 DEF PoolTypes
  <2>5. LocalsAt(t)' /\ OthersStay(t)
    BY <2>0, <1>1 DEF DestroyPool, ThreadTypes, LocalsAt, Getting, Releasing, Incrementing,
                      Decrementing, OthersStay
  <2> QED BY <2>1, <2>4, <2>5, LocalsMove
<1>2. ASSUME NEW t \in Threads, NEW p \in Pools, TidyUpEnd(t, p) PROVE TypeInv'
  <2>0. LocalsAt(t)  BY DEF LocalsOK
  <2>1. BufferTypes' /\ ThreadTypes'
    BY <1>2 DEF TidyUpEnd, BufferTypes, ThreadTypes
  <2>2. FreeBuffer' = [FreeBuffer EXCEPT ![p] = <<>>] /\ <<>> \in Seq(Buffers)
    BY <1>2 DEF TidyUpEnd
  <2>3. PoolTypes' /\ Home'
    BY <1>2, <2>2 DEF TidyUpEnd, PoolTypes, Home
  <2>4. LocalsAt(t)' /\ OthersStay(t)
    BY <2>0, <1>2 DEF TidyUpEnd, ThreadTypes, LocalsAt, Getting, Releasing, Incrementing,
                      Decrementing, OthersStay
  <2> QED BY <2>1, <2>3, <2>4, LocalsMove
<1>3. ASSUME NEW p \in Pools, Abort(p) PROVE TypeInv'
  <2>1. BufferTypes' /\ PoolTypes' /\ ThreadTypes' /\ Home'
    BY <1>3 DEF Abort, thread, BufferTypes, PoolTypes, ThreadTypes, Home
  <2>2. LocalsOK'
    BY <1>3 DEF Abort, thread, LocalsOK, LocalsAt, Getting, Releasing, Incrementing, Decrementing
  <2> QED BY <2>1, <2>2
<1> QED BY <1>1, <1>2, <1>3

\* The pools as they are created have the types.
LEMMA TypeInit == Init => TypeInv
<1> SUFFICES ASSUME Init PROVE TypeInv  OBVIOUS
<1>1. BufferTypes  BY DEF Init, BufferTypes
<1>2. ASSUME NEW p \in Pools
      PROVE  /\ FreeBuffer[p] \in Seq(Buffers)
             /\ \A k \in DOMAIN FreeBuffer[p] : PoolOf[FreeBuffer[p][k]] = p
  <2>1. FreeBuffer[p] \in Orders(p)  BY DEF Init
  <2>2. PoolBuffers(p) \in SUBSET Buffers  BY DEF PoolBuffers
  <2>3. Cardinality(PoolBuffers(p)) \in Nat
    BY <2>2, PoolsAssumption, FS_Subset, FS_CardinalityType
  <2>4. FreeBuffer[p] \in [1 .. Cardinality(PoolBuffers(p)) -> PoolBuffers(p)]
    BY <2>1 DEF Orders
  <2>5. FreeBuffer[p] \in Seq(Buffers)
    BY <2>2, <2>3, <2>4, IsASeq
  <2> QED BY <2>4, <2>5 DEF PoolBuffers
<1>3. PoolTypes /\ Home
  <2>1. DOMAIN FreeBuffer = Pools /\ FreeBuffer = [p \in Pools |-> FreeBuffer[p]]
    BY DEF Init
  <2>2. FreeBuffer \in [Pools -> Seq(Buffers)]  BY <1>2, <2>1
  <2> QED BY <1>2, <2>2 DEF Init, PoolTypes, Home
<1>4. <<>> \in Seq(Buffers)  OBVIOUS
<1>5. ThreadTypes  BY <1>4, NoGetType DEF Init, ThreadTypes
<1>6. LocalsOK
  BY DEF Init, LocalsOK, LocalsAt, Getting, Releasing, Incrementing, Decrementing
<1> QED BY <1>1, <1>3, <1>5, <1>6 DEF TypeInv, TypeOK

---------------------------------------------------------------------------
(* The reference counts.                                                   *)

\* A reference on its way: nobody else is making it, it is not there yet, and
\* the slot that it is made for names the buffer.
MakingOK ==
  \A t \in Threads : Incrementing(t) =>
    /\ \A v \in Threads : Incrementing(v) /\ cur[v] = cur[t] /\ aux[v] = aux[t] => v = t
    /\ aux[t] \in Threads => cur[t] \notin refs[aux[t]]
    /\ \A h \in Buffers, i \in Slots :
         aux[t] = <<h, i>> => h \in refs[t] /\ AttachedBuffers[h][i] = cur[t]

\* A buffer on its way out of GetBuffer has no other reference.
FreshOK == \A t \in Threads : pc[t] = "count" => ReferenceCount[cur[t]] = 1

ReferencesInv == ReferencesCounted /\ MakingOK /\ FreshOK

\* Two elements make a cardinality of at least two, and so on.
LEMMA CardinalityBounds ==
  ASSUME NEW S, IsFiniteSet(S)
  PROVE  /\ Cardinality(S) \in Nat
         /\ S # {} => Cardinality(S) >= 1
         /\ S = {} => Cardinality(S) = 0
         /\ \A x : x \notin S => Cardinality(S \cup {x}) = Cardinality(S) + 1
         /\ \A x : x \in S => Cardinality(S \ {x}) = Cardinality(S) - 1
<1>1. Cardinality(S) \in Nat  BY FS_CardinalityType
<1>2. Cardinality(S) = 0 <=> S = {}  BY FS_EmptySet
<1>3. ASSUME NEW x, x \notin S PROVE Cardinality(S \cup {x}) = Cardinality(S) + 1
  BY <1>3, FS_AddElement
<1>4. ASSUME NEW x, x \in S PROVE Cardinality(S \ {x}) = Cardinality(S) - 1
  BY <1>4, FS_RemoveElement
<1> QED BY <1>1, <1>2, <1>3, <1>4

\* What refers to a buffer is finite.
LEMMA UsesFinite ==
  ASSUME NEW b
  PROVE  /\ IsFiniteSet(HeldBy(b)) /\ IsFiniteSet(AttachedTo(b))
         /\ IsFiniteSet(BeingDropped(b)) /\ IsFiniteSet(BeingMade(b))
<1>1. IsFiniteSet(Threads) /\ IsFiniteSet(Buffers)  BY PoolsAssumption
<1>2. IsFiniteSet(Slots)  BY PoolsAssumption, FS_Interval DEF Slots
<1>3. IsFiniteSet(Buffers \X Slots)  BY <1>1, <1>2, FS_Product
<1>4. /\ HeldBy(b) \in SUBSET Threads /\ AttachedTo(b) \in SUBSET (Buffers \X Slots)
      /\ BeingDropped(b) \in SUBSET Threads /\ BeingMade(b) \in SUBSET Threads
  BY DEF HeldBy, AttachedTo, BeingDropped, BeingMade
<1> QED BY <1>1, <1>3, <1>4, FS_Subset

\* What refers to a buffer shows in its count.
LEMMA UsesCounted ==
  ASSUME TypeInv, ReferencesCounted, NEW b \in Buffers
  PROVE  /\ HeldBy(b) # {} => ReferenceCount[b] > 0
         /\ AttachedTo(b) # {} => ReferenceCount[b] > 0
         /\ BeingDropped(b) # {} => ReferenceCount[b] > 0
         /\ BeingMade(b) # {} => ReferenceCount[b] > 0
         /\ BeingMade(b) # {} /\ ReferenceCount[b] = 1 =>
              HeldBy(b) = {} /\ AttachedTo(b) = {} /\ BeingDropped(b) = {}
         /\ ReferenceCount[b] \in Nat
<1>1. ReferenceCount[b] = Cardinality(HeldBy(b)) + Cardinality(AttachedTo(b))
                          + Cardinality(BeingDropped(b)) + Cardinality(BeingMade(b))
  BY DEF ReferencesCounted
<1>2. /\ Cardinality(HeldBy(b)) \in Nat /\ (HeldBy(b) # {} => Cardinality(HeldBy(b)) >= 1)
      /\ Cardinality(AttachedTo(b)) \in Nat
      /\ (AttachedTo(b) # {} => Cardinality(AttachedTo(b)) >= 1)
      /\ Cardinality(BeingDropped(b)) \in Nat
      /\ (BeingDropped(b) # {} => Cardinality(BeingDropped(b)) >= 1)
      /\ Cardinality(BeingMade(b)) \in Nat
      /\ (BeingMade(b) # {} => Cardinality(BeingMade(b)) >= 1)
  BY UsesFinite, CardinalityBounds
<1> HIDE DEF HeldBy, AttachedTo, BeingDropped, BeingMade
<1> QED BY <1>1, <1>2

\* The same for one thread or one slot.
LEMMA UserCounted ==
  ASSUME TypeInv, ReferencesInv, NEW b \in Buffers
  PROVE  /\ \A t \in Threads : b \in refs[t] => ReferenceCount[b] > 0
         /\ \A t \in Threads : Decrementing(t) /\ cur[t] = b => ReferenceCount[b] > 0
         /\ \A t \in Threads : Incrementing(t) /\ cur[t] = b => ReferenceCount[b] > 0
         /\ \A t \in Threads : pc[t] = "count" /\ cur[t] = b =>
              /\ ReferenceCount[b] = 1
              /\ \A u \in Threads : /\ b \notin refs[u]
                                    /\ ~(Decrementing(u) /\ cur[u] = b)
                                    /\ ~(Incrementing(u) /\ cur[u] = b)
         /\ \A h \in Buffers, i \in Slots : AttachedBuffers[h][i] = b => ReferenceCount[b] > 0
<1>1. /\ HeldBy(b) # {} => ReferenceCount[b] > 0
      /\ AttachedTo(b) # {} => ReferenceCount[b] > 0
      /\ BeingDropped(b) # {} => ReferenceCount[b] > 0
      /\ BeingMade(b) # {} => ReferenceCount[b] > 0
      /\ BeingMade(b) # {} /\ ReferenceCount[b] = 1 =>
           HeldBy(b) = {} /\ AttachedTo(b) = {} /\ BeingDropped(b) = {}
  BY UsesCounted DEF ReferencesInv
<1>2. \A t \in Threads : b \in refs[t] => ReferenceCount[b] > 0
  BY <1>1 DEF HeldBy
<1>3. \A t \in Threads : Decrementing(t) /\ cur[t] = b => ReferenceCount[b] > 0
  BY <1>1 DEF BeingDropped
<1>4. \A t \in Threads : Incrementing(t) => cur[t] \in refs[t]
  BY DEF TypeInv, LocalsOK, LocalsAt
<1>5. \A t \in Threads : Incrementing(t) /\ cur[t] = b => ReferenceCount[b] > 0
  BY <1>2, <1>4
<1>6. ASSUME NEW t \in Threads, pc[t] = "count", cur[t] = b
      PROVE  /\ ReferenceCount[b] = 1
             /\ \A u \in Threads : /\ b \notin refs[u]
                                   /\ ~(Decrementing(u) /\ cur[u] = b)
                                   /\ ~(Incrementing(u) /\ cur[u] = b)
  <2>1. ReferenceCount[b] = 1  BY <1>6 DEF ReferencesInv, FreshOK
  <2>2. t \in BeingMade(b)  BY <1>6 DEF BeingMade
  <2>3. HeldBy(b) = {} /\ BeingDropped(b) = {}  BY <1>1, <2>1, <2>2
  <2>4. \A u \in Threads : b \notin refs[u] /\ ~(Decrementing(u) /\ cur[u] = b)
    BY <2>3 DEF HeldBy, BeingDropped
  <2> QED BY <1>4, <2>1, <2>4
<1>7. ASSUME NEW h \in Buffers, NEW i \in Slots, AttachedBuffers[h][i] = b
      PROVE  ReferenceCount[b] > 0
  <2>1. b # NULL  BY PoolsAssumption
  <2>2. CASE Attached(h, i)
    <3>1. <<h, i>> \in AttachedTo(b)  BY <1>7, <2>2 DEF AttachedTo
    <3> QED BY <1>1, <3>1
  <2>3. CASE ~Attached(h, i)
    <3>1. PICK t \in Threads : Incrementing(t) /\ aux[t] = <<h, i>>
      BY <1>7, <2>1, <2>3 DEF Attached
    <3>2. cur[t] = b  BY <1>7, <3>1 DEF ReferencesInv, MakingOK
    <3> QED BY <1>5, <3>1, <3>2
  <2> QED BY <2>2, <2>3
<1> QED BY <1>2, <1>3, <1>5, <1>6, <1>7

\* A slot whose attachment is not counted yet.
Pending(h, i) == \E t \in Threads : Incrementing(t) /\ aux[t] = <<h, i>>

\* The pairs of AttachedTo, one by one.
LEMMA AttachedPairs ==
  ASSUME NEW b
  PROVE  \A h \in Buffers, i \in Slots :
           <<h, i>> \in AttachedTo(b) <=>
             AttachedBuffers[h][i] = b /\ AttachedBuffers[h][i] # NULL /\ ~Pending(h, i)
BY DEF AttachedTo, Attached, Pending

\* Sets of slots are equal when they have the same members.
LEMMA SamePairs ==
  ASSUME NEW S \in SUBSET (Buffers \X Slots), NEW T \in SUBSET (Buffers \X Slots),
         \A h \in Buffers, i \in Slots : <<h, i>> \in S <=> <<h, i>> \in T
  PROVE  S = T
OBVIOUS

\* The slots that name a buffer and are counted are the same after a step ...
LEMMA AttachedUnmoved ==
  ASSUME NEW b,
         \A h \in Buffers, i \in Slots :
           (AttachedBuffers[h][i] = b /\ AttachedBuffers[h][i] # NULL /\ ~Pending(h, i)) <=>
           (AttachedBuffers[h][i] = b /\ AttachedBuffers[h][i] # NULL /\ ~Pending(h, i))'
  PROVE  Cardinality(AttachedTo(b))' = Cardinality(AttachedTo(b))
<1>1. \A h \in Buffers, i \in Slots :
        <<h, i>> \in AttachedTo(b)' <=>
          (AttachedBuffers[h][i] = b /\ AttachedBuffers[h][i] # NULL /\ ~Pending(h, i))'
  BY DEF AttachedTo, Attached, Pending
<1>2. AttachedTo(b) \in SUBSET (Buffers \X Slots) /\ AttachedTo(b)' \in SUBSET (Buffers \X Slots)
  BY DEF AttachedTo
<1>3. \A h \in Buffers, i \in Slots : <<h, i>> \in AttachedTo(b)' <=> <<h, i>> \in AttachedTo(b)
  BY <1>1, AttachedPairs
<1> HIDE DEF AttachedTo
<1> QED BY <1>2, <1>3, SamePairs

\* ... one fewer ...
LEMMA AttachedLess ==
  ASSUME NEW b, NEW g \in Buffers, NEW j \in Slots,
         AttachedBuffers[g][j] = b, b # NULL, ~Pending(g, j),
         \A h \in Buffers, i \in Slots :
           (AttachedBuffers[h][i] = b /\ AttachedBuffers[h][i] # NULL /\ ~Pending(h, i))' <=>
           /\ AttachedBuffers[h][i] = b /\ AttachedBuffers[h][i] # NULL /\ ~Pending(h, i)
           /\ <<h, i>> # <<g, j>>
  PROVE  Cardinality(AttachedTo(b))' = Cardinality(AttachedTo(b)) - 1
<1>1. \A h \in Buffers, i \in Slots :
        <<h, i>> \in AttachedTo(b)' <=>
          (AttachedBuffers[h][i] = b /\ AttachedBuffers[h][i] # NULL /\ ~Pending(h, i))'
  BY DEF AttachedTo, Attached, Pending
<1>2. AttachedTo(b) \in SUBSET (Buffers \X Slots) /\ AttachedTo(b)' \in SUBSET (Buffers \X Slots)
  BY DEF AttachedTo
<1>3. ASSUME NEW h \in Buffers, NEW i \in Slots
      PROVE  <<h, i>> \in AttachedTo(b)' <=> <<h, i>> \in AttachedTo(b) \ {<<g, j>>}
  <2>1. <<h, i>> \in AttachedTo(b) <=>
          AttachedBuffers[h][i] = b /\ AttachedBuffers[h][i] # NULL /\ ~Pending(h, i)
    BY AttachedPairs
  <2>2. <<h, i>> \in AttachedTo(b)' <=> <<h, i>> \in AttachedTo(b) /\ <<h, i>> # <<g, j>>
    BY <1>1, <2>1
  <2> HIDE DEF AttachedTo
  <2> QED BY <2>2
<1>4. <<g, j>> \in AttachedTo(b)  BY AttachedPairs
<1> HIDE DEF AttachedTo
<1>5. AttachedTo(b)' = AttachedTo(b) \ {<<g, j>>}  BY <1>2, <1>3, SamePairs
<1> QED BY <1>4, <1>5, UsesFinite, CardinalityBounds

\* ... or one more.
LEMMA AttachedMore ==
  ASSUME NEW b, NEW g \in Buffers, NEW j \in Slots, Pending(g, j),
         \A h \in Buffers, i \in Slots :
           (AttachedBuffers[h][i] = b /\ AttachedBuffers[h][i] # NULL /\ ~Pending(h, i))' <=>
           \/ AttachedBuffers[h][i] = b /\ AttachedBuffers[h][i] # NULL /\ ~Pending(h, i)
           \/ <<h, i>> = <<g, j>>
  PROVE  Cardinality(AttachedTo(b))' = Cardinality(AttachedTo(b)) + 1
<1>1. \A h \in Buffers, i \in Slots :
        <<h, i>> \in AttachedTo(b)' <=>
          (AttachedBuffers[h][i] = b /\ AttachedBuffers[h][i] # NULL /\ ~Pending(h, i))'
  BY DEF AttachedTo, Attached, Pending
<1>2. AttachedTo(b) \in SUBSET (Buffers \X Slots) /\ AttachedTo(b)' \in SUBSET (Buffers \X Slots)
  BY DEF AttachedTo
<1>3. ASSUME NEW h \in Buffers, NEW i \in Slots
      PROVE  <<h, i>> \in AttachedTo(b)' <=> <<h, i>> \in AttachedTo(b) \cup {<<g, j>>}
  <2>1. <<h, i>> \in AttachedTo(b) <=>
          AttachedBuffers[h][i] = b /\ AttachedBuffers[h][i] # NULL /\ ~Pending(h, i)
    BY AttachedPairs
  <2>2. <<h, i>> \in AttachedTo(b)' <=> <<h, i>> \in AttachedTo(b) \/ <<h, i>> = <<g, j>>
    BY <1>1, <2>1
  <2> HIDE DEF AttachedTo
  <2> QED BY <2>2
<1>4. <<g, j>> \notin AttachedTo(b)  BY AttachedPairs
<1>5. <<g, j>> \in Buffers \X Slots  OBVIOUS
<1> HIDE DEF AttachedTo
<1>6. AttachedTo(b)' = AttachedTo(b) \cup {<<g, j>>}  BY <1>2, <1>3, <1>5, SamePairs
<1> QED BY <1>4, <1>6, UsesFinite, CardinalityBounds

\* A thread begins or ceases to refer to a buffer ...
LEMMA HeldMoves ==
  ASSUME NEW t \in Threads, NEW b, \A u \in Threads : u # t => (b \in refs'[u] <=> b \in refs[u])
  PROVE  /\ (b \in refs'[t] <=> b \in refs[t]) =>
              Cardinality(HeldBy(b))' = Cardinality(HeldBy(b))
         /\ b \in refs'[t] /\ b \notin refs[t] =>
              Cardinality(HeldBy(b))' = Cardinality(HeldBy(b)) + 1
         /\ b \notin refs'[t] /\ b \in refs[t] =>
              Cardinality(HeldBy(b))' = Cardinality(HeldBy(b)) - 1
<1>1. (b \in refs'[t] <=> b \in refs[t]) => HeldBy(b)' = HeldBy(b)
  BY DEF HeldBy
<1>2. b \in refs'[t] /\ b \notin refs[t] => t \notin HeldBy(b) /\ HeldBy(b)' = HeldBy(b) \cup {t}
  BY DEF HeldBy
<1>3. b \notin refs'[t] /\ b \in refs[t] => t \in HeldBy(b) /\ HeldBy(b)' = HeldBy(b) \ {t}
  BY DEF HeldBy
<1> HIDE DEF HeldBy
<1> QED BY <1>1, <1>2, <1>3, UsesFinite, CardinalityBounds

\* ... to drop one ...
LEMMA DroppedMoves ==
  ASSUME NEW t \in Threads, NEW b, \A u \in Threads : u # t => pc'[u] = pc[u] /\ cur'[u] = cur[u]
  PROVE  LET drops == Decrementing(t) /\ cur[t] = b
         IN  /\ (drops' <=> drops) =>
                  Cardinality(BeingDropped(b))' = Cardinality(BeingDropped(b))
             /\ drops' /\ ~drops =>
                  Cardinality(BeingDropped(b))' = Cardinality(BeingDropped(b)) + 1
             /\ ~drops' /\ drops =>
                  Cardinality(BeingDropped(b))' = Cardinality(BeingDropped(b)) - 1
<1> DEFINE drops == Decrementing(t) /\ cur[t] = b
<1>1. (drops' <=> drops) => BeingDropped(b)' = BeingDropped(b)
  BY DEF BeingDropped, Decrementing
<1>2. drops' /\ ~drops => t \notin BeingDropped(b) /\ BeingDropped(b)' = BeingDropped(b) \cup {t}
  BY DEF BeingDropped, Decrementing
<1>3. ~drops' /\ drops => t \in BeingDropped(b) /\ BeingDropped(b)' = BeingDropped(b) \ {t}
  BY DEF BeingDropped, Decrementing
<1> QED BY <1>1, <1>2, <1>3, UsesFinite, CardinalityBounds

\* ... or to make one in GetBuffer.
LEMMA MadeMoves ==
  ASSUME NEW t \in Threads, NEW b, \A u \in Threads : u # t => pc'[u] = pc[u] /\ cur'[u] = cur[u]
  PROVE  LET makes == pc[t] = "count" /\ cur[t] = b
         IN  /\ (makes' <=> makes) =>
                  Cardinality(BeingMade(b))' = Cardinality(BeingMade(b))
             /\ makes' /\ ~makes =>
                  Cardinality(BeingMade(b))' = Cardinality(BeingMade(b)) + 1
             /\ ~makes' /\ makes =>
                  Cardinality(BeingMade(b))' = Cardinality(BeingMade(b)) - 1
<1> DEFINE makes == pc[t] = "count" /\ cur[t] = b
<1>1. (makes' <=> makes) => BeingMade(b)' = BeingMade(b)
  BY DEF BeingMade
<1>2. makes' /\ ~makes => t \notin BeingMade(b) /\ BeingMade(b)' = BeingMade(b) \cup {t}
  BY DEF BeingMade
<1>3. ~makes' /\ makes => t \in BeingMade(b) /\ BeingMade(b)' = BeingMade(b) \ {t}
  BY DEF BeingMade
<1> QED BY <1>1, <1>2, <1>3, UsesFinite, CardinalityBounds

\* Every step changes the count of a buffer by what it adds to the four sets, or
\* takes away from them.
Counted(b) ==
  ReferenceCount[b] = Cardinality(HeldBy(b)) + Cardinality(AttachedTo(b))
                      + Cardinality(BeingDropped(b)) + Cardinality(BeingMade(b))

\* A reference count stays exact when it changes by what the four kinds of reference
\* change by together.
LEMMA CountedMoves ==
  ASSUME NEW b, Counted(b),
         NEW dh \in Int, Cardinality(HeldBy(b))' = Cardinality(HeldBy(b)) + dh,
         NEW da \in Int, Cardinality(AttachedTo(b))' = Cardinality(AttachedTo(b)) + da,
         NEW dd \in Int, Cardinality(BeingDropped(b))' = Cardinality(BeingDropped(b)) + dd,
         NEW dm \in Int, Cardinality(BeingMade(b))' = Cardinality(BeingMade(b)) + dm,
         ReferenceCount'[b] = ReferenceCount[b] + dh + da + dd + dm
  PROVE  Counted(b)'
<1>1. /\ Cardinality(HeldBy(b)) \in Nat /\ Cardinality(AttachedTo(b)) \in Nat
      /\ Cardinality(BeingDropped(b)) \in Nat /\ Cardinality(BeingMade(b)) \in Nat
  BY UsesFinite, CardinalityBounds
<1> HIDE DEF HeldBy, AttachedTo, BeingDropped, BeingMade
<1> QED BY <1>1 DEF Counted

\* A step of a thread that is on no way to or from a reference keeps all of this.
LEMMA ReferencesKept ==
  ASSUME ReferencesInv, NEW t \in Threads, OthersStay(t),
         UNCHANGED <<ReferenceCount, AttachedBuffers, refs, aux>>,
         Incrementing(t)' <=> Incrementing(t), Incrementing(t) => cur'[t] = cur[t],
         Decrementing(t)' <=> Decrementing(t), Decrementing(t) => cur'[t] = cur[t],
         pc[t] # "count", pc'[t] # "count"
  PROVE  ReferencesInv'
<1>1. \A u \in Threads : u # t => pc'[u] = pc[u] /\ cur'[u] = cur[u] /\ aux'[u] = aux[u]
  BY DEF OthersStay
<1>2. \A u \in Threads : Incrementing(u)' <=> Incrementing(u)
  BY <1>1 DEF Incrementing
<1>3. \A u \in Threads : Incrementing(u) => cur'[u] = cur[u]  BY <1>1
<1>4. \A h \in Buffers, i \in Slots : Pending(h, i)' <=> Pending(h, i)
  BY <1>2 DEF Pending
<1>5. ASSUME NEW b \in Buffers PROVE Counted(b)'
  <2>1. Counted(b)  BY DEF ReferencesInv, ReferencesCounted, Counted
  <2>2. Cardinality(HeldBy(b))' = Cardinality(HeldBy(b))  BY HeldMoves
  <2>3. Cardinality(AttachedTo(b))' = Cardinality(AttachedTo(b))
    BY <1>4, AttachedUnmoved
  <2>4. Cardinality(BeingDropped(b))' = Cardinality(BeingDropped(b))
    BY <1>1, DroppedMoves
  <2>5. Cardinality(BeingMade(b))' = Cardinality(BeingMade(b))
    BY <1>1, MadeMoves
  <2> HIDE DEF HeldBy, AttachedTo, BeingDropped, BeingMade
  <2> QED BY <2>1, <2>2, <2>3, <2>4, <2>5 DEF Counted
<1>6. ReferencesCounted'  BY <1>5 DEF Counted, ReferencesCounted
<1>7. MakingOK'  BY <1>2, <1>3 DEF ReferencesInv, MakingOK
<1>8. FreshOK'  BY <1>1 DEF ReferencesInv, FreshOK
<1> QED BY <1>6, <1>7, <1>8 DEF ReferencesInv

\* GetBuffer gives its buffer, which nobody refers to, the first reference.
LEMMA ReferencesGetMemory ==
  ASSUME TypeInv, ReferencesInv, NEW t \in Threads, GetMemory(t),
         ReferenceCount[cur[t]] = 0, EmptySlots(cur[t]) = Slots
  PROVE  ReferencesInv'
<1>0. BufferTypes /\ ThreadTypes /\ LocalsAt(t)  BY DEF TypeInv, TypeOK, LocalsOK
<1> DEFINE b == cur[t]
<1>1. b \in Buffers /\ pc[t] = "memory" /\ cur' = cur /\ aux' = aux /\ refs' = refs
  BY <1>0 DEF GetMemory, LocalsAt
<1>2. pc' = [pc EXCEPT ![t] = "count"]  BY DEF GetMemory
<1>3. AttachedBuffers' = AttachedBuffers
  <2>1. AttachedBuffers' = [AttachedBuffers EXCEPT ![b] = [i \in Slots |-> NULL]]
    BY DEF GetMemory
  <2>2. AttachedBuffers[b] = [i \in Slots |-> NULL]
    BY <1>0, <1>1 DEF BufferTypes, EmptySlots
  <2> QED BY <1>0, <2>1, <2>2 DEF BufferTypes
<1>4. /\ ReferenceCount'[b] = 1
      /\ \A c \in Buffers \ {b} : ReferenceCount'[c] = ReferenceCount[c]
  BY <1>0, <1>1 DEF GetMemory, BufferTypes
<1>5. pc'[t] = "count" /\ \A u \in Threads \ {t} : pc'[u] = pc[u]
  BY <1>0, <1>2 DEF ThreadTypes
<1>6. \A u \in Threads : /\ Incrementing(u)' <=> Incrementing(u)
                         /\ Decrementing(u)' <=> Decrementing(u)
  BY <1>1, <1>5 DEF Incrementing, Decrementing
<1>7. \A h \in Buffers, i \in Slots : Pending(h, i)' <=> Pending(h, i)
  BY <1>1, <1>6 DEF Pending
<1>8. ASSUME NEW c \in Buffers PROVE Counted(c)'
  <2>1. Counted(c) /\ ReferenceCount[c] \in Nat
    BY <1>0 DEF ReferencesInv, ReferencesCounted, Counted, BufferTypes
  <2>2. /\ Cardinality(HeldBy(c)) \in Nat /\ Cardinality(AttachedTo(c)) \in Nat
        /\ Cardinality(BeingDropped(c)) \in Nat /\ Cardinality(BeingMade(c)) \in Nat
    BY UsesFinite, CardinalityBounds
  <2>3. Cardinality(HeldBy(c))' = Cardinality(HeldBy(c)) + 0
    BY <1>1, <2>2, HeldMoves
  <2>4. Cardinality(AttachedTo(c))' = Cardinality(AttachedTo(c)) + 0
    BY <1>3, <1>7, <2>2, AttachedUnmoved
  <2>5. Cardinality(BeingDropped(c))' = Cardinality(BeingDropped(c)) + 0
    BY <1>1, <1>5, <1>6, <2>2, DroppedMoves
  <2>6. Cardinality(BeingMade(c))' = Cardinality(BeingMade(c)) + (IF c = b THEN 1 ELSE 0)
    BY <1>1, <1>5, <2>2, MadeMoves
  <2>7. ReferenceCount'[c] = ReferenceCount[c] + 0 + 0 + 0 + (IF c = b THEN 1 ELSE 0)
    BY <1>4, <2>1
  <2> HIDE DEF Counted, b
  <2> QED BY <2>1, <2>3, <2>4, <2>5, <2>6, <2>7, CountedMoves
<1>9. ReferencesCounted'  BY <1>8 DEF Counted, ReferencesCounted
<1>10. MakingOK'  BY <1>1, <1>3, <1>6 DEF ReferencesInv, MakingOK
<1>11. FreshOK'
  <2>1. ASSUME NEW u \in Threads, u # t, pc[u] = "count" PROVE ReferenceCount'[cur[u]] = 1
    <3>1. cur[u] \in Buffers /\ ReferenceCount[cur[u]] = 1
      BY <2>1 DEF ReferencesInv, FreshOK, TypeInv, LocalsOK, LocalsAt
    <3> QED BY <1>4, <3>1
  <2> QED BY <1>1, <1>4, <1>5, <2>1 DEF FreshOK
<1> QED BY <1>9, <1>10, <1>11 DEF ReferencesInv

\* ... which then is the caller's.
LEMMA ReferencesGetCount ==
  ASSUME TypeInv, ReferencesInv, NEW t \in Threads, GetCount(t)
  PROVE  ReferencesInv'
<1>0. BufferTypes /\ ThreadTypes /\ LocalsAt(t)  BY DEF TypeInv, TypeOK, LocalsOK
<1> DEFINE b == cur[t]
<1>1. b \in Buffers /\ pc[t] = "count"
  BY <1>0 DEF GetCount, LocalsAt
<1>2. UNCHANGED <<ReferenceCount, AttachedBuffers, aux>>  BY DEF GetCount, buffer
<1>3. /\ pc'[t] = "idle" /\ refs'[t] = refs[t] \cup {b}
      /\ \A u \in Threads \ {t} : pc'[u] = pc[u] /\ cur'[u] = cur[u] /\ refs'[u] = refs[u]
  BY <1>0 DEF GetCount, GetFails, ThreadTypes
<1>4. \A u \in Threads : /\ b \notin refs[u]
                         /\ ~(Decrementing(u) /\ cur[u] = b)
                         /\ ~(Incrementing(u) /\ cur[u] = b)
  BY <1>1, UserCounted
<1>5. \A u \in Threads : /\ Incrementing(u)' <=> Incrementing(u)
                         /\ Decrementing(u)' <=> Decrementing(u)
  BY <1>1, <1>3 DEF Incrementing, Decrementing
<1>6. \A h \in Buffers, i \in Slots : Pending(h, i)' <=> Pending(h, i)
  BY <1>2, <1>5 DEF Pending
<1>7. ~Incrementing(t) /\ ~Decrementing(t)  BY <1>1 DEF Incrementing, Decrementing
<1>8. ASSUME NEW c \in Buffers PROVE Counted(c)'
  <2>1. Counted(c) /\ ReferenceCount[c] \in Nat
    BY <1>0 DEF ReferencesInv, ReferencesCounted, Counted, BufferTypes
  <2>2. /\ Cardinality(HeldBy(c)) \in Nat /\ Cardinality(AttachedTo(c)) \in Nat
        /\ Cardinality(BeingDropped(c)) \in Nat /\ Cardinality(BeingMade(c)) \in Nat
    BY UsesFinite, CardinalityBounds
  <2>3. Cardinality(HeldBy(c))' = Cardinality(HeldBy(c)) + (IF c = b THEN 1 ELSE 0)
    BY <1>3, <1>4, <2>2, HeldMoves
  <2>4. Cardinality(AttachedTo(c))' = Cardinality(AttachedTo(c)) + 0
    BY <1>2, <1>6, <2>2, AttachedUnmoved
  <2>5. Cardinality(BeingDropped(c))' = Cardinality(BeingDropped(c)) + 0
    BY <1>3, <1>5, <1>7, <2>2, DroppedMoves
  <2>6. Cardinality(BeingMade(c))' = Cardinality(BeingMade(c)) + (IF c = b THEN -1 ELSE 0)
    BY <1>1, <1>3, <2>2, MadeMoves
  <2>7. ReferenceCount'[c] = ReferenceCount[c] + (IF c = b THEN 1 ELSE 0) + 0 + 0
                             + (IF c = b THEN -1 ELSE 0)
    BY <1>2, <2>1
  <2> HIDE DEF Counted, b
  <2> QED BY <2>1, <2>3, <2>4, <2>5, <2>6, <2>7, CountedMoves
<1>9. ReferencesCounted'  BY <1>8 DEF Counted, ReferencesCounted
<1>10. MakingOK'
  <2>1. \A u \in Threads : Incrementing(u) => u # t /\ cur[u] # b  BY <1>4, <1>7
  <2> QED BY <1>2, <1>3, <1>5, <2>1 DEF ReferencesInv, MakingOK
<1>11. FreshOK'  BY <1>2, <1>3 DEF ReferencesInv, FreshOK
<1> QED BY <1>9, <1>10, <1>11 DEF ReferencesInv

\* A new reference for another thread, or for a slot, is announced ...
LEMMA ReferencesIncrement ==
  ASSUME TypeInv, ReferencesInv, NEW t \in Threads, NEW b \in Buffers, NEW u \in Threads,
         IncrementReferenceCount(t, b, u)
  PROVE  ReferencesInv'
<1>0. BufferTypes /\ ThreadTypes  BY DEF TypeInv, TypeOK
<1>1. /\ UNCHANGED <<ReferenceCount, AttachedBuffers, refs>>
      /\ pc[t] = "idle" /\ b \in refs[t] /\ b \notin refs[u]
      /\ \A v \in Threads : ~(Incrementing(v) /\ cur[v] = b /\ aux[v] = u)
  BY DEF IncrementReferenceCount, buffer
<1>2. /\ pc'[t] = "incrementpool" /\ cur'[t] = b /\ aux'[t] = u
      /\ \A v \in Threads \ {t} : pc'[v] = pc[v] /\ cur'[v] = cur[v] /\ aux'[v] = aux[v]
  BY <1>0 DEF IncrementReferenceCount, ThreadTypes
<1>3. /\ ~Incrementing(t) /\ Incrementing(t)'
      /\ \A v \in Threads : Decrementing(v)' <=> Decrementing(v)
      /\ \A v \in Threads \ {t} : Incrementing(v)' <=> Incrementing(v)
      /\ ~Decrementing(t)
  BY <1>1, <1>2 DEF Incrementing, Decrementing
<1>4. \A h \in Buffers, i \in Slots : u # <<h, i>>  BY PoolsAssumption
<1>5. \A h \in Buffers, i \in Slots : Pending(h, i)' <=> Pending(h, i)
  BY <1>2, <1>3, <1>4 DEF Pending
<1>6. ASSUME NEW c \in Buffers PROVE Counted(c)'
  <2>1. Counted(c)  BY DEF ReferencesInv, ReferencesCounted, Counted
  <2>2. Cardinality(HeldBy(c))' = Cardinality(HeldBy(c))  BY <1>1, HeldMoves
  <2>3. Cardinality(AttachedTo(c))' = Cardinality(AttachedTo(c))
    BY <1>1, <1>5, AttachedUnmoved
  <2>4. Cardinality(BeingDropped(c))' = Cardinality(BeingDropped(c))
    BY <1>2, <1>3, DroppedMoves
  <2>5. Cardinality(BeingMade(c))' = Cardinality(BeingMade(c))
    BY <1>1, <1>2, MadeMoves
  <2> HIDE DEF HeldBy, AttachedTo, BeingDropped, BeingMade
  <2> QED BY <1>1, <2>1, <2>2, <2>3, <2>4, <2>5 DEF Counted
<1>7. ReferencesCounted'  BY <1>6 DEF Counted, ReferencesCounted
<1>8. MakingOK'
  <2>1. ASSUME NEW v \in Threads, v # t, Incrementing(v)'
        PROVE  /\ \A w \in Threads : Incrementing(w)' /\ cur'[w] = cur'[v] /\ aux'[w] = aux'[v]
                                       => w = v
               /\ aux'[v] \in Threads => cur'[v] \notin refs'[aux'[v]]
               /\ \A h \in Buffers, i \in Slots :
                    aux'[v] = <<h, i>> => h \in refs'[v] /\ AttachedBuffers'[h][i] = cur'[v]
    BY <1>1, <1>2, <1>3, <2>1 DEF ReferencesInv, MakingOK
  <2>2. \A w \in Threads : Incrementing(w)' /\ cur'[w] = cur'[t] /\ aux'[w] = aux'[t] => w = t
    BY <1>1, <1>2, <1>3
  <2>3. /\ aux'[t] \in Threads => cur'[t] \notin refs'[aux'[t]]
        /\ \A h \in Buffers, i \in Slots :
             aux'[t] = <<h, i>> => h \in refs'[t] /\ AttachedBuffers'[h][i] = cur'[t]
    BY <1>1, <1>2, <1>4
  <2> QED BY <2>1, <2>2, <2>3 DEF MakingOK
<1>9. FreshOK'  BY <1>1, <1>2 DEF ReferencesInv, FreshOK
<1> QED BY <1>7, <1>8, <1>9 DEF ReferencesInv

\* An attachment is counted among those being made until IncrementReferenceCount has
\* counted it.
LEMMA ReferencesAttach ==
  ASSUME TypeInv, ReferencesInv, NEW t \in Threads, NEW h \in Buffers, NEW b \in Buffers,
         AttachBuffer(t, h, b)
  PROVE  ReferencesInv'
<1>0. BufferTypes /\ ThreadTypes  BY DEF TypeInv, TypeOK
<1>1. PICK i \in Slots : AttachEffect(t, h, b, i)  BY AttachOutcome
<1>2. /\ ReferenceCount' = ReferenceCount /\ refs' = refs
      /\ pc[t] = "idle" /\ b \in refs[t] /\ h \in refs[t] /\ AttachedBuffers[h][i] = NULL
  BY <1>1 DEF AttachEffect
<1>3. /\ pc'[t] = "incrementpool" /\ cur'[t] = b /\ aux'[t] = <<h, i>>
      /\ \A v \in Threads \ {t} : pc'[v] = pc[v] /\ cur'[v] = cur[v] /\ aux'[v] = aux[v]
  BY <1>0, <1>1 DEF AttachEffect, ThreadTypes
<1>4. /\ AttachedBuffers'[h][i] = b
      /\ \A g \in Buffers, j \in Slots :
           <<g, j>> # <<h, i>> => AttachedBuffers'[g][j] = AttachedBuffers[g][j]
  BY <1>0, <1>1 DEF AttachEffect, BufferTypes
<1>5. /\ ~Incrementing(t) /\ Incrementing(t)'
      /\ \A v \in Threads : Decrementing(v)' <=> Decrementing(v)
      /\ \A v \in Threads \ {t} : Incrementing(v)' <=> Incrementing(v)
      /\ ~Decrementing(t)
  BY <1>2, <1>3 DEF Incrementing, Decrementing
<1>6. /\ Pending(h, i)'
      /\ \A g \in Buffers, j \in Slots : <<g, j>> # <<h, i>> => (Pending(g, j)' <=> Pending(g, j))
  BY <1>3, <1>5 DEF Pending
<1>7. \A v \in Threads : Incrementing(v) => aux[v] # <<h, i>>
  <2>1. ASSUME NEW v \in Threads, Incrementing(v), aux[v] = <<h, i>> PROVE FALSE
    <3>1. cur[v] \in refs[v]  BY <2>1 DEF TypeInv, LocalsOK, LocalsAt
    <3>2. cur[v] = NULL  BY <1>2, <2>1 DEF ReferencesInv, MakingOK
    <3> QED BY <1>0, <3>1, <3>2, PoolsAssumption DEF ThreadTypes
  <2> QED BY <2>1
<1>8. ASSUME NEW c \in Buffers PROVE Counted(c)'
  <2>1. Counted(c)  BY DEF ReferencesInv, ReferencesCounted, Counted
  <2>2. Cardinality(HeldBy(c))' = Cardinality(HeldBy(c))  BY <1>2, HeldMoves
  <2>3. Cardinality(AttachedTo(c))' = Cardinality(AttachedTo(c))
    <3>1. ASSUME NEW g \in Buffers, NEW j \in Slots
          PROVE  (AttachedBuffers[g][j] = c /\ AttachedBuffers[g][j] # NULL /\ ~Pending(g, j)) <=>
                 (AttachedBuffers[g][j] = c /\ AttachedBuffers[g][j] # NULL /\ ~Pending(g, j))'
      <4>1. CASE <<g, j>> = <<h, i>>  BY <4>1, <1>2, <1>6
      <4>2. CASE <<g, j>> # <<h, i>>  BY <4>2, <1>4, <1>6
      <4> QED BY <4>1, <4>2
    <3> QED BY <3>1, AttachedUnmoved
  <2>4. Cardinality(BeingDropped(c))' = Cardinality(BeingDropped(c))
    BY <1>3, <1>5, DroppedMoves
  <2>5. Cardinality(BeingMade(c))' = Cardinality(BeingMade(c))
    BY <1>2, <1>3, MadeMoves
  <2> HIDE DEF HeldBy, AttachedTo, BeingDropped, BeingMade
  <2> QED BY <1>2, <2>1, <2>2, <2>3, <2>4, <2>5 DEF Counted
<1>9. ReferencesCounted'  BY <1>8 DEF Counted, ReferencesCounted
<1>10. MakingOK'
  <2>1. ASSUME NEW v \in Threads, v # t, Incrementing(v)'
        PROVE  /\ \A w \in Threads : Incrementing(w)' /\ cur'[w] = cur'[v] /\ aux'[w] = aux'[v]
                                       => w = v
               /\ aux'[v] \in Threads => cur'[v] \notin refs'[aux'[v]]
               /\ \A g \in Buffers, j \in Slots :
                    aux'[v] = <<g, j>> => g \in refs'[v] /\ AttachedBuffers'[g][j] = cur'[v]
    <3>1. Incrementing(v) /\ aux'[v] = aux[v] /\ cur'[v] = cur[v] /\ aux[v] # <<h, i>>
      BY <1>3, <1>5, <1>7, <2>1
    <3> QED BY <1>2, <1>3, <1>4, <1>5, <3>1 DEF ReferencesInv, MakingOK
  <2>2. \A w \in Threads : Incrementing(w)' /\ cur'[w] = cur'[t] /\ aux'[w] = aux'[t] => w = t
    BY <1>3, <1>5, <1>7
  <2>3. aux'[t] \notin Threads  BY <1>3, PoolsAssumption
  <2>4. \A g \in Buffers, j \in Slots :
          aux'[t] = <<g, j>> => g \in refs'[t] /\ AttachedBuffers'[g][j] = cur'[t]
    BY <1>2, <1>3, <1>4
  <2> QED BY <2>1, <2>2, <2>3, <2>4 DEF MakingOK
<1>11. FreshOK'  BY <1>2, <1>3 DEF ReferencesInv, FreshOK
<1> QED BY <1>9, <1>10, <1>11 DEF ReferencesInv

\* ... and made.
LEMMA ReferencesMade ==
  ASSUME TypeInv, ReferencesInv, NEW t \in Threads, IncrementBuffer(t)
  PROVE  ReferencesInv'
<1>0. BufferTypes /\ ThreadTypes /\ LocalsAt(t)  BY DEF TypeInv, TypeOK, LocalsOK
<1> DEFINE b == cur[t]
           a == aux[t]
<1>1. /\ AttachedBuffers' = AttachedBuffers /\ pc[t] = "incrementbuffer" /\ Incrementing(t)
      /\ b \in refs[t] /\ b \in Buffers /\ a # NULL
      /\ a \in Threads \/ a \in Buffers \X Slots
  BY <1>0 DEF IncrementBuffer, LocalsAt, Incrementing, ThreadTypes
<1>2. /\ ReferenceCount'[b] = ReferenceCount[b] + 1
      /\ \A c \in Buffers \ {b} : ReferenceCount'[c] = ReferenceCount[c]
  BY <1>0, <1>1 DEF IncrementBuffer, BufferTypes
<1>3. /\ pc'[t] = "idle" /\ cur'[t] = NULL /\ aux'[t] = NULL
      /\ \A v \in Threads \ {t} : pc'[v] = pc[v] /\ cur'[v] = cur[v] /\ aux'[v] = aux[v]
  BY <1>0 DEF IncrementBuffer, ThreadTypes
<1>4. /\ ~Incrementing(t)'
      /\ \A v \in Threads : Decrementing(v)' <=> Decrementing(v)
      /\ \A v \in Threads \ {t} : Incrementing(v)' <=> Incrementing(v)
      /\ ~Decrementing(t)
  BY <1>1, <1>3 DEF Incrementing, Decrementing
<1>5. /\ \A v \in Threads : Incrementing(v) /\ cur[v] = b /\ aux[v] = a => v = t
      /\ a \in Threads => b \notin refs[a]
      /\ \A h \in Buffers, i \in Slots : a = <<h, i>> => h \in refs[t] /\ AttachedBuffers[h][i] = b
  BY <1>1 DEF ReferencesInv, MakingOK
<1>6. ASSUME NEW c \in Buffers
      PROVE  /\ Counted(c)
             /\ Cardinality(HeldBy(c)) \in Nat /\ Cardinality(AttachedTo(c)) \in Nat
             /\ Cardinality(BeingDropped(c)) \in Nat /\ Cardinality(BeingMade(c)) \in Nat
             /\ Cardinality(BeingDropped(c))' = Cardinality(BeingDropped(c))
             /\ Cardinality(BeingMade(c))' = Cardinality(BeingMade(c))
  <2>1. Counted(c)  BY DEF ReferencesInv, ReferencesCounted, Counted
  <2>2. /\ Cardinality(HeldBy(c)) \in Nat /\ Cardinality(AttachedTo(c)) \in Nat
        /\ Cardinality(BeingDropped(c)) \in Nat /\ Cardinality(BeingMade(c)) \in Nat
    BY UsesFinite, CardinalityBounds
  <2>3. Cardinality(BeingDropped(c))' = Cardinality(BeingDropped(c))
    BY <1>3, <1>4, DroppedMoves
  <2>4. Cardinality(BeingMade(c))' = Cardinality(BeingMade(c))
    BY <1>1, <1>3, MadeMoves
  <2> QED BY <2>1, <2>2, <2>3, <2>4
<1>7. FreshOK'
  <2>1. ASSUME NEW u \in Threads, u # t, pc[u] = "count" PROVE ReferenceCount'[cur[u]] = 1
    <3>1. cur[u] \in Buffers /\ ReferenceCount[cur[u]] = 1
      BY <2>1 DEF ReferencesInv, FreshOK, TypeInv, LocalsOK, LocalsAt
    <3>2. cur[u] # b  BY <1>1, <2>1, <3>1, UserCounted
    <3> QED BY <1>2, <3>1, <3>2
  <2> QED BY <1>3, <2>1 DEF FreshOK
<1>8. CASE a \in Threads
  <2>0. refs' = [refs EXCEPT ![a] = @ \cup {b}]  BY <1>8 DEF IncrementBuffer
  <2>1. \A h \in Buffers, i \in Slots : a # <<h, i>>  BY <1>8, PoolsAssumption
  <2>2. /\ refs'[a] = refs[a] \cup {b}
        /\ \A u \in Threads \ {a} : refs'[u] = refs[u]
    BY <1>0, <1>8, <2>0 DEF ThreadTypes
  <2>3. \A h \in Buffers, i \in Slots : Pending(h, i)' <=> Pending(h, i)
    <3>1. \A h \in Buffers, i \in Slots : Pending(h, i)' => Pending(h, i)
      BY <1>3, <1>4 DEF Pending
    <3>2. \A h \in Buffers, i \in Slots : Pending(h, i) => Pending(h, i)'
      BY <1>3, <1>4, <2>1 DEF Pending
    <3> QED BY <3>1, <3>2
  <2>4. ASSUME NEW c \in Buffers PROVE Counted(c)'
    <3>1. Cardinality(HeldBy(c))' = Cardinality(HeldBy(c)) + (IF c = b THEN 1 ELSE 0)
      BY <1>5, <1>6, <1>8, <2>2, HeldMoves
    <3>2. Cardinality(AttachedTo(c))' = Cardinality(AttachedTo(c))
      BY <1>1, <2>3, AttachedUnmoved
    <3>3. ReferenceCount'[c] = ReferenceCount[c] + (IF c = b THEN 1 ELSE 0)
      BY <1>0, <1>2 DEF BufferTypes
    <3> HIDE DEF HeldBy, AttachedTo, BeingDropped, BeingMade, b
    <3> QED BY <1>6, <3>1, <3>2, <3>3 DEF Counted
  <2>5. MakingOK'
    <3>1. ASSUME NEW v \in Threads, Incrementing(v)'
          PROVE  /\ \A w \in Threads : Incrementing(w)' /\ cur'[w] = cur'[v] /\ aux'[w] = aux'[v]
                                         => w = v
                 /\ aux'[v] \in Threads => cur'[v] \notin refs'[aux'[v]]
                 /\ \A g \in Buffers, j \in Slots :
                      aux'[v] = <<g, j>> => g \in refs'[v] /\ AttachedBuffers'[g][j] = cur'[v]
      <4>1. v # t /\ Incrementing(v) /\ aux'[v] = aux[v] /\ cur'[v] = cur[v]
        BY <1>3, <1>4, <3>1
      <4>2. \A w \in Threads : Incrementing(w)' /\ cur'[w] = cur'[v] /\ aux'[w] = aux'[v] => w = v
        BY <1>3, <1>4, <4>1 DEF ReferencesInv, MakingOK
      <4>3. aux[v] \in Threads => cur[v] \notin refs[aux[v]]
        BY <4>1 DEF ReferencesInv, MakingOK
      <4>4. ~(cur[v] = b /\ aux[v] = a)  BY <1>5, <4>1
      <4>5. aux'[v] \in Threads => cur'[v] \notin refs'[aux'[v]]
        BY <2>2, <4>1, <4>3, <4>4
      <4>6. \A g \in Buffers, j \in Slots :
              aux[v] = <<g, j>> => g \in refs[v] /\ AttachedBuffers[g][j] = cur[v]
        BY <4>1 DEF ReferencesInv, MakingOK
      <4> QED BY <1>1, <2>2, <4>1, <4>2, <4>5, <4>6
    <3> QED BY <3>1 DEF MakingOK
  <2>6. ReferencesCounted'  BY <2>4 DEF Counted, ReferencesCounted
  <2> QED BY <1>7, <2>5, <2>6 DEF ReferencesInv
<1>9. CASE a \in Buffers \X Slots
  <2>1. PICK h \in Buffers, i \in Slots : a = <<h, i>>  BY <1>9
  <2>2. a \notin Threads /\ refs' = refs  BY <1>9, PoolsAssumption DEF IncrementBuffer
  <2>3. AttachedBuffers[h][i] = b /\ b # NULL  BY <1>1, <1>5, <2>1, PoolsAssumption
  <2>4. Pending(h, i)  BY <1>1, <2>1 DEF Pending
  <2>5. ~Pending(h, i)'
    <3>1. ASSUME NEW v \in Threads, v # t, Incrementing(v), aux[v] = <<h, i>> PROVE FALSE
      <4>1. cur[v] = b  BY <2>3, <3>1 DEF ReferencesInv, MakingOK
      <4> QED BY <1>5, <2>1, <3>1, <4>1
    <3> QED BY <1>3, <1>4, <3>1 DEF Pending
  <2>6. \A g \in Buffers, j \in Slots : <<g, j>> # <<h, i>> => (Pending(g, j)' <=> Pending(g, j))
    <3>1. \A g \in Buffers, j \in Slots : Pending(g, j)' => Pending(g, j)
      BY <1>3, <1>4 DEF Pending
    <3>2. \A g \in Buffers, j \in Slots : <<g, j>> # <<h, i>> /\ Pending(g, j) => Pending(g, j)'
      BY <1>3, <1>4, <2>1 DEF Pending
    <3> QED BY <3>1, <3>2
  <2>7. ASSUME NEW c \in Buffers PROVE Counted(c)'
    <3>1. Cardinality(HeldBy(c))' = Cardinality(HeldBy(c))  BY <2>2, HeldMoves
    <3>2. Cardinality(AttachedTo(c))' = Cardinality(AttachedTo(c)) + (IF c = b THEN 1 ELSE 0)
      <4>1. CASE c = b
        <5>1. ASSUME NEW g \in Buffers, NEW j \in Slots
              PROVE  (AttachedBuffers[g][j] = c /\ AttachedBuffers[g][j] # NULL /\ ~Pending(g, j))' <=>
                     \/ AttachedBuffers[g][j] = c /\ AttachedBuffers[g][j] # NULL /\ ~Pending(g, j)
                     \/ <<g, j>> = <<h, i>>
          <6>1. CASE <<g, j>> = <<h, i>>  BY <6>1, <4>1, <1>1, <2>3, <2>5
          <6>2. CASE <<g, j>> # <<h, i>>  BY <6>2, <1>1, <2>6
          <6> QED BY <6>1, <6>2
        <5> QED BY <2>4, <4>1, <5>1, AttachedMore
      <4>2. CASE c # b
        <5>1. ASSUME NEW g \in Buffers, NEW j \in Slots
              PROVE  (AttachedBuffers[g][j] = c /\ AttachedBuffers[g][j] # NULL /\ ~Pending(g, j)) <=>
                     (AttachedBuffers[g][j] = c /\ AttachedBuffers[g][j] # NULL /\ ~Pending(g, j))'
          <6>1. CASE <<g, j>> = <<h, i>>  BY <6>1, <4>2, <1>1, <2>3
          <6>2. CASE <<g, j>> # <<h, i>>  BY <6>2, <1>1, <2>6
          <6> QED BY <6>1, <6>2
        <5>2. Cardinality(AttachedTo(c))' = Cardinality(AttachedTo(c))
          BY <5>1, AttachedUnmoved
        <5> QED BY <1>6, <4>2, <5>2
      <4> QED BY <4>1, <4>2
    <3>3. ReferenceCount'[c] = ReferenceCount[c] + (IF c = b THEN 1 ELSE 0)
      BY <1>0, <1>2 DEF BufferTypes
    <3> HIDE DEF HeldBy, AttachedTo, BeingDropped, BeingMade, b
    <3> QED BY <1>6, <3>1, <3>2, <3>3 DEF Counted
  <2>8. MakingOK'
    <3>1. \A v \in Threads : Incrementing(v)' =>
            v # t /\ Incrementing(v) /\ aux'[v] = aux[v] /\ cur'[v] = cur[v]
      BY <1>3, <1>4
    <3> QED BY <1>1, <2>2, <3>1 DEF ReferencesInv, MakingOK
  <2>9. ReferencesCounted'  BY <2>7 DEF Counted, ReferencesCounted
  <2> QED BY <1>7, <2>8, <2>9 DEF ReferencesInv
<1> QED BY <1>1, <1>8, <1>9

\* A reference is given up ...
LEMMA ReferencesDecrement ==
  ASSUME TypeInv, ReferencesInv, NEW t \in Threads, NEW b \in Buffers,
         DecrementReferenceCount(t, b)
  PROVE  ReferencesInv'
<1>0. BufferTypes /\ ThreadTypes  BY DEF TypeInv, TypeOK
<1>1. UNCHANGED <<ReferenceCount, AttachedBuffers, aux>> /\ pc[t] = "idle" /\ b \in refs[t]
  BY DEF DecrementReferenceCount, buffer
<1>2. /\ pc'[t] = "decrementpool" /\ cur'[t] = b /\ refs'[t] = refs[t] \ {b}
      /\ \A v \in Threads \ {t} : pc'[v] = pc[v] /\ cur'[v] = cur[v] /\ refs'[v] = refs[v]
  BY <1>0 DEF DecrementReferenceCount, ThreadTypes
<1>3. /\ ~Decrementing(t) /\ Decrementing(t)'
      /\ \A v \in Threads : Incrementing(v)' <=> Incrementing(v)
      /\ ~Incrementing(t)
  BY <1>1, <1>2 DEF Incrementing, Decrementing
<1>4. \A h \in Buffers, i \in Slots : Pending(h, i)' <=> Pending(h, i)
  BY <1>1, <1>3 DEF Pending
<1>5. ASSUME NEW c \in Buffers PROVE Counted(c)'
  <2>1. Counted(c)  BY DEF ReferencesInv, ReferencesCounted, Counted
  <2>2. /\ Cardinality(HeldBy(c)) \in Nat /\ Cardinality(AttachedTo(c)) \in Nat
        /\ Cardinality(BeingDropped(c)) \in Nat /\ Cardinality(BeingMade(c)) \in Nat
    BY UsesFinite, CardinalityBounds
  <2>3. Cardinality(HeldBy(c))' = Cardinality(HeldBy(c)) - (IF c = b THEN 1 ELSE 0)
    BY <1>1, <1>2, <2>2, HeldMoves
  <2>4. Cardinality(AttachedTo(c))' = Cardinality(AttachedTo(c))
    BY <1>1, <1>4, AttachedUnmoved
  <2>5. Cardinality(BeingDropped(c))' = Cardinality(BeingDropped(c)) + (IF c = b THEN 1 ELSE 0)
    BY <1>2, <1>3, <2>2, DroppedMoves
  <2>6. Cardinality(BeingMade(c))' = Cardinality(BeingMade(c))
    BY <1>1, <1>2, MadeMoves
  <2> HIDE DEF HeldBy, AttachedTo, BeingDropped, BeingMade
  <2> QED BY <1>1, <2>1, <2>2, <2>3, <2>4, <2>5, <2>6 DEF Counted
<1>6. ReferencesCounted'  BY <1>5 DEF Counted, ReferencesCounted
<1>7. MakingOK'
  <2>1. \A v \in Threads : Incrementing(v)' =>
          v # t /\ Incrementing(v) /\ cur'[v] = cur[v] /\ refs'[v] = refs[v]
    BY <1>2, <1>3
  <2>2. \A v \in Threads : refs'[v] \subseteq refs[v]  BY <1>2
  <2> QED BY <1>1, <2>1, <2>2 DEF ReferencesInv, MakingOK
<1>8. FreshOK'  BY <1>1, <1>2 DEF ReferencesInv, FreshOK
<1> QED BY <1>6, <1>7, <1>8 DEF ReferencesInv

\* ... or leaves its slot ...
LEMMA ReferencesDetach ==
  ASSUME TypeInv, ReferencesInv, NEW t \in Threads, NEW h \in Buffers, NEW i \in Slots,
         pc[t] \in {"idle", "slots", "tidyup"}, AttachedBuffers[h][i] \in Buffers,
         ~Pending(h, i), DetachEffect(t, h, i)
  PROVE  ReferencesInv'
<1>0. BufferTypes /\ ThreadTypes  BY DEF TypeInv, TypeOK
<1> DEFINE b == AttachedBuffers[h][i]
<1>1. /\ ReferenceCount' = ReferenceCount /\ refs' = refs /\ aux' = aux
      /\ b # NULL
  BY PoolsAssumption DEF DetachEffect
<1>2. /\ pc'[t] = "decrementpool" /\ cur'[t] = b
      /\ \A v \in Threads \ {t} : pc'[v] = pc[v] /\ cur'[v] = cur[v]
  BY <1>0 DEF DetachEffect, ThreadTypes
<1>3. /\ AttachedBuffers'[h][i] = NULL
      /\ \A g \in Buffers, j \in Slots :
           <<g, j>> # <<h, i>> => AttachedBuffers'[g][j] = AttachedBuffers[g][j]
  BY <1>0 DEF DetachEffect, BufferTypes
<1>4. /\ ~Decrementing(t) /\ Decrementing(t)'
      /\ \A v \in Threads : Incrementing(v)' <=> Incrementing(v)
      /\ ~Incrementing(t)
  BY <1>2 DEF Incrementing, Decrementing
<1>5. \A g \in Buffers, j \in Slots : Pending(g, j)' <=> Pending(g, j)
  BY <1>1, <1>4 DEF Pending
<1>6. ASSUME NEW c \in Buffers PROVE Counted(c)'
  <2>1. Counted(c)  BY DEF ReferencesInv, ReferencesCounted, Counted
  <2>2. /\ Cardinality(HeldBy(c)) \in Nat /\ Cardinality(AttachedTo(c)) \in Nat
        /\ Cardinality(BeingDropped(c)) \in Nat /\ Cardinality(BeingMade(c)) \in Nat
    BY UsesFinite, CardinalityBounds
  <2>3. Cardinality(HeldBy(c))' = Cardinality(HeldBy(c))  BY <1>1, HeldMoves
  <2>4. Cardinality(AttachedTo(c))' = Cardinality(AttachedTo(c)) - (IF c = b THEN 1 ELSE 0)
    <3>1. CASE c = b
      <4>1. ASSUME NEW g \in Buffers, NEW j \in Slots
            PROVE  (AttachedBuffers[g][j] = c /\ AttachedBuffers[g][j] # NULL /\ ~Pending(g, j))' <=>
                   /\ AttachedBuffers[g][j] = c /\ AttachedBuffers[g][j] # NULL /\ ~Pending(g, j)
                   /\ <<g, j>> # <<h, i>>
        <5>1. CASE <<g, j>> = <<h, i>>  BY <5>1, <1>3
        <5>2. CASE <<g, j>> # <<h, i>>  BY <5>2, <1>3, <1>5
        <5> QED BY <5>1, <5>2
      <4> QED BY <1>1, <3>1, <4>1, AttachedLess
    <3>2. CASE c # b
      <4>1. ASSUME NEW g \in Buffers, NEW j \in Slots
            PROVE  (AttachedBuffers[g][j] = c /\ AttachedBuffers[g][j] # NULL /\ ~Pending(g, j)) <=>
                   (AttachedBuffers[g][j] = c /\ AttachedBuffers[g][j] # NULL /\ ~Pending(g, j))'
        <5>1. CASE <<g, j>> = <<h, i>>  BY <5>1, <1>3, <3>2
        <5>2. CASE <<g, j>> # <<h, i>>  BY <5>2, <1>3, <1>5
        <5> QED BY <5>1, <5>2
      <4>2. Cardinality(AttachedTo(c))' = Cardinality(AttachedTo(c))
        BY <4>1, AttachedUnmoved
      <4> QED BY <2>2, <3>2, <4>2
    <3> QED BY <3>1, <3>2
  <2>5. Cardinality(BeingDropped(c))' = Cardinality(BeingDropped(c)) + (IF c = b THEN 1 ELSE 0)
    BY <1>2, <1>4, <2>2, DroppedMoves
  <2>6. Cardinality(BeingMade(c))' = Cardinality(BeingMade(c))
    BY <1>2, MadeMoves
  <2> HIDE DEF HeldBy, AttachedTo, BeingDropped, BeingMade, b
  <2> QED BY <1>1, <2>1, <2>2, <2>3, <2>4, <2>5, <2>6 DEF Counted
<1>7. ReferencesCounted'  BY <1>6 DEF Counted, ReferencesCounted
<1>8. MakingOK'
  <2>1. \A v \in Threads : Incrementing(v)' =>
          v # t /\ Incrementing(v) /\ cur'[v] = cur[v] /\ aux[v] # <<h, i>>
    BY <1>2, <1>4 DEF Pending
  <2> QED BY <1>1, <1>3, <2>1 DEF ReferencesInv, MakingOK
<1>9. FreshOK'  BY <1>1, <1>2 DEF ReferencesInv, FreshOK
<1> QED BY <1>7, <1>8, <1>9 DEF ReferencesInv

\* ... and is taken off the count.
LEMMA ReferencesDropped ==
  ASSUME TypeInv, ReferencesInv, NEW t \in Threads, DecrementBuffer(t)
  PROVE  ReferencesInv'
<1>0. BufferTypes /\ ThreadTypes /\ LocalsAt(t)  BY DEF TypeInv, TypeOK, LocalsOK
<1> DEFINE b == cur[t]
<1>1. /\ AttachedBuffers' = AttachedBuffers /\ refs' = refs /\ aux' = aux
      /\ pc[t] = "decrementbuffer" /\ Decrementing(t) /\ b \in Buffers
  BY <1>0 DEF DecrementBuffer, LocalsAt, Decrementing
<1>2. /\ ReferenceCount'[b] = ReferenceCount[b] - 1
      /\ \A c \in Buffers \ {b} : ReferenceCount'[c] = ReferenceCount[c]
  BY <1>0, <1>1 DEF DecrementBuffer, BufferTypes
<1>3. /\ pc'[t] \in {"release", "slots", "idle", "tidyup"} /\ cur'[t] = NULL
      /\ \A v \in Threads \ {t} : pc'[v] = pc[v] /\ cur'[v] = cur[v]
  BY <1>0, AfterPlaces DEF DecrementBuffer, Return, ThreadTypes
<1>4. /\ ~Decrementing(t)' /\ ~Incrementing(t)
      /\ \A v \in Threads : Incrementing(v)' <=> Incrementing(v)
  BY <1>1, <1>3 DEF Incrementing, Decrementing
<1>5. \A h \in Buffers, i \in Slots : Pending(h, i)' <=> Pending(h, i)
  BY <1>1, <1>4 DEF Pending
<1>6. ASSUME NEW c \in Buffers PROVE Counted(c)'
  <2>1. Counted(c)  BY DEF ReferencesInv, ReferencesCounted, Counted
  <2>2. /\ Cardinality(HeldBy(c)) \in Nat /\ Cardinality(AttachedTo(c)) \in Nat
        /\ Cardinality(BeingDropped(c)) \in Nat /\ Cardinality(BeingMade(c)) \in Nat
    BY UsesFinite, CardinalityBounds
  <2>3. Cardinality(HeldBy(c))' = Cardinality(HeldBy(c))  BY <1>1, HeldMoves
  <2>4. Cardinality(AttachedTo(c))' = Cardinality(AttachedTo(c))
    BY <1>1, <1>5, AttachedUnmoved
  <2>5. Cardinality(BeingDropped(c))' = Cardinality(BeingDropped(c)) - (IF c = b THEN 1 ELSE 0)
    BY <1>1, <1>3, <1>4, <2>2, DroppedMoves
  <2>6. Cardinality(BeingMade(c))' = Cardinality(BeingMade(c))
    BY <1>1, <1>3, MadeMoves
  <2>7. ReferenceCount'[c] = ReferenceCount[c] - (IF c = b THEN 1 ELSE 0)
    BY <1>0, <1>2 DEF BufferTypes
  <2> HIDE DEF HeldBy, AttachedTo, BeingDropped, BeingMade, b
  <2> QED BY <2>1, <2>2, <2>3, <2>4, <2>5, <2>6, <2>7 DEF Counted
<1>7. ReferencesCounted'  BY <1>6 DEF Counted, ReferencesCounted
<1>8. MakingOK'
  <2>1. \A v \in Threads : Incrementing(v)' => v # t /\ Incrementing(v) /\ cur'[v] = cur[v]
    BY <1>3, <1>4
  <2> QED BY <1>1, <2>1 DEF ReferencesInv, MakingOK
<1>9. FreshOK'
  <2>1. ASSUME NEW u \in Threads, u # t, pc[u] = "count" PROVE ReferenceCount'[cur[u]] = 1
    <3>1. cur[u] \in Buffers /\ ReferenceCount[cur[u]] = 1
      BY <2>1 DEF ReferencesInv, FreshOK, TypeInv, LocalsOK, LocalsAt
    <3>2. cur[u] # b  BY <1>1, <2>1, <3>1, UserCounted
    <3> QED BY <1>2, <3>1, <3>2
  <2> QED BY <1>3, <2>1 DEF FreshOK
<1> QED BY <1>7, <1>8, <1>9 DEF ReferencesInv

\* All of a thread's steps: the buffer that a thread takes out of the ring has no
\* reference and no attachment, nor does the buffer it is releasing have one, and
\* nobody makes a reference while a pool is destroyed.
LEMMA ReferencesStep ==
  ASSUME TypeInv, ReferencesInv, NEW t \in Threads, Call(t) \/ Step(t),
         pc[t] = "memory" => ReferenceCount[cur[t]] = 0 /\ EmptySlots(cur[t]) = Slots,
         stack[t] # <<>> => ReferenceCount[Top(t)] = 0,
         (\E p \in Pools : destroyer[p] = t) => \A u \in Threads : ~Incrementing(u)
  PROVE  ReferencesInv'
<1>0. BufferTypes /\ ThreadTypes /\ LocalsAt(t)  BY DEF TypeInv, TypeOK, LocalsOK
<1> DEFINE kept == /\ UNCHANGED <<ReferenceCount, AttachedBuffers, refs, aux>>
                   /\ pc[t] # "count" /\ pc'[t] # "count" /\ OthersStay(t)
                   /\ Incrementing(t)' <=> Incrementing(t)
                   /\ Incrementing(t) => cur'[t] = cur[t]
                   /\ Decrementing(t)' <=> Decrementing(t)
                   /\ Decrementing(t) => cur'[t] = cur[t]
<1>1. kept => ReferencesInv'  BY ReferencesKept
<1>2. ASSUME NEW p \in Pools, NEW nonblocking \in BOOLEAN, GetEnter(t, p, nonblocking) PROVE kept
  BY <1>0, <1>2 DEF GetEnter, buffer, ThreadTypes, OthersStay, Incrementing, Decrementing
<1>3. ASSUME GetExtract(t) PROVE kept
  <2>1. CASE ExtractTakes(t)
    BY <1>0, <1>3, <2>1, ExtractOutcomes
       DEF ExtractTakes, buffer, ThreadTypes, OthersStay, Incrementing, Decrementing
  <2>2. CASE ExtractFails(t)
    BY <1>0, <1>3, <2>2, ExtractOutcomes
       DEF ExtractFails, GetFails, buffer, ThreadTypes, OthersStay, Incrementing, Decrementing
  <2>3. CASE ExtractWaits(t)
    BY <1>0, <1>3, <2>3, ExtractOutcomes
       DEF ExtractWaits, buffer, ThreadTypes, OthersStay, Incrementing, Decrementing
  <2> QED BY <1>3, <2>1, <2>2, <2>3, ExtractOutcomes
<1>4. ASSUME GetAborted(t) PROVE kept
  BY <1>0, <1>4
     DEF GetAborted, GetFails, buffer, ThreadTypes, OthersStay, Incrementing, Decrementing
<1>5. ASSUME GetWoken(t) PROVE kept
  BY <1>0, <1>5 DEF GetWoken, buffer, ThreadTypes, OthersStay, Incrementing, Decrementing
<1>6. ASSUME GetMemory(t) PROVE ReferencesInv'
  <2>1. pc[t] = "memory"  BY <1>6 DEF GetMemory
  <2> QED BY <1>6, <2>1, ReferencesGetMemory
<1>7. ASSUME GetMemoryFails(t) PROVE kept
  BY <1>0, <1>7
     DEF GetMemoryFails, GetFails, ThreadTypes, OthersStay, Incrementing, Decrementing
<1>8. ASSUME IncrementPool(t) \/ DecrementPool(t) PROVE kept
  BY <1>0, <1>8 DEF IncrementPool, DecrementPool, buffer, ThreadTypes, OthersStay, Incrementing,
                    Decrementing
<1>9. ASSUME ReleaseLock(t) PROVE kept
  BY <1>0, <1>9 DEF ReleaseLock, ThreadTypes, OthersStay, Incrementing, Decrementing
<1>10. ASSUME ReleaseUnlock(t) PROVE kept
  BY <1>0, <1>10 DEF ReleaseUnlock, ThreadTypes, OthersStay, Incrementing, Decrementing
<1>11. ASSUME ReleaseMemory(t) PROVE kept
  BY <1>0, <1>11 DEF ReleaseMemory, ThreadTypes, OthersStay, Incrementing, Decrementing
<1>12. ASSUME ReleaseInsert(t) PROVE kept
  <2>1. ReleaseEffect(t, Top(t), PoolOf[Top(t)])  BY <1>12, InsertOutcome
  <2> QED BY <1>0, <2>1, AfterPlaces
       DEF ReleaseEffect, buffer, ThreadTypes, OthersStay, Incrementing, Decrementing
<1>13. ASSUME NEW p \in Pools, DestroyPool(t, p) PROVE kept
  BY <1>0, <1>13 DEF DestroyPool, buffer, ThreadTypes, OthersStay, Incrementing, Decrementing
<1>14. ASSUME NEW p \in Pools, TidyUpEnd(t, p) PROVE kept
  BY <1>0, <1>14 DEF TidyUpEnd, buffer, ThreadTypes, OthersStay, Incrementing, Decrementing
<1>15. ASSUME NEW h \in Buffers, NEW b \in Buffers, DetachBuffer(t, h, b) PROVE ReferencesInv'
  <2>1. pc[t] = "idle"  BY <1>15 DEF DetachBuffer
  <2>2. PICK i \in Slots : AttachedBuffers[h][i] = b /\ Attached(h, i) /\ DetachEffect(t, h, i)
    BY <1>15, DetachOutcome
  <2>3. ~Pending(h, i)  BY <2>2 DEF Attached, Pending
  <2> QED BY <2>1, <2>2, <2>3, ReferencesDetach
<1>16. ASSUME ReleaseAttached(t) PROVE ReferencesInv'
  <2>1. pc[t] = "slots"  BY <1>16 DEF ReleaseAttached
  <2>2. stack[t] # <<>>  BY <1>0, <2>1 DEF LocalsAt, Releasing
  <2>3. Top(t) \in Buffers /\ ReferenceCount[Top(t)] = 0  BY <1>0, <2>2, TopIn
  <2>4. PICK i \in Slots : AttachedBuffers[Top(t)][i] \in Buffers /\ DetachEffect(t, Top(t), i)
    BY <1>0, <1>16, <2>2, ReleaseOutcome
  <2>5. ~Pending(Top(t), i)
    <3>1. ASSUME NEW u \in Threads, Incrementing(u), aux[u] = <<Top(t), i>> PROVE FALSE
      <4>1. Top(t) \in refs[u]  BY <2>3, <3>1 DEF ReferencesInv, MakingOK
      <4>2. ReferenceCount[Top(t)] > 0  BY <2>3, <4>1, UserCounted
      <4> QED BY <2>3, <4>2
    <3> QED BY <3>1 DEF Pending
  <2> QED BY <2>1, <2>3, <2>4, <2>5, ReferencesDetach
<1>17. ASSUME NEW p \in Pools, TidyUpDetach(t, p) PROVE ReferencesInv'
  <2>1. pc[t] = "tidyup" /\ destroyer[p] = t  BY <1>17 DEF TidyUpDetach
  <2>2. PICK h \in Buffers, i \in Slots :
          AttachedBuffers[h][i] \in Buffers /\ DetachEffect(t, h, i)
    BY <1>17, TidyUpOutcome
  <2>3. ~Pending(h, i)  BY <2>1 DEF Pending
  <2> QED BY <2>1, <2>2, <2>3, ReferencesDetach
<1> HIDE DEF kept
<1>18. CASE Call(t)
  BY <1>1, <1>2, <1>13, <1>15, <1>18, ReferencesIncrement, ReferencesAttach, ReferencesDecrement
     DEF Call
<1>19. CASE GetStep(t)
  BY <1>1, <1>3, <1>4, <1>5, <1>6, <1>7, <1>19, ReferencesGetCount DEF GetStep
<1>20. CASE ReferenceStep(t)
  BY <1>1, <1>8, <1>20, ReferencesMade, ReferencesDropped DEF ReferenceStep
<1>21. CASE ReleaseStep(t) \/ TidyUpStep(t)
  BY <1>1, <1>9, <1>10, <1>11, <1>12, <1>14, <1>16, <1>17, <1>21 DEF ReleaseStep, TidyUpStep
<1> QED BY <1>18, <1>19, <1>20, <1>21 DEF Step

\* A pool is created with no reference to any of its buffers.
LEMMA ReferencesInit == Init => ReferencesInv
<1> SUFFICES ASSUME Init PROVE ReferencesInv  OBVIOUS
<1>1. ASSUME NEW b \in Buffers
      PROVE  HeldBy(b) = {} /\ AttachedTo(b) = {} /\ BeingDropped(b) = {} /\ BeingMade(b) = {}
  <2>1. HeldBy(b) = {} /\ BeingDropped(b) = {} /\ BeingMade(b) = {}
    BY DEF Init, HeldBy, BeingDropped, BeingMade, Decrementing
  <2>2. b # NULL  BY PoolsAssumption
  <2>3. \A h \in Buffers, i \in Slots : AttachedBuffers[h][i] = NULL  BY DEF Init
  <2>4. AttachedTo(b) = {}  BY <2>2, <2>3 DEF AttachedTo
  <2> QED BY <2>1, <2>4
<1>2. \A b \in Buffers : ReferenceCount[b] = 0  BY DEF Init
<1>3. ReferencesCounted
  BY <1>1, <1>2, FS_EmptySet DEF ReferencesCounted
<1>4. MakingOK /\ FreshOK  BY DEF Init, MakingOK, FreshOK, Incrementing
<1> QED BY <1>3, <1>4 DEF ReferencesInv

\* Nobody's call changes anything: an abort, or no step at all.
LEMMA ReferencesStay ==
  ASSUME ReferencesInv, UNCHANGED <<buffer, thread>>
  PROVE  ReferencesInv'
<1> USE DEF buffer, thread
<1>1. \A t \in Threads : /\ Incrementing(t)' <=> Incrementing(t)
                         /\ Decrementing(t)' <=> Decrementing(t)
  BY DEF Incrementing, Decrementing
<1>2. \A h \in Buffers, i \in Slots : Attached(h, i)' <=> Attached(h, i)
  BY <1>1 DEF Attached
<1>3. ASSUME NEW b \in Buffers
      PROVE  /\ HeldBy(b)' = HeldBy(b) /\ AttachedTo(b)' = AttachedTo(b)
             /\ BeingDropped(b)' = BeingDropped(b) /\ BeingMade(b)' = BeingMade(b)
  <2>1. HeldBy(b)' = HeldBy(b) /\ BeingMade(b)' = BeingMade(b)  BY DEF HeldBy, BeingMade
  <2>2. BeingDropped(b)' = BeingDropped(b)  BY <1>1 DEF BeingDropped
  <2>3. AttachedTo(b)' = AttachedTo(b)  BY <1>2 DEF AttachedTo
  <2> QED BY <2>1, <2>2, <2>3
<1>4. ReferencesCounted'  BY <1>3 DEF ReferencesInv, ReferencesCounted
<1>5. MakingOK'  BY <1>1 DEF ReferencesInv, MakingOK
<1>6. FreshOK'  BY DEF ReferencesInv, FreshOK
<1> QED BY <1>4, <1>5, <1>6 DEF ReferencesInv

---------------------------------------------------------------------------
(* Rings and stacks of buffers without repetitions.                        *)

Once(s) == \A k, l \in DOMAIN s : s[k] = s[l] => k = l

\* The head leaves the ring.
LEMMA TailOnce ==
  ASSUME NEW s \in Seq(Buffers), Once(s), s # <<>>
  PROVE  /\ Head(s) \in AsSet(s) /\ AsSet(Tail(s)) = AsSet(s) \ {Head(s)} /\ Once(Tail(s))
<1>1. /\ Len(Tail(s)) = Len(s) - 1 /\ DOMAIN Tail(s) = 1 .. Len(s) - 1
      /\ \A k \in 1 .. Len(s) - 1 : Tail(s)[k] = s[k + 1]
      /\ Len(s) \in Nat \ {0} /\ DOMAIN s = 1 .. Len(s) /\ Head(s) = s[1]
  <2>1. /\ Tail(s) \in Seq(Buffers) /\ Len(Tail(s)) = Len(s) - 1
        /\ \A k \in 1 .. Len(Tail(s)) : Tail(s)[k] = s[k + 1]
    BY HeadTailProperties
  <2> QED BY <2>1
<1>2. \A k \in 1 .. Len(s) - 1 : k + 1 \in 1 .. Len(s) /\ k + 1 # 1  BY <1>1
<1>3. \A l \in 1 .. Len(s) : l # 1 => l - 1 \in 1 .. Len(s) - 1 /\ (l - 1) + 1 = l  BY <1>1
<1>4. Once(Tail(s))
  <2>1. ASSUME NEW k \in 1 .. Len(s) - 1, NEW l \in 1 .. Len(s) - 1, Tail(s)[k] = Tail(s)[l]
        PROVE  k = l
    <3>1. k + 1 = l + 1  BY <1>1, <1>2, <2>1 DEF Once
    <3> QED BY <3>1
  <2> QED BY <1>1, <2>1 DEF Once
<1>5. Head(s) \in AsSet(s)  BY <1>1 DEF AsSet
<1>6. ASSUME NEW x PROVE x \in AsSet(Tail(s)) <=> x \in AsSet(s) \ {Head(s)}
  <2>1. ASSUME x \in AsSet(Tail(s)) PROVE x \in AsSet(s) \ {Head(s)}
    <3>1. PICK k \in 1 .. Len(s) - 1 : x = Tail(s)[k]  BY <1>1, <2>1 DEF AsSet
    <3>2. x = s[k + 1] /\ k + 1 \in 1 .. Len(s) /\ k + 1 # 1  BY <1>1, <1>2, <3>1
    <3>3. x # s[1]  BY <1>1, <3>2 DEF Once
    <3> QED BY <1>1, <3>2, <3>3 DEF AsSet
  <2>2. ASSUME x \in AsSet(s) \ {Head(s)} PROVE x \in AsSet(Tail(s))
    <3>1. PICK l \in 1 .. Len(s) : x = s[l]  BY <1>1, <2>2 DEF AsSet
    <3>2. l # 1  BY <1>1, <2>2, <3>1
    <3>3. l - 1 \in 1 .. Len(s) - 1 /\ Tail(s)[l - 1] = s[(l - 1) + 1] /\ (l - 1) + 1 = l
      BY <1>1, <1>3, <3>2
    <3> QED BY <1>1, <3>1, <3>3 DEF AsSet
  <2> QED BY <2>1, <2>2
<1> QED BY <1>4, <1>5, <1>6

\* A buffer that is not in the sequence joins it at the end.
LEMMA AppendOnce ==
  ASSUME NEW s \in Seq(Buffers), Once(s), NEW b \in Buffers, b \notin AsSet(s)
  PROVE  AsSet(Append(s, b)) = AsSet(s) \cup {b} /\ Once(Append(s, b))
<1>1. /\ Len(s) \in Nat /\ DOMAIN s = 1 .. Len(s)
      /\ DOMAIN Append(s, b) = 1 .. Len(s) + 1
      /\ \A k \in 1 .. Len(s) : Append(s, b)[k] = s[k]
      /\ Append(s, b)[Len(s) + 1] = b
  OBVIOUS
<1>2. \A k \in 1 .. Len(s) + 1 : k \in 1 .. Len(s) \/ k = Len(s) + 1  BY <1>1
<1>3. \A k \in 1 .. Len(s) : k \in 1 .. Len(s) + 1  BY <1>1
<1>4. Len(s) + 1 \in 1 .. Len(s) + 1  BY <1>1
<1>5. \A k \in 1 .. Len(s) : s[k] # b  BY <1>1 DEF AsSet
<1>6. Once(Append(s, b))
  <2>1. ASSUME NEW k \in 1 .. Len(s) + 1, NEW l \in 1 .. Len(s) + 1,
               Append(s, b)[k] = Append(s, b)[l]
        PROVE  k = l
    <3>1. CASE k \in 1 .. Len(s) /\ l \in 1 .. Len(s)
      BY <1>1, <2>1, <3>1 DEF Once
    <3>2. CASE k = Len(s) + 1 \/ l = Len(s) + 1
      BY <1>1, <1>2, <1>5, <2>1, <3>2
    <3> QED BY <1>2, <3>1, <3>2
  <2> QED BY <1>1, <2>1 DEF Once
<1>7. AsSet(Append(s, b)) = AsSet(s) \cup {b}
  BY <1>1, <1>2, <1>3, <1>4 DEF AsSet
<1> QED BY <1>6, <1>7

\* The innermost release leaves the stack.
LEMMA PopOnce ==
  ASSUME ThreadTypes, NEW t \in Threads, stack[t] # <<>>, Once(stack[t]),
         NEW s, s = SubSeq(stack[t], 1, Len(stack[t]) - 1)
  PROVE  /\ Top(t) \in AsSet(stack[t]) /\ AsSet(s) = AsSet(stack[t]) \ {Top(t)} /\ Once(s)
         /\ s \in Seq(Buffers)
<1> DEFINE n == Len(stack[t])
<1>1. /\ n \in Nat \ {0} /\ DOMAIN stack[t] = 1 .. n /\ s \in Seq(Buffers)
      /\ DOMAIN s = 1 .. n - 1 /\ \A k \in 1 .. n - 1 : s[k] = stack[t][k]
      /\ Top(t) = stack[t][n]
  <2>1. /\ n \in Nat \ {0} /\ stack[t] \in Seq(Buffers) /\ s \in Seq(Buffers)
        /\ Len(s) = n - 1 /\ \A k \in 1 .. n - 1 : s[k] = stack[t][k]
    BY TopIn
  <2> QED BY <2>1 DEF Top
<1> HIDE DEF n
<1>2. \A k \in 1 .. n - 1 : k \in 1 .. n /\ k # n  BY <1>1
<1>3. \A k \in 1 .. n : k # n => k \in 1 .. n - 1  BY <1>1
<1>4. n \in 1 .. n  BY <1>1
<1>5. Once(s)  BY <1>1, <1>2 DEF Once
<1>6. Top(t) \in AsSet(stack[t])  BY <1>1, <1>4 DEF AsSet
<1>7. \A k \in 1 .. n - 1 : stack[t][k] # Top(t)  BY <1>1, <1>2, <1>4 DEF Once
<1>8. AsSet(s) = AsSet(stack[t]) \ {Top(t)}
  BY <1>1, <1>2, <1>3, <1>7 DEF AsSet
<1> QED BY <1>1, <1>5, <1>6, <1>8

---------------------------------------------------------------------------
(* Where a buffer is.                                                      *)

Free(b)     == b \in AsSet(FreeBuffer[PoolOf[b]])
Taken(b)    == \E t \in Threads : pc[t] = "memory" /\ cur[t] = b
Released(b) == \E t \in Threads : b \in AsSet(stack[t])
InUse(b)    == ReferenceCount[b] > 0

\* In no place twice ...
Single ==
  /\ \A p \in Pools : Once(FreeBuffer[p])
  /\ \A t, u \in Threads : pc[t] = "memory" /\ pc[u] = "memory" /\ cur[t] = cur[u] => t = u
  /\ \A t \in Threads : Once(stack[t])
  /\ \A t, u \in Threads : \A b \in AsSet(stack[t]) : b \in AsSet(stack[u]) => t = u

\* ... and in one place.
Placed(b) ==
  /\ Free(b) => ~Taken(b) /\ ~Released(b) /\ ~InUse(b) /\ b \notin lost
  /\ Taken(b) => ~Released(b) /\ ~InUse(b) /\ b \notin lost
  /\ Released(b) => ~InUse(b) /\ b \notin lost
  /\ InUse(b) => b \notin lost
  /\ ~Destroyed(PoolOf[b]) => Free(b) \/ Taken(b) \/ Released(b) \/ InUse(b) \/ b \in lost

PlacesInv == Single /\ \A b \in Buffers : Placed(b)

\* Threads other than t take what they took.
LEMMA TakenMoves ==
  ASSUME NEW t \in Threads, NEW b,
         \A u \in Threads \ {t} : pc'[u] = pc[u] /\ cur'[u] = cur[u]
  PROVE  LET takes == pc[t] = "memory" /\ cur[t] = b
         IN  /\ takes' => Taken(b)'
             /\ ~takes' => (Taken(b)' <=> \E u \in Threads \ {t} : pc[u] = "memory" /\ cur[u] = b)
             /\ (takes' <=> takes) => (Taken(b)' <=> Taken(b))
BY DEF Taken

\* A step that moves no buffer.
LEMMA PlacesKept ==
  ASSUME PlacesInv, NEW t \in Threads, OthersStay(t),
         UNCHANGED <<FreeBuffer, stack, lost>>,
         pc[t] # "memory", pc'[t] # "memory",
         \A b \in Buffers : InUse(b)' <=> InUse(b),
         \A p \in Pools : Destroyed(p) => Destroyed(p)'
  PROVE  PlacesInv'
<1>1. \A u \in Threads \ {t} : pc'[u] = pc[u] /\ cur'[u] = cur[u]  BY DEF OthersStay
<1>2. Single'  BY <1>1 DEF PlacesInv, Single
<1>3. ASSUME NEW b \in Buffers PROVE Placed(b)'
  <2>1. Taken(b)' <=> Taken(b)  BY <1>1, TakenMoves
  <2>2. (Free(b)' <=> Free(b)) /\ (Released(b)' <=> Released(b))  BY DEF Free, Released
  <2>3. PoolOf[b] \in Pools  BY PoolsAssumption
  <2> QED BY <2>1, <2>2, <2>3 DEF PlacesInv, Placed
<1> QED BY <1>2, <1>3 DEF PlacesInv

\* The steps that move one: out of the ring, ...
LEMMA PlacesTake ==
  ASSUME TypeInv, PlacesInv, NEW t \in Threads, GetExtract(t), ExtractTakes(t)
  PROVE  PlacesInv'
<1>0. PoolTypes /\ ThreadTypes /\ LocalsAt(t) /\ Home  BY DEF TypeInv, TypeOK, LocalsOK
<1> DEFINE p == getting[t].pool
           x == Head(FreeBuffer[p])
<1>1. /\ UNCHANGED <<ReferenceCount, lost, stack, listed, destroyer>>
      /\ pc[t] \in {"extract", "woken"}
  BY ExtractOutcomes DEF buffer
<1>2. /\ p \in Pools /\ FreeBuffer[p] # <<>>
      /\ FreeBuffer'[p] = Tail(FreeBuffer[p])
      /\ \A q \in Pools \ {p} : FreeBuffer'[q] = FreeBuffer[q]
      /\ FreeBuffer' = [FreeBuffer EXCEPT ![p] = Tail(@)]
  BY <1>0, <1>1 DEF ExtractTakes, LocalsAt, Getting, PoolTypes
<1>3. /\ pc'[t] = "memory" /\ cur'[t] = x
      /\ \A u \in Threads \ {t} : pc'[u] = pc[u] /\ cur'[u] = cur[u]
  BY <1>0 DEF ExtractTakes, ThreadTypes
<1>4. x \in Buffers /\ PoolOf[x] = p  BY <1>0, <1>2, TailHome
<1>5. /\ x \in AsSet(FreeBuffer[p]) /\ AsSet(Tail(FreeBuffer[p])) = AsSet(FreeBuffer[p]) \ {x}
      /\ Once(Tail(FreeBuffer[p]))
  <2>1. FreeBuffer[p] \in Seq(Buffers)  BY <1>0, <1>2 DEF PoolTypes
  <2> QED BY <1>2, <2>1, TailOnce DEF PlacesInv, Single
<1> HIDE DEF p, x
<1>6. \A b \in Buffers : Free(b)' <=> Free(b) /\ b # x
  <2>1. ASSUME NEW b \in Buffers PROVE Free(b)' <=> Free(b) /\ b # x
    <3>1. PoolOf[b] \in Pools  BY PoolsAssumption
    <3>2. CASE PoolOf[b] = p  BY <1>2, <1>5, <3>2 DEF Free
    <3>3. CASE PoolOf[b] # p  BY <1>2, <1>4, <3>1, <3>3 DEF Free
    <3> QED BY <3>2, <3>3
  <2> QED BY <2>1
<1>7. Free(x)  BY <1>4, <1>5 DEF Free
<1>8. ~Taken(x) /\ ~Released(x) /\ ~InUse(x) /\ x \notin lost
  BY <1>4, <1>7 DEF PlacesInv, Placed
<1>9. Single'
  <2>1. \A q \in Pools : Once(FreeBuffer'[q])  BY <1>2, <1>5 DEF PlacesInv, Single
  <2>2. \A u, v \in Threads : pc'[u] = "memory" /\ pc'[v] = "memory" /\ cur'[u] = cur'[v] => u = v
    BY <1>1, <1>3, <1>8 DEF PlacesInv, Single, Taken
  <2> QED BY <1>1, <2>1, <2>2 DEF PlacesInv, Single
<1>10. ASSUME NEW b \in Buffers PROVE Placed(b)'
  <2>1. /\ Released(b)' <=> Released(b)
        /\ InUse(b)' <=> InUse(b)
        /\ Destroyed(PoolOf[b])' <=> Destroyed(PoolOf[b])
    BY <1>1 DEF Released, InUse, Destroyed
  <2>2. CASE b = x
    <3>1. Taken(b)' /\ ~Free(b)'  BY <1>3, <1>6, <2>2 DEF Taken
    <3> QED BY <1>1, <1>8, <2>1, <2>2, <3>1 DEF Placed
  <2>3. CASE b # x
    <3>1. Taken(b)' <=> Taken(b)  BY <1>1, <1>3, <2>3, TakenMoves
    <3>2. Placed(b)  BY DEF PlacesInv
    <3> QED BY <1>1, <1>6, <2>1, <2>3, <3>1, <3>2 DEF Placed
  <2> QED BY <2>2, <2>3
<1> QED BY <1>9, <1>10 DEF PlacesInv

\* ... to its caller, or lost, ...
LEMMA PlacesGot ==
  ASSUME TypeInv, PlacesInv, NEW t \in Threads, GetMemory(t) \/ GetMemoryFails(t)
  PROVE  PlacesInv'
<1>0. BufferTypes /\ ThreadTypes /\ LocalsAt(t)  BY DEF TypeInv, TypeOK, LocalsOK
<1>1. PICK x \in Buffers : pc[t] = "memory" /\ x = cur[t]
  BY <1>0 DEF GetMemory, GetMemoryFails, LocalsAt
<1>2. UNCHANGED <<FreeBuffer, stack, listed, destroyer>>
  BY DEF GetMemory, GetMemoryFails, pool
<1>3. /\ pc'[t] # "memory"
      /\ \A u \in Threads \ {t} : pc'[u] = pc[u] /\ cur'[u] = cur[u]
  <2>1. CASE GetMemory(t)  BY <1>0, <2>1 DEF GetMemory, ThreadTypes
  <2>2. CASE GetMemoryFails(t)  BY <1>0, <2>2 DEF GetMemoryFails, GetFails, ThreadTypes
  <2> QED BY <2>1, <2>2
<1>4. /\ \A b \in Buffers \ {x} : (InUse(b)' <=> InUse(b)) /\ (b \in lost' <=> b \in lost)
      /\ InUse(x)' <=> x \notin lost'
  <2>0. Taken(x)  BY <1>1 DEF Taken
  <2>1. ~InUse(x) /\ x \notin lost  BY <1>1, <2>0 DEF PlacesInv, Placed
  <2>2. CASE GetMemory(t)
    <3>1. ReferenceCount' = [ReferenceCount EXCEPT ![x] = 1] /\ lost' = lost
      BY <1>1, <2>2 DEF GetMemory
    <3>2. ReferenceCount'[x] = 1 /\ \A b \in Buffers \ {x} : ReferenceCount'[b] = ReferenceCount[b]
      BY <1>0, <3>1 DEF BufferTypes
    <3> QED BY <2>1, <3>1, <3>2 DEF InUse
  <2>3. CASE GetMemoryFails(t)
    <3>1. ReferenceCount' = ReferenceCount /\ lost' = lost \cup {x}
      BY <1>1, <2>3 DEF GetMemoryFails
    <3> QED BY <2>1, <3>1 DEF InUse
  <2> QED BY <2>2, <2>3
<1>5. Taken(x) /\ ~Free(x) /\ ~Released(x)
  <2>1. Taken(x)  BY <1>1 DEF Taken
  <2> QED BY <1>1, <2>1 DEF PlacesInv, Placed
<1>6. ~Taken(x)'
  <2>1. \A u \in Threads \ {t} : ~(pc[u] = "memory" /\ cur[u] = x)
    BY <1>1 DEF PlacesInv, Single
  <2> QED BY <1>3, <2>1 DEF Taken
<1>7. Single'  BY <1>2, <1>3 DEF PlacesInv, Single
<1>8. ASSUME NEW b \in Buffers PROVE Placed(b)'
  <2>1. /\ Released(b)' <=> Released(b)
        /\ Free(b)' <=> Free(b)
        /\ Destroyed(PoolOf[b])' <=> Destroyed(PoolOf[b])
    BY <1>2 DEF Released, Free, Destroyed
  <2>2. CASE b = x  BY <1>4, <1>5, <1>6, <2>1, <2>2 DEF Placed
  <2>3. CASE b # x
    <3>1. Taken(b)' <=> Taken(b)  BY <1>1, <1>3, <2>3, TakenMoves
    <3>2. Placed(b)  BY DEF PlacesInv
    <3> QED BY <1>4, <2>1, <2>3, <3>1, <3>2 DEF Placed
  <2> QED BY <2>2, <2>3
<1> QED BY <1>7, <1>8 DEF PlacesInv

\* ... to the thread that drops its last reference, ...
LEMMA PlacesDropped ==
  ASSUME TypeInv, ReferencesInv, PlacesInv, NEW t \in Threads, DecrementBuffer(t)
  PROVE  PlacesInv'
<1>0. BufferTypes /\ ThreadTypes /\ LocalsAt(t)  BY DEF TypeInv, TypeOK, LocalsOK
<1>1. PICK x \in Buffers : pc[t] = "decrementbuffer" /\ x = cur[t] /\ Decrementing(t)
  BY <1>0 DEF DecrementBuffer, LocalsAt, Decrementing
<1>2. UNCHANGED <<FreeBuffer, lost, listed, destroyer>>  BY DEF DecrementBuffer, pool
<1>3. /\ pc'[t] # "memory"
      /\ \A u \in Threads \ {t} : pc'[u] = pc[u] /\ cur'[u] = cur[u] /\ stack'[u] = stack[u]
  <2>1. /\ \E l \in {"release", "slots", "idle", "tidyup"} : pc' = [pc EXCEPT ![t] = l]
        /\ cur' = [cur EXCEPT ![t] = NULL]
        /\ \E s : stack' = [stack EXCEPT ![t] = s]
    BY AfterPlaces DEF DecrementBuffer, Return
  <2> QED BY <1>0, <2>1 DEF ThreadTypes
<1>4. /\ ReferenceCount'[x] = ReferenceCount[x] - 1 /\ ReferenceCount[x] \in Nat
      /\ \A b \in Buffers \ {x} : ReferenceCount'[b] = ReferenceCount[b]
  BY <1>0, <1>1 DEF DecrementBuffer, BufferTypes
<1>5. InUse(x)  BY <1>1, UserCounted DEF InUse
<1>6. \A b \in Buffers : Taken(b)' <=> Taken(b)
  BY <1>1, <1>3, TakenMoves
<1>7. \A b \in Buffers : /\ Free(b)' <=> Free(b)
                         /\ Destroyed(PoolOf[b])' <=> Destroyed(PoolOf[b])
  BY <1>2 DEF Free, Destroyed
<1>8. CASE ReferenceCount[x] # 1
  <2>1. stack' = stack
    BY <1>0, <1>1, <1>8 DEF DecrementBuffer, Return, ThreadTypes
  <2>2. \A b \in Buffers : InUse(b)' <=> InUse(b)  BY <1>4, <1>5, <1>8 DEF InUse
  <2>3. \A b \in Buffers : Released(b)' <=> Released(b)  BY <2>1 DEF Released
  <2>4. Single'  BY <1>1, <1>2, <1>3, <2>1 DEF PlacesInv, Single
  <2>5. \A b \in Buffers : Placed(b)'
    BY <1>2, <1>6, <1>7, <2>2, <2>3 DEF PlacesInv, Placed
  <2> QED BY <2>4, <2>5 DEF PlacesInv
<1>9. CASE ReferenceCount[x] = 1
  <2>1. stack' = [stack EXCEPT ![t] = Append(@, x)]
    BY <1>1, <1>9 DEF DecrementBuffer
  <2>2. stack'[t] = Append(stack[t], x) /\ stack[t] \in Seq(Buffers)
    BY <1>0, <2>1 DEF ThreadTypes
  <2>3. ~Free(x) /\ ~Taken(x) /\ ~Released(x) /\ x \notin lost
    BY <1>5 DEF PlacesInv, Placed
  <2>4. AsSet(stack'[t]) = AsSet(stack[t]) \cup {x} /\ Once(stack'[t])
    BY <2>2, <2>3, AppendOnce DEF PlacesInv, Single, Released
  <2>5. \A b : Released(b)' <=> Released(b) \/ b = x
    BY <1>3, <2>4 DEF Released
  <2>6. \A b \in Buffers : InUse(b)' <=> InUse(b) /\ b # x
    BY <1>4, <1>9 DEF InUse
  <2>7. Single'
    <3>1. \A u, v \in Threads : \A b \in AsSet(stack'[u]) : b \in AsSet(stack'[v]) => u = v
      BY <1>3, <2>3, <2>4 DEF PlacesInv, Single, Released
    <3>2. \A u \in Threads : Once(stack'[u])
      BY <1>3, <2>4 DEF PlacesInv, Single
    <3> QED BY <1>1, <1>2, <1>3, <3>1, <3>2 DEF PlacesInv, Single
  <2>8. ASSUME NEW b \in Buffers PROVE Placed(b)'
    <3>1. CASE b = x  BY <1>2, <1>6, <1>7, <2>3, <2>5, <2>6, <3>1 DEF Placed
    <3>2. CASE b # x  BY <1>2, <1>6, <1>7, <2>5, <2>6, <3>2 DEF PlacesInv, Placed
    <3> QED BY <3>1, <3>2
  <2> QED BY <2>7, <2>8 DEF PlacesInv
<1> QED BY <1>8, <1>9

\* ... and back into the ring.
LEMMA PlacesInserted ==
  ASSUME TypeInv, PlacesInv, NEW t \in Threads, ReleaseInsert(t)
  PROVE  PlacesInv'
<1>0. PoolTypes /\ ThreadTypes /\ LocalsAt(t)  BY DEF TypeInv, TypeOK, LocalsOK
<1>1. ReleaseEffect(t, Top(t), PoolOf[Top(t)])  BY InsertOutcome
<1>2. pc[t] = "insert" /\ stack[t] # <<>>
  BY <1>0, <1>1 DEF ReleaseEffect, LocalsAt, Releasing
<1>3. PICK x \in Buffers : x = Top(t)  BY <1>0, <1>2, TopIn
<1>4. PICK p \in Pools : p = PoolOf[x]  BY PoolsAssumption
<1>5. UNCHANGED <<ReferenceCount, lost, listed, destroyer>>
  BY <1>1 DEF ReleaseEffect, buffer
<1>6. /\ pc'[t] # "memory"
      /\ \A u \in Threads \ {t} : pc'[u] = pc[u] /\ cur'[u] = cur[u] /\ stack'[u] = stack[u]
      /\ stack'[t] = SubSeq(stack[t], 1, Len(stack[t]) - 1)
  BY <1>0, <1>1, AfterPlaces DEF ReleaseEffect, ThreadTypes
<1>7. /\ FreeBuffer'[p] = Append(FreeBuffer[p], x) /\ FreeBuffer[p] \in Seq(Buffers)
      /\ \A q \in Pools \ {p} : FreeBuffer'[q] = FreeBuffer[q]
  BY <1>0, <1>1, <1>3, <1>4 DEF ReleaseEffect, PoolTypes
<1>8. /\ x \in AsSet(stack[t]) /\ AsSet(stack'[t]) = AsSet(stack[t]) \ {x} /\ Once(stack'[t])
  BY <1>0, <1>2, <1>3, <1>6, PopOnce DEF PlacesInv, Single
<1>9. Released(x)  BY <1>8 DEF Released
<1>10. ~Free(x) /\ ~Taken(x) /\ ~InUse(x) /\ x \notin lost
  BY <1>9 DEF PlacesInv, Placed
<1>11. AsSet(FreeBuffer'[p]) = AsSet(FreeBuffer[p]) \cup {x} /\ Once(FreeBuffer'[p])
  BY <1>4, <1>7, <1>10, AppendOnce DEF PlacesInv, Single, Free
<1>12. \A b \in Buffers : Free(b)' <=> Free(b) \/ b = x
  <2>1. ASSUME NEW b \in Buffers PROVE Free(b)' <=> Free(b) \/ b = x
    <3>1. PoolOf[b] \in Pools  BY PoolsAssumption
    <3>2. CASE PoolOf[b] = p  BY <1>4, <1>11, <3>2 DEF Free
    <3>3. CASE PoolOf[b] # p  BY <1>4, <1>7, <3>1, <3>3 DEF Free
    <3> QED BY <3>2, <3>3
  <2> QED BY <2>1
<1>13. \A b : Released(b)' <=> Released(b) /\ b # x
  <2>1. \A u \in Threads \ {t} : x \notin AsSet(stack[u])
    BY <1>8 DEF PlacesInv, Single
  <2> QED BY <1>6, <1>8, <2>1 DEF Released
<1>14. \A b \in Buffers : /\ Taken(b)' <=> Taken(b)
                          /\ InUse(b)' <=> InUse(b)
                          /\ Destroyed(PoolOf[b])' <=> Destroyed(PoolOf[b])
  <2>1. \A b \in Buffers : Taken(b)' <=> Taken(b)  BY <1>2, <1>6, TakenMoves
  <2> QED BY <1>5, <2>1 DEF InUse, Destroyed
<1>15. Single'
  <2>1. \A q \in Pools : Once(FreeBuffer'[q])  BY <1>7, <1>11 DEF PlacesInv, Single
  <2>2. \A u, v \in Threads : \A b \in AsSet(stack'[u]) : b \in AsSet(stack'[v]) => u = v
    BY <1>6, <1>8 DEF PlacesInv, Single
  <2>3. \A u \in Threads : Once(stack'[u])  BY <1>6, <1>8 DEF PlacesInv, Single
  <2>4. \A u, v \in Threads : pc'[u] = "memory" /\ pc'[v] = "memory" /\ cur'[u] = cur'[v] => u = v
    BY <1>6 DEF PlacesInv, Single
  <2> QED BY <2>1, <2>2, <2>3, <2>4 DEF Single
<1>16. ASSUME NEW b \in Buffers PROVE Placed(b)'
  <2>1. CASE b = x  BY <1>5, <1>10, <1>12, <1>13, <1>14, <2>1 DEF Placed
  <2>2. CASE b # x  BY <1>5, <1>12, <1>13, <1>14, <2>2 DEF PlacesInv, Placed
  <2> QED BY <2>1, <2>2
<1> QED BY <1>15, <1>16 DEF PlacesInv

\* A destroyed pool has no places.
LEMMA PlacesGone ==
  ASSUME TypeInv, PlacesInv, NEW t \in Threads, NEW p \in Pools, TidyUpEnd(t, p), p \notin listed
  PROVE  PlacesInv'
<1>0. PoolTypes /\ ThreadTypes  BY DEF TypeInv, TypeOK
<1>1. UNCHANGED <<ReferenceCount, lost, listed, stack>> /\ pc[t] = "tidyup"
  BY DEF TidyUpEnd, buffer
<1>2. /\ FreeBuffer'[p] = <<>> /\ destroyer'[p] = NULL
      /\ \A q \in Pools \ {p} : FreeBuffer'[q] = FreeBuffer[q] /\ destroyer'[q] = destroyer[q]
  BY <1>0 DEF TidyUpEnd, PoolTypes
<1>3. /\ pc'[t] # "memory"
      /\ \A u \in Threads \ {t} : pc'[u] = pc[u] /\ cur'[u] = cur[u]
  BY <1>0 DEF TidyUpEnd, ThreadTypes
<1>4. Single'
  <2>1. \A q \in Pools : Once(FreeBuffer'[q])  BY <1>2 DEF PlacesInv, Single, Once
  <2> QED BY <1>1, <1>3, <2>1 DEF PlacesInv, Single
<1>5. ASSUME NEW b \in Buffers PROVE Placed(b)'
  <2>1. PoolOf[b] \in Pools  BY PoolsAssumption
  <2>2. /\ Taken(b)' <=> Taken(b)
        /\ InUse(b)' <=> InUse(b)
        /\ Released(b)' <=> Released(b)
    BY <1>1, <1>3, TakenMoves DEF InUse, Released
  <2>3. CASE PoolOf[b] = p
    <3>1. ~Free(b)' /\ Destroyed(PoolOf[b])'
      BY <1>1, <1>2, <2>3 DEF Free, Destroyed, AsSet
    <3> QED BY <1>1, <2>2, <3>1 DEF PlacesInv, Placed
  <2>4. CASE PoolOf[b] # p
    <3>1. /\ Free(b)' <=> Free(b)
          /\ Destroyed(PoolOf[b])' <=> Destroyed(PoolOf[b])
      BY <1>1, <1>2, <2>1, <2>4 DEF Free, Destroyed
    <3> QED BY <1>1, <2>2, <3>1 DEF PlacesInv, Placed
  <2> QED BY <2>3, <2>4
<1> QED BY <1>4, <1>5 DEF PlacesInv

\* Every step leaves each buffer in one place: in the free ring, taken out of it by a
\* call of GetBuffer, in use, on its way back, or lost.
LEMMA PlacesStep ==
  ASSUME TypeInv, ReferencesInv, PlacesInv, NEW t \in Threads, Call(t) \/ Step(t),
         \A p \in Pools : destroyer[p] # NULL => p \notin listed
  PROVE  PlacesInv'
<1>0. BufferTypes /\ PoolTypes /\ ThreadTypes /\ LocalsAt(t)
  BY DEF TypeInv, TypeOK, LocalsOK
<1> DEFINE kept == /\ UNCHANGED <<FreeBuffer, stack, lost>>
                   /\ pc[t] # "memory" /\ pc'[t] # "memory" /\ OthersStay(t)
                   /\ \A b \in Buffers : InUse(b)' <=> InUse(b)
                   /\ \A p \in Pools : Destroyed(p) => Destroyed(p)'
<1>1. kept => PlacesInv'  BY PlacesKept
<1>2. ASSUME NEW p \in Pools, NEW nonblocking \in BOOLEAN, GetEnter(t, p, nonblocking) PROVE kept
  BY <1>0, <1>2 DEF GetEnter, buffer, ThreadTypes, OthersStay, InUse, Destroyed
<1>3. ASSUME GetExtract(t) PROVE PlacesInv'
  <2>1. CASE ExtractTakes(t)  BY <1>3, <2>1, PlacesTake
  <2>2. CASE ExtractFails(t)
    <3>1. kept
      BY <1>0, <1>3, <2>2, ExtractOutcomes
         DEF ExtractFails, GetFails, buffer, ThreadTypes, OthersStay, InUse, Destroyed
    <3> HIDE DEF kept
    <3> QED BY <1>1, <3>1
  <2>3. CASE ExtractWaits(t)
    <3>1. kept
      BY <1>0, <1>3, <2>3, ExtractOutcomes
         DEF ExtractWaits, buffer, ThreadTypes, OthersStay, InUse, Destroyed
    <3> HIDE DEF kept
    <3> QED BY <1>1, <3>1
  <2> QED BY <1>3, <2>1, <2>2, <2>3, ExtractOutcomes
<1>4. ASSUME GetAborted(t) PROVE kept
  BY <1>0, <1>4 DEF GetAborted, GetFails, buffer, ThreadTypes, OthersStay, InUse, Destroyed
<1>5. ASSUME GetWoken(t) PROVE kept
  BY <1>0, <1>5 DEF GetWoken, buffer, pool, ThreadTypes, OthersStay, InUse, Destroyed
<1>6. ASSUME GetCount(t) PROVE kept
  BY <1>0, <1>6 DEF GetCount, GetFails, buffer, ThreadTypes, OthersStay, InUse, Destroyed
<1>7. ASSUME IncrementPool(t) \/ DecrementPool(t) PROVE kept
  BY <1>0, <1>7
     DEF IncrementPool, DecrementPool, buffer, ThreadTypes, OthersStay, InUse, Destroyed
<1>8. ASSUME NEW b \in Buffers, NEW u \in Threads, IncrementReferenceCount(t, b, u) PROVE kept
  BY <1>0, <1>8
     DEF IncrementReferenceCount, buffer, pool, ThreadTypes, OthersStay, InUse, Destroyed
<1>9. ASSUME NEW b \in Buffers, DecrementReferenceCount(t, b) PROVE kept
  BY <1>0, <1>9
     DEF DecrementReferenceCount, buffer, pool, ThreadTypes, OthersStay, InUse, Destroyed
<1>10. ASSUME IncrementBuffer(t) PROVE kept
  <2>1. cur[t] \in refs[t] /\ cur[t] \in Buffers /\ Incrementing(t)
    BY <1>0, <1>10 DEF IncrementBuffer, LocalsAt, Incrementing, ThreadTypes
  <2>2. ReferenceCount[cur[t]] \in Nat \ {0}
    BY <1>0, <2>1, UserCounted DEF BufferTypes
  <2>3. ReferenceCount' = [ReferenceCount EXCEPT ![cur[t]] = @ + 1]
    BY <1>10 DEF IncrementBuffer
  <2>4. \A b \in Buffers : InUse(b)' <=> InUse(b)
    BY <1>0, <2>1, <2>2, <2>3 DEF InUse, BufferTypes
  <2>5. \A u \in Threads : refs[u] \subseteq refs'[u]
    BY <1>0, <1>10 DEF IncrementBuffer, ThreadTypes
  <2> QED BY <1>0, <1>10, <2>4, <2>5 DEF IncrementBuffer, pool, ThreadTypes, OthersStay, Destroyed
<1>11. ASSUME NEW h \in Buffers, NEW b \in Buffers, AttachBuffer(t, h, b) PROVE kept
  BY <1>0, <1>11, AttachOutcome
     DEF AttachEffect, pool, ThreadTypes, OthersStay, InUse, Destroyed
<1>12. ASSUME NEW h \in Buffers, NEW i \in Slots, DetachEffect(t, h, i), pc[t] # "memory"
       PROVE  kept
  BY <1>0, <1>12 DEF DetachEffect, pool, ThreadTypes, OthersStay, InUse, Destroyed
<1>13. ASSUME ReleaseLock(t) PROVE kept
  BY <1>0, <1>13 DEF ReleaseLock, pool, ThreadTypes, OthersStay, InUse, Destroyed
<1>14. ASSUME ReleaseUnlock(t) PROVE kept
  BY <1>0, <1>14 DEF ReleaseUnlock, pool, ThreadTypes, OthersStay, InUse, Destroyed
<1>15. ASSUME ReleaseMemory(t) PROVE kept
  BY <1>0, <1>15 DEF ReleaseMemory, pool, ThreadTypes, OthersStay, InUse, Destroyed
<1>16. ASSUME NEW p \in Pools, DestroyPool(t, p) PROVE kept
  BY <1>0, <1>16, PoolsAssumption
     DEF DestroyPool, buffer, PoolTypes, ThreadTypes, OthersStay, InUse, Destroyed
<1>17. ASSUME NEW h \in Buffers, NEW b \in Buffers, DetachBuffer(t, h, b) PROVE kept
  <2>1. pc[t] = "idle"  BY <1>17 DEF DetachBuffer
  <2> HIDE DEF kept
  <2> QED BY <1>12, <1>17, <2>1, DetachOutcome
<1>18. ASSUME ReleaseAttached(t) PROVE kept
  <2>1. pc[t] = "slots"  BY <1>18 DEF ReleaseAttached
  <2>2. stack[t] # <<>>  BY <1>0, <2>1 DEF LocalsAt, Releasing
  <2>3. Top(t) \in Buffers  BY <1>0, <2>2, TopIn
  <2> HIDE DEF kept
  <2> QED BY <1>0, <1>12, <1>18, <2>1, <2>2, <2>3, ReleaseOutcome
<1>19. ASSUME NEW p \in Pools, TidyUpDetach(t, p) PROVE kept
  <2>1. pc[t] = "tidyup"  BY <1>19 DEF TidyUpDetach
  <2> HIDE DEF kept
  <2> QED BY <1>12, <1>19, <2>1, TidyUpOutcome
<1>20. ASSUME NEW p \in Pools, TidyUpEnd(t, p) PROVE PlacesInv'
  <2>1. p \notin listed  BY <1>20, PoolsAssumption DEF TidyUpEnd
  <2> QED BY <1>20, <2>1, PlacesGone
<1> HIDE DEF kept
<1>21. CASE Call(t)
  BY <1>1, <1>2, <1>8, <1>9, <1>11, <1>16, <1>17, <1>21 DEF Call
<1>22. CASE GetStep(t)
  BY <1>1, <1>3, <1>4, <1>5, <1>6, <1>22, PlacesGot DEF GetStep
<1>23. CASE ReferenceStep(t)
  BY <1>1, <1>7, <1>10, <1>23, PlacesDropped DEF ReferenceStep
<1>24. CASE ReleaseStep(t) \/ TidyUpStep(t)
  BY <1>1, <1>13, <1>14, <1>15, <1>18, <1>19, <1>20, <1>24, PlacesInserted
     DEF ReleaseStep, TidyUpStep
<1> QED BY <1>21, <1>22, <1>23, <1>24 DEF Step

\* The constructor has put every buffer of a pool into its ring, in some order.
LEMMA PlacesInit == Init => PlacesInv
<1> SUFFICES ASSUME Init PROVE PlacesInv  OBVIOUS
<1>1. ASSUME NEW p \in Pools
      PROVE  Once(FreeBuffer[p]) /\ AsSet(FreeBuffer[p]) = PoolBuffers(p)
  <2> DEFINE n == Cardinality(PoolBuffers(p))
  <2>1. /\ FreeBuffer[p] \in [1 .. n -> PoolBuffers(p)]
        /\ AsSet(FreeBuffer[p]) = PoolBuffers(p)
    BY DEF Init, Orders
  <2>2. IsFiniteSet(PoolBuffers(p)) /\ n \in Nat
    <3>1. PoolBuffers(p) \in SUBSET Buffers  BY DEF PoolBuffers
    <3> QED BY <3>1, PoolsAssumption, FS_Subset, FS_CardinalityType
  <2>3. IsFiniteSet(1 .. n) /\ Cardinality(1 .. n) = n
    BY <2>2, FS_Interval
  <2> HIDE DEF n
  <2>4. FreeBuffer[p] \in Surjection(1 .. n, PoolBuffers(p))
    BY <2>1 DEF AsSet, Surjection
  <2>5. FreeBuffer[p] \in Injection(1 .. n, PoolBuffers(p))
    BY <2>3, <2>4, FS_SurjSameCardinalityImpliesInj DEF n
  <2>6. Once(FreeBuffer[p])  BY <2>1, <2>5 DEF Injection, IsInjective, Once
  <2> QED BY <2>1, <2>6
<1>2. /\ \A b \in Buffers : ReferenceCount[b] = 0
      /\ \A t \in Threads : pc[t] = "idle" /\ stack[t] = <<>>
      /\ lost = {}
  BY DEF Init
<1>3. Single
  <2>1. \A t \in Threads : Once(stack[t]) /\ AsSet(stack[t]) = {}
    BY <1>2 DEF Once, AsSet
  <2> QED BY <1>1, <1>2, <2>1 DEF Single
<1>4. ASSUME NEW b \in Buffers PROVE Placed(b)
  <2>1. Free(b)
    <3>1. PoolOf[b] \in Pools /\ b \in PoolBuffers(PoolOf[b])
      BY PoolsAssumption DEF PoolBuffers
    <3> QED BY <1>1, <3>1 DEF Free
  <2>2. ~Taken(b) /\ ~Released(b) /\ ~InUse(b) /\ b \notin lost
    BY <1>2 DEF Taken, Released, InUse, AsSet
  <2> QED BY <2>1, <2>2 DEF Placed
<1> QED BY <1>3, <1>4 DEF PlacesInv

\* An abort moves nothing.
LEMMA PlacesStay ==
  ASSUME PlacesInv, UNCHANGED <<buffer, thread, FreeBuffer, listed, destroyer>>
  PROVE  PlacesInv'
<1> USE DEF buffer, thread
<1>1. Single'  BY DEF PlacesInv, Single
<1>2. \A b \in Buffers : Placed(b)'
  BY DEF PlacesInv, Placed, Free, Taken, Released, InUse, Destroyed
<1> QED BY <1>1, <1>2 DEF PlacesInv

---------------------------------------------------------------------------
(* What a release leaves behind: no attachment, no lock, no memory.        *)

Leaving(t) == pc[t] \in {"deallocate", "insert"}

\* The buffers to which nothing may be attached.
Bare(b) == Free(b) \/ Taken(b) \/ \E t \in Threads : Leaving(t) /\ Top(t) = b

Emptied == \A b \in Buffers : Bare(b) => \A i \in Slots : AttachedBuffers[b][i] = NULL

\* A buffer's Lock is held while its attachments are released.
LocksOK ==
  \A b \in Buffers, t \in Threads : BufferLock[b] = t =>
    b \in AsSet(stack[t]) /\ (pc[t] = "release" \/ Leaving(t) => Top(t) # b)

\* Who has memory: what is referenced, and what is released up to its deallocation.
Owning(b) ==
  InUse(b) \/ \E t \in Threads : b \in AsSet(stack[t]) /\ ~(pc[t] = "insert" /\ Top(t) = b)

MemoryOK == \A b \in Buffers : b \in allocated <=> PoolOf[b] \in MemoryPools /\ Owning(b)

LeftInv == Emptied /\ LocksOK /\ MemoryOK

\* What is released is in one stack, and not in use.
LEMMA ReleasedOnce ==
  ASSUME TypeInv, PlacesInv, NEW t \in Threads, stack[t] # <<>>
  PROVE  /\ Top(t) \in AsSet(stack[t]) /\ Top(t) \in Buffers
         /\ \A b \in AsSet(stack[t]) : b \in Buffers /\ ~InUse(b)
         /\ \A u \in Threads : u # t => Top(t) \notin AsSet(stack[u])
<1>0. ThreadTypes  BY DEF TypeInv, TypeOK
<1>1. /\ Top(t) \in Buffers /\ Top(t) = stack[t][Len(stack[t])]
      /\ Len(stack[t]) \in DOMAIN stack[t] /\ stack[t] \in Seq(Buffers)
  BY <1>0, TopIn DEF Top
<1>2. Top(t) \in AsSet(stack[t])  BY <1>1 DEF AsSet
<1>3. \A b \in AsSet(stack[t]) : b \in Buffers /\ Released(b)
  BY <1>1 DEF AsSet, Released
<1>4. \A b \in AsSet(stack[t]) : ~InUse(b)  BY <1>3 DEF PlacesInv, Placed
<1> QED BY <1>1, <1>2, <1>3, <1>4 DEF PlacesInv, Single

\* What is bare is not in use.
LEMMA BareUnused ==
  ASSUME TypeInv, PlacesInv, NEW b \in Buffers, Bare(b)
  PROVE  ~InUse(b)
<1>1. ASSUME NEW t \in Threads, Leaving(t), Top(t) = b PROVE ~InUse(b)
  <2>1. stack[t] # <<>>  BY <1>1 DEF TypeInv, LocalsOK, LocalsAt, Releasing, Leaving
  <2> QED BY <1>1, <2>1, ReleasedOnce
<1> QED BY <1>1 DEF Bare, PlacesInv, Placed

\* A step that leaves the rings, the stacks, the locks and the memory alone, and
\* attaches nothing to what is bare.
LEMMA LeftKept ==
  ASSUME LeftInv, NEW t \in Threads, OthersStay(t),
         UNCHANGED <<FreeBuffer, stack, BufferLock, allocated>>,
         pc[t] # "insert", pc'[t] \notin {"memory", "release", "deallocate", "insert"},
         \A b \in Buffers : InUse(b)' <=> InUse(b),
         \A b \in Buffers, i \in Slots :
           Bare(b) => AttachedBuffers'[b][i] \in {AttachedBuffers[b][i], NULL}
  PROVE  LeftInv'
<1>1. \A u \in Threads \ {t} : pc'[u] = pc[u] /\ cur'[u] = cur[u]  BY DEF OthersStay
<1>2. \A u \in Threads : /\ Top(u)' = Top(u)
                         /\ Leaving(u)' => u # t /\ Leaving(u)
  BY <1>1 DEF Top, Leaving
<1>3. \A b \in Buffers : Bare(b)' => Bare(b)
  BY <1>1, <1>2 DEF Bare, Free, Taken
<1>4. Emptied'  BY <1>3 DEF LeftInv, Emptied
<1>5. LocksOK'  BY <1>1, <1>2 DEF LeftInv, LocksOK
<1>6. \A b \in Buffers : Owning(b)' <=> Owning(b)
  BY <1>1, <1>2 DEF Owning
<1>7. MemoryOK'  BY <1>6 DEF LeftInv, MemoryOK
<1> QED BY <1>4, <1>5, <1>7 DEF LeftInv

\* The steps that do not: a buffer out of the ring, ...
LEMMA LeftTake ==
  ASSUME TypeInv, LeftInv, NEW t \in Threads, GetExtract(t), ExtractTakes(t)
  PROVE  LeftInv'
<1>0. PoolTypes /\ ThreadTypes /\ LocalsAt(t) /\ Home  BY DEF TypeInv, TypeOK, LocalsOK
<1> DEFINE p == getting[t].pool
           x == Head(FreeBuffer[p])
<1>1. /\ UNCHANGED <<ReferenceCount, AttachedBuffers, BufferLock, allocated, stack>>
      /\ pc[t] \in {"extract", "woken"}
  BY ExtractOutcomes DEF buffer
<1>2. /\ p \in Pools /\ FreeBuffer[p] # <<>> /\ FreeBuffer[p] \in Seq(Buffers)
      /\ FreeBuffer' = [FreeBuffer EXCEPT ![p] = Tail(@)]
  BY <1>0, <1>1 DEF ExtractTakes, LocalsAt, Getting, PoolTypes
<1>3. x \in Buffers /\ PoolOf[x] = p  BY <1>0, <1>2, TailHome
<1>4. /\ pc'[t] = "memory" /\ cur'[t] = x
      /\ \A u \in Threads \ {t} : pc'[u] = pc[u] /\ cur'[u] = cur[u]
  BY <1>0 DEF ExtractTakes, ThreadTypes
<1>5. /\ AsSet(Tail(FreeBuffer[p])) \subseteq AsSet(FreeBuffer[p])
      /\ x \in AsSet(FreeBuffer[p])
  <2>1. /\ x = FreeBuffer[p][1] /\ 1 \in DOMAIN FreeBuffer[p]
        /\ DOMAIN Tail(FreeBuffer[p]) = 1 .. Len(FreeBuffer[p]) - 1
        /\ \A k \in 1 .. Len(FreeBuffer[p]) - 1 : Tail(FreeBuffer[p])[k] = FreeBuffer[p][k + 1]
    <3>1. /\ Tail(FreeBuffer[p]) \in Seq(Buffers)
          /\ Len(Tail(FreeBuffer[p])) = Len(FreeBuffer[p]) - 1
          /\ \A k \in 1 .. Len(Tail(FreeBuffer[p])) : Tail(FreeBuffer[p])[k] = FreeBuffer[p][k + 1]
      BY <1>2, HeadTailProperties
    <3> QED BY <1>2, <3>1
  <2>2. \A k \in 1 .. Len(FreeBuffer[p]) - 1 : k + 1 \in DOMAIN FreeBuffer[p]  BY <1>2
  <2> QED BY <2>1, <2>2 DEF AsSet
<1>6. Free(x)  BY <1>3, <1>5 DEF Free
<1> HIDE DEF p, x
<1>7. ASSUME NEW b \in Buffers, Bare(b)' PROVE Bare(b)
  <2>1. Free(b)' => Free(b)
    <3>1. PoolOf[b] \in Pools  BY PoolsAssumption
    <3> QED BY <1>0, <1>2, <1>5, <3>1 DEF Free, PoolTypes
  <2>2. Taken(b)' => Taken(b) \/ b = x  BY <1>4 DEF Taken
  <2>3. \A u \in Threads : Leaving(u)' /\ Top(u)' = b => Leaving(u) /\ Top(u) = b
    BY <1>1, <1>4 DEF Leaving, Top
  <2> QED BY <1>6, <1>7, <2>1, <2>2, <2>3 DEF Bare
<1>8. Emptied'  BY <1>1, <1>7 DEF LeftInv, Emptied
<1>9. LocksOK'  BY <1>1, <1>4 DEF LeftInv, LocksOK, Leaving, Top
<1>10. \A b \in Buffers : Owning(b)' <=> Owning(b)
  BY <1>1, <1>4 DEF Owning, InUse, Top
<1>11. MemoryOK'  BY <1>1, <1>10 DEF LeftInv, MemoryOK
<1> QED BY <1>8, <1>9, <1>11 DEF LeftInv

\* ... memory for it, ...
LEMMA LeftMemory ==
  ASSUME TypeInv, LeftInv, NEW t \in Threads, GetMemory(t)
  PROVE  LeftInv'
<1>0. BufferTypes /\ ThreadTypes /\ LocalsAt(t)  BY DEF TypeInv, TypeOK, LocalsOK
<1>1. PICK x \in Buffers : pc[t] = "memory" /\ x = cur[t] /\ PoolOf[x] = getting[t].pool
  BY <1>0 DEF GetMemory, LocalsAt
<1>2. /\ UNCHANGED <<FreeBuffer, stack, BufferLock>>
      /\ ReferenceCount' = [ReferenceCount EXCEPT ![x] = 1]
      /\ AttachedBuffers' = [AttachedBuffers EXCEPT ![x] = [i \in Slots |-> NULL]]
      /\ \/ PoolOf[x] \notin MemoryPools /\ allocated' = allocated
         \/ PoolOf[x] \in MemoryPools /\ allocated' = allocated \cup {x}
  <2>1. UNCHANGED <<FreeBuffer, stack, BufferLock>>  BY DEF GetMemory, pool
  <2>2. /\ ReferenceCount' = [ReferenceCount EXCEPT ![x] = 1]
        /\ AttachedBuffers' = [AttachedBuffers EXCEPT ![x] = [i \in Slots |-> NULL]]
    BY <1>1 DEF GetMemory
  <2>3. \/ PoolOf[x] \notin MemoryPools /\ allocated' = allocated
        \/ PoolOf[x] \in MemoryPools /\ allocated' = allocated \cup {x}
    BY <1>1 DEF GetMemory
  <2> QED BY <2>1, <2>2, <2>3
<1>3. /\ pc'[t] = "count"
      /\ \A u \in Threads \ {t} : pc'[u] = pc[u] /\ cur'[u] = cur[u]
  BY <1>0 DEF GetMemory, ThreadTypes
<1>4. \A u \in Threads : /\ Top(u)' = Top(u)
                         /\ Leaving(u)' => u # t /\ Leaving(u)
  BY <1>2, <1>3 DEF Top, Leaving
<1>5. \A b \in Buffers : Bare(b)' => Bare(b)
  BY <1>2, <1>3, <1>4 DEF Bare, Free, Taken
<1>6. \A b \in Buffers, i \in Slots : AttachedBuffers'[b][i] \in {AttachedBuffers[b][i], NULL}
  BY <1>0, <1>2 DEF BufferTypes
<1>7. Emptied'  BY <1>5, <1>6 DEF LeftInv, Emptied
<1>8. LocksOK'  BY <1>2, <1>3, <1>4 DEF LeftInv, LocksOK
<1>9. InUse(x)' /\ \A b \in Buffers \ {x} : InUse(b)' <=> InUse(b)
  BY <1>0, <1>2 DEF InUse, BufferTypes
<1>10. Owning(x)' /\ \A b \in Buffers \ {x} : Owning(b)' <=> Owning(b)
  BY <1>1, <1>2, <1>3, <1>4, <1>9 DEF Owning
<1>11. MemoryOK'  BY <1>2, <1>10 DEF LeftInv, MemoryOK
<1> QED BY <1>7, <1>8, <1>11 DEF LeftInv

\* ... the last reference, ...
LEMMA LeftDropped ==
  ASSUME TypeInv, ReferencesInv, PlacesInv, LeftInv, NEW t \in Threads, DecrementBuffer(t)
  PROVE  LeftInv'
<1>0. BufferTypes /\ ThreadTypes /\ LocalsAt(t)  BY DEF TypeInv, TypeOK, LocalsOK
<1>1. PICK x \in Buffers : pc[t] = "decrementbuffer" /\ x = cur[t] /\ Decrementing(t)
  BY <1>0 DEF DecrementBuffer, LocalsAt, Decrementing
<1>2. UNCHANGED <<FreeBuffer, AttachedBuffers, BufferLock, allocated>>
  BY DEF DecrementBuffer, pool
<1>3. /\ pc'[t] \in {"release", "slots", "idle", "tidyup"}
      /\ \A u \in Threads \ {t} : pc'[u] = pc[u] /\ cur'[u] = cur[u] /\ stack'[u] = stack[u]
  <2>1. /\ \E l \in {"release", "slots", "idle", "tidyup"} : pc' = [pc EXCEPT ![t] = l]
        /\ cur' = [cur EXCEPT ![t] = NULL]
        /\ \E s : stack' = [stack EXCEPT ![t] = s]
    BY AfterPlaces DEF DecrementBuffer, Return
  <2> QED BY <1>0, <2>1 DEF ThreadTypes
<1>4. /\ ReferenceCount'[x] = ReferenceCount[x] - 1 /\ ReferenceCount[x] \in Nat
      /\ \A b \in Buffers \ {x} : ReferenceCount'[b] = ReferenceCount[b]
  BY <1>0, <1>1 DEF DecrementBuffer, BufferTypes
<1>5. InUse(x)  BY <1>1, UserCounted DEF InUse
<1>6. \A u \in Threads : Leaving(u)' => u # t /\ Leaving(u) /\ Top(u)' = Top(u)
  BY <1>3 DEF Leaving, Top
<1>7. \A b \in Buffers : Bare(b)' => Bare(b)
  BY <1>2, <1>3, <1>6 DEF Bare, Free, Taken
<1>8. Emptied'  BY <1>2, <1>7 DEF LeftInv, Emptied
<1>9. \A u \in Threads \ {t} : Top(u)' = Top(u)  BY <1>3 DEF Top
<1>10. CASE ReferenceCount[x] # 1
  <2>1. stack' = stack /\ pc'[t] # "release"
    <3>1. stack' = [stack EXCEPT ![t] = stack[t]] /\ pc' = [pc EXCEPT ![t] = After(t, stack[t])]
      BY <1>1, <1>10 DEF DecrementBuffer, Return
    <3>2. After(t, stack[t]) # "release"  BY AfterPlaces
    <3> QED BY <1>0, <3>1, <3>2 DEF ThreadTypes
  <2>2. LocksOK'  BY <1>2, <1>3, <1>6, <1>9, <2>1 DEF LeftInv, LocksOK
  <2>3. \A b \in Buffers : InUse(b)' <=> InUse(b)  BY <1>4, <1>5, <1>10 DEF InUse
  <2>4. \A b \in Buffers : Owning(b)' <=> Owning(b)
    BY <1>1, <1>3, <1>9, <2>1, <2>3 DEF Owning
  <2>5. MemoryOK'  BY <1>2, <2>4 DEF LeftInv, MemoryOK
  <2> QED BY <1>8, <2>2, <2>5 DEF LeftInv
<1>11. CASE ReferenceCount[x] = 1
  <2>1. /\ stack'[t] = Append(stack[t], x) /\ stack[t] \in Seq(Buffers) /\ pc'[t] = "release"
    BY <1>0, <1>1, <1>11 DEF DecrementBuffer, ThreadTypes
  <2>2. ~Released(x)  BY <1>5 DEF PlacesInv, Placed
  <2>3. AsSet(stack'[t]) = AsSet(stack[t]) \cup {x}
    BY <2>1, <2>2, AppendOnce DEF PlacesInv, Single, Released
  <2>4. Top(t)' = x  BY <2>1 DEF Top
  <2>5. LocksOK'
    <3>1. ASSUME NEW b \in Buffers, BufferLock'[b] = t
          PROVE  b \in AsSet(stack'[t]) /\ Top(t)' # b
      <4>1. b \in AsSet(stack[t])  BY <1>2, <3>1 DEF LeftInv, LocksOK
      <4> QED BY <2>2, <2>3, <2>4, <4>1 DEF Released
    <3>2. ASSUME NEW b \in Buffers, NEW u \in Threads, u # t, BufferLock'[b] = u
          PROVE  b \in AsSet(stack'[u]) /\ (pc'[u] = "release" \/ Leaving(u)' => Top(u)' # b)
      BY <1>2, <1>3, <1>6, <1>9, <3>2 DEF LeftInv, LocksOK
    <3> QED BY <3>1, <3>2 DEF LocksOK
  <2>6. \A b \in Buffers : InUse(b)' <=> InUse(b) /\ b # x
    BY <1>4, <1>11 DEF InUse
  <2>7. \A b \in Buffers : Owning(b)' <=> Owning(b)
    BY <1>1, <1>3, <1>5, <1>9, <2>1, <2>3, <2>6 DEF Owning
  <2>8. MemoryOK'  BY <1>2, <2>7 DEF LeftInv, MemoryOK
  <2> QED BY <1>8, <2>5, <2>8 DEF LeftInv
<1> QED BY <1>10, <1>11

\* ... the Lock of a buffer, its attachments out of the way, its memory, ...
LEMMA LeftReleasing ==
  ASSUME TypeInv, PlacesInv, LeftInv, NEW t \in Threads,
         ReleaseLock(t) \/ ReleaseUnlock(t) \/ ReleaseMemory(t)
  PROVE  LeftInv'
<1>0. BufferTypes /\ ThreadTypes /\ LocalsAt(t)  BY DEF TypeInv, TypeOK, LocalsOK
<1>1. stack[t] # <<>>
  BY <1>0 DEF LocalsAt, Releasing, ReleaseLock, ReleaseUnlock, ReleaseMemory
<1>2. PICK x \in Buffers : x = Top(t)  BY <1>1, ReleasedOnce
<1>3. x \in AsSet(stack[t]) /\ ~InUse(x) /\ \A u \in Threads : u # t => x \notin AsSet(stack[u])
  BY <1>1, <1>2, ReleasedOnce
<1>4. UNCHANGED <<ReferenceCount, AttachedBuffers, FreeBuffer, stack, cur>>
  BY DEF ReleaseLock, ReleaseUnlock, ReleaseMemory, pool
<1>5. \A u \in Threads : Top(u)' = Top(u)  BY <1>4 DEF Top
<1>6. \A b \in Buffers : InUse(b)' <=> InUse(b)  BY <1>4 DEF InUse
<1>7. CASE ReleaseLock(t)
  <2>1. /\ pc[t] = "release" /\ pc'[t] = "slots" /\ \A u \in Threads \ {t} : pc'[u] = pc[u]
        /\ BufferLock'[x] = t /\ \A b \in Buffers \ {x} : BufferLock'[b] = BufferLock[b]
        /\ allocated' = allocated
    BY <1>0, <1>2, <1>7 DEF ReleaseLock, ThreadTypes, BufferTypes
  <2>2. \A b \in Buffers : Bare(b)' => Bare(b)
    BY <1>4, <1>5, <2>1 DEF Bare, Free, Taken, Leaving
  <2>3. Emptied'  BY <1>4, <2>2 DEF LeftInv, Emptied
  <2>4. LocksOK'  BY <1>3, <1>4, <1>5, <2>1 DEF LeftInv, LocksOK, Leaving
  <2>5. \A b \in Buffers : Owning(b)' <=> Owning(b)
    BY <1>4, <1>5, <1>6, <2>1 DEF Owning
  <2>6. MemoryOK'  BY <2>1, <2>5 DEF LeftInv, MemoryOK
  <2> QED BY <2>3, <2>4, <2>6 DEF LeftInv
<1>8. CASE ReleaseUnlock(t)
  <2>1. /\ pc[t] = "slots" /\ pc'[t] = "deallocate" /\ \A u \in Threads \ {t} : pc'[u] = pc[u]
        /\ BufferLock'[x] = NULL /\ \A b \in Buffers \ {x} : BufferLock'[b] = BufferLock[b]
        /\ allocated' = allocated /\ EmptySlots(x) = Slots
    BY <1>0, <1>2, <1>8 DEF ReleaseUnlock, ThreadTypes, BufferTypes
  <2>2. \A b \in Buffers : Bare(b)' => Bare(b) \/ b = x
    BY <1>2, <1>4, <1>5, <2>1 DEF Bare, Free, Taken, Leaving
  <2>3. \A i \in Slots : AttachedBuffers[x][i] = NULL  BY <2>1 DEF EmptySlots
  <2>4. Emptied'  BY <1>4, <2>2, <2>3 DEF LeftInv, Emptied
  <2>5. NULL \notin Threads  BY PoolsAssumption
  <2>6. LocksOK'  BY <1>2, <1>4, <1>5, <2>1, <2>5 DEF LeftInv, LocksOK, Leaving
  <2>7. \A b \in Buffers : Owning(b)' <=> Owning(b)
    BY <1>4, <1>5, <1>6, <2>1 DEF Owning
  <2>8. MemoryOK'  BY <2>1, <2>7 DEF LeftInv, MemoryOK
  <2> QED BY <2>4, <2>6, <2>8 DEF LeftInv
<1>9. CASE ReleaseMemory(t)
  <2>1. /\ pc[t] = "deallocate" /\ pc'[t] = "insert" /\ \A u \in Threads \ {t} : pc'[u] = pc[u]
        /\ BufferLock' = BufferLock /\ allocated' = allocated \ {x}
    BY <1>0, <1>2, <1>9 DEF ReleaseMemory, ThreadTypes
  <2>2. \A b \in Buffers : Bare(b)' => Bare(b)
    BY <1>4, <1>5, <2>1 DEF Bare, Free, Taken, Leaving
  <2>3. Emptied'  BY <1>4, <2>2 DEF LeftInv, Emptied
  <2>4. LocksOK'  BY <1>4, <1>5, <2>1 DEF LeftInv, LocksOK, Leaving
  <2>5. ~Owning(x)'  BY <1>2, <1>3, <1>4, <1>5, <1>6, <2>1 DEF Owning
  <2>6. \A b \in Buffers \ {x} : Owning(b)' <=> Owning(b)
    BY <1>2, <1>4, <1>5, <1>6, <2>1 DEF Owning
  <2>7. MemoryOK'  BY <2>1, <2>5, <2>6 DEF LeftInv, MemoryOK
  <2> QED BY <2>3, <2>4, <2>7 DEF LeftInv
<1> QED BY <1>7, <1>8, <1>9

\* ... the buffer back in the ring, ...
LEMMA LeftInserted ==
  ASSUME TypeInv, PlacesInv, LeftInv, NEW t \in Threads, ReleaseInsert(t)
  PROVE  LeftInv'
<1>0. PoolTypes /\ ThreadTypes /\ LocalsAt(t)  BY DEF TypeInv, TypeOK, LocalsOK
<1>1. ReleaseEffect(t, Top(t), PoolOf[Top(t)])  BY InsertOutcome
<1>2. pc[t] = "insert" /\ stack[t] # <<>>
  BY <1>0, <1>1 DEF ReleaseEffect, LocalsAt, Releasing
<1>3. PICK x \in Buffers : x = Top(t)  BY <1>2, ReleasedOnce
<1>4. PICK p \in Pools : p = PoolOf[x]  BY PoolsAssumption
<1>5. UNCHANGED <<ReferenceCount, AttachedBuffers, BufferLock, allocated>>
  BY <1>1 DEF ReleaseEffect, buffer
<1>6. /\ pc'[t] \in {"slots", "idle", "tidyup"}
      /\ \A u \in Threads \ {t} : pc'[u] = pc[u] /\ cur'[u] = cur[u] /\ stack'[u] = stack[u]
      /\ stack'[t] = SubSeq(stack[t], 1, Len(stack[t]) - 1)
  BY <1>0, <1>1, AfterPlaces DEF ReleaseEffect, ThreadTypes
<1>7. /\ FreeBuffer'[p] = Append(FreeBuffer[p], x) /\ FreeBuffer[p] \in Seq(Buffers)
      /\ \A q \in Pools \ {p} : FreeBuffer'[q] = FreeBuffer[q]
  BY <1>0, <1>1, <1>3, <1>4 DEF ReleaseEffect, PoolTypes
<1>8. AsSet(stack'[t]) = AsSet(stack[t]) \ {x}
  BY <1>0, <1>2, <1>3, <1>6, PopOnce DEF PlacesInv, Single
<1>9. ~InUse(x) /\ x \in AsSet(stack[t]) /\ \A u \in Threads : u # t => x \notin AsSet(stack[u])
  BY <1>2, <1>3, ReleasedOnce
<1>10. ~Free(x)
  <2>1. Released(x)  BY <1>9 DEF Released
  <2> QED BY <2>1 DEF PlacesInv, Placed
<1>11. AsSet(FreeBuffer'[p]) = AsSet(FreeBuffer[p]) \cup {x}
  BY <1>4, <1>7, <1>10, AppendOnce DEF PlacesInv, Single, Free
<1>12. \A u \in Threads \ {t} : Top(u)' = Top(u)  BY <1>6 DEF Top
<1>13. ASSUME NEW b \in Buffers, Bare(b)' PROVE Bare(b)
  <2>1. Free(b)' => Free(b) \/ b = x
    <3>1. PoolOf[b] \in Pools  BY PoolsAssumption
    <3> QED BY <1>4, <1>7, <1>11, <3>1 DEF Free
  <2>2. Taken(b)' => Taken(b)  BY <1>6 DEF Taken
  <2>3. \A u \in Threads : Leaving(u)' /\ Top(u)' = b => Leaving(u) /\ Top(u) = b
    BY <1>6, <1>12 DEF Leaving
  <2>4. Leaving(t) /\ Top(t) = x  BY <1>2, <1>3 DEF Leaving
  <2> QED BY <1>13, <2>1, <2>2, <2>3, <2>4 DEF Bare
<1>14. Emptied'  BY <1>5, <1>13 DEF LeftInv, Emptied
<1>15. LocksOK'
  <2>1. ASSUME NEW b \in Buffers, BufferLock[b] = t PROVE b \in AsSet(stack'[t])
    <3>1. b \in AsSet(stack[t]) /\ b # x
      BY <1>2, <1>3, <2>1 DEF LeftInv, LocksOK, Leaving
    <3> QED BY <1>8, <3>1
  <2>2. ASSUME NEW b \in Buffers, NEW u \in Threads, u # t, BufferLock[b] = u
        PROVE  b \in AsSet(stack'[u]) /\ (pc'[u] = "release" \/ Leaving(u)' => Top(u)' # b)
    BY <1>6, <1>12, <2>2 DEF LeftInv, LocksOK, Leaving
  <2> QED BY <1>5, <1>6, <2>1, <2>2 DEF LocksOK, Leaving
<1>16. ASSUME NEW b \in Buffers PROVE Owning(b)' <=> Owning(b)
  <2>1. InUse(b)' <=> InUse(b)  BY <1>5 DEF InUse
  <2>2. CASE b = x  BY <1>2, <1>3, <1>6, <1>8, <1>9, <2>1, <2>2 DEF Owning
  <2>3. CASE b # x  BY <1>2, <1>3, <1>6, <1>8, <1>12, <2>1, <2>3 DEF Owning
  <2> QED BY <2>2, <2>3
<1>17. MemoryOK'  BY <1>5, <1>16 DEF LeftInv, MemoryOK
<1> QED BY <1>14, <1>15, <1>17 DEF LeftInv

\* ... the ring deleted.
LEMMA LeftGone ==
  ASSUME TypeInv, LeftInv, NEW t \in Threads, NEW p \in Pools, TidyUpEnd(t, p)
  PROVE  LeftInv'
<1>0. PoolTypes /\ ThreadTypes  BY DEF TypeInv, TypeOK
<1>1. UNCHANGED <<ReferenceCount, AttachedBuffers, BufferLock, allocated, stack>> /\ pc[t] = "tidyup"
  BY DEF TidyUpEnd, buffer
<1>2. /\ FreeBuffer'[p] = <<>> /\ \A q \in Pools \ {p} : FreeBuffer'[q] = FreeBuffer[q]
  BY <1>0 DEF TidyUpEnd, PoolTypes
<1>3. /\ pc'[t] = "idle"
      /\ \A u \in Threads \ {t} : pc'[u] = pc[u] /\ cur'[u] = cur[u]
  BY <1>0 DEF TidyUpEnd, ThreadTypes
<1>4. \A u \in Threads : Top(u)' = Top(u)  BY <1>1 DEF Top
<1>5. ASSUME NEW b \in Buffers, Bare(b)' PROVE Bare(b)
  <2>1. Free(b)' => Free(b)
    <3>1. PoolOf[b] \in Pools  BY PoolsAssumption
    <3> QED BY <1>2, <3>1 DEF Free, AsSet
  <2> QED BY <1>3, <1>4, <1>5, <2>1 DEF Bare, Taken, Leaving
<1>6. Emptied'  BY <1>1, <1>5 DEF LeftInv, Emptied
<1>7. LocksOK'  BY <1>1, <1>3, <1>4 DEF LeftInv, LocksOK, Leaving
<1>8. \A b \in Buffers : Owning(b)' <=> Owning(b)
  BY <1>1, <1>3, <1>4 DEF Owning, InUse
<1>9. MemoryOK'  BY <1>1, <1>8 DEF LeftInv, MemoryOK
<1> QED BY <1>6, <1>7, <1>9 DEF LeftInv

\* All of a thread's steps.
LEMMA LeftStep ==
  ASSUME TypeInv, ReferencesInv, PlacesInv, LeftInv, NEW t \in Threads, Call(t) \/ Step(t)
  PROVE  LeftInv'
<1>0. BufferTypes /\ PoolTypes /\ ThreadTypes /\ LocalsAt(t)
  BY DEF TypeInv, TypeOK, LocalsOK
<1> DEFINE kept == /\ UNCHANGED <<FreeBuffer, stack, BufferLock, allocated>>
                   /\ pc[t] # "insert"
                   /\ pc'[t] \notin {"memory", "release", "deallocate", "insert"}
                   /\ OthersStay(t)
                   /\ \A b \in Buffers : InUse(b)' <=> InUse(b)
                   /\ \A b \in Buffers, i \in Slots :
                        Bare(b) => AttachedBuffers'[b][i] \in {AttachedBuffers[b][i], NULL}
<1>1. kept => LeftInv'  BY LeftKept
<1>2. ASSUME NEW p \in Pools, NEW nonblocking \in BOOLEAN, GetEnter(t, p, nonblocking) PROVE kept
  BY <1>0, <1>2 DEF GetEnter, buffer, ThreadTypes, OthersStay, InUse
<1>3. ASSUME GetExtract(t) PROVE LeftInv'
  <2>1. CASE ExtractTakes(t)  BY <1>3, <2>1, LeftTake
  <2>2. CASE ExtractFails(t)
    <3>1. kept
      BY <1>0, <1>3, <2>2, ExtractOutcomes
         DEF ExtractFails, GetFails, buffer, ThreadTypes, OthersStay, InUse
    <3> HIDE DEF kept
    <3> QED BY <1>1, <3>1
  <2>3. CASE ExtractWaits(t)
    <3>1. kept
      BY <1>0, <1>3, <2>3, ExtractOutcomes
         DEF ExtractWaits, buffer, ThreadTypes, OthersStay, InUse
    <3> HIDE DEF kept
    <3> QED BY <1>1, <3>1
  <2> QED BY <1>3, <2>1, <2>2, <2>3, ExtractOutcomes
<1>4. ASSUME GetAborted(t) PROVE kept
  BY <1>0, <1>4 DEF GetAborted, GetFails, buffer, ThreadTypes, OthersStay, InUse
<1>5. ASSUME GetWoken(t) PROVE kept
  BY <1>0, <1>5 DEF GetWoken, buffer, pool, ThreadTypes, OthersStay, InUse
<1>6. ASSUME GetMemoryFails(t) PROVE kept
  BY <1>0, <1>6 DEF GetMemoryFails, GetFails, pool, ThreadTypes, OthersStay, InUse
<1>7. ASSUME GetCount(t) PROVE kept
  BY <1>0, <1>7 DEF GetCount, GetFails, buffer, ThreadTypes, OthersStay, InUse
<1>8. ASSUME IncrementPool(t) \/ DecrementPool(t) PROVE kept
  BY <1>0, <1>8 DEF IncrementPool, DecrementPool, buffer, ThreadTypes, OthersStay, InUse
<1>9. ASSUME NEW b \in Buffers, NEW u \in Threads, IncrementReferenceCount(t, b, u) PROVE kept
  BY <1>0, <1>9 DEF IncrementReferenceCount, buffer, pool, ThreadTypes, OthersStay, InUse
<1>10. ASSUME NEW b \in Buffers, DecrementReferenceCount(t, b) PROVE kept
  BY <1>0, <1>10 DEF DecrementReferenceCount, buffer, pool, ThreadTypes, OthersStay, InUse
<1>11. ASSUME IncrementBuffer(t) PROVE kept
  <2>1. cur[t] \in refs[t] /\ cur[t] \in Buffers /\ Incrementing(t)
    BY <1>0, <1>11 DEF IncrementBuffer, LocalsAt, Incrementing, ThreadTypes
  <2>2. ReferenceCount[cur[t]] \in Nat \ {0}
    BY <1>0, <2>1, UserCounted DEF BufferTypes
  <2>3. ReferenceCount' = [ReferenceCount EXCEPT ![cur[t]] = @ + 1]
    BY <1>11 DEF IncrementBuffer
  <2>4. \A b \in Buffers : InUse(b)' <=> InUse(b)
    BY <1>0, <2>1, <2>2, <2>3 DEF InUse, BufferTypes
  <2>5. \A u \in Threads : refs[u] \subseteq refs'[u]
    BY <1>0, <1>11 DEF IncrementBuffer, ThreadTypes
  <2> QED BY <1>0, <1>11, <2>4, <2>5 DEF IncrementBuffer, pool, ThreadTypes, OthersStay
<1>12. ASSUME NEW h \in Buffers, NEW b \in Buffers, AttachBuffer(t, h, b) PROVE kept
  <2>1. PICK i \in Slots : AttachEffect(t, h, b, i)  BY <1>12, AttachOutcome
  <2>2. h \in refs[t]  BY <2>1 DEF AttachEffect
  <2>3. InUse(h)  BY <2>2, UserCounted DEF InUse
  <2>4. ~Bare(h)  BY <2>3, BareUnused
  <2>5. \A c \in Buffers, j \in Slots : c # h => AttachedBuffers'[c][j] = AttachedBuffers[c][j]
    BY <1>0, <2>1 DEF AttachEffect, BufferTypes
  <2> QED BY <1>0, <2>1, <2>4, <2>5 DEF AttachEffect, pool, ThreadTypes, OthersStay, InUse
<1>13. ASSUME NEW h \in Buffers, NEW i \in Slots, DetachEffect(t, h, i), pc[t] # "insert"
       PROVE  kept
  <2>1. \A c \in Buffers, j \in Slots :
          AttachedBuffers'[c][j] \in {AttachedBuffers[c][j], NULL}
    BY <1>0, <1>13 DEF DetachEffect, BufferTypes
  <2> QED BY <1>0, <1>13, <2>1 DEF DetachEffect, pool, ThreadTypes, OthersStay, InUse
<1>14. ASSUME NEW p \in Pools, DestroyPool(t, p) PROVE kept
  BY <1>0, <1>14 DEF DestroyPool, buffer, ThreadTypes, OthersStay, InUse
<1>15. ASSUME NEW h \in Buffers, NEW b \in Buffers, DetachBuffer(t, h, b) PROVE kept
  <2>1. pc[t] = "idle"  BY <1>15 DEF DetachBuffer
  <2> HIDE DEF kept
  <2> QED BY <1>13, <1>15, <2>1, DetachOutcome
<1>16. ASSUME ReleaseAttached(t) PROVE kept
  <2>1. pc[t] = "slots"  BY <1>16 DEF ReleaseAttached
  <2>2. stack[t] # <<>>  BY <1>0, <2>1 DEF LocalsAt, Releasing
  <2>3. Top(t) \in Buffers  BY <1>0, <2>2, TopIn
  <2> HIDE DEF kept
  <2> QED BY <1>0, <1>13, <1>16, <2>1, <2>2, <2>3, ReleaseOutcome
<1>17. ASSUME NEW p \in Pools, TidyUpDetach(t, p) PROVE kept
  <2>1. pc[t] = "tidyup"  BY <1>17 DEF TidyUpDetach
  <2> HIDE DEF kept
  <2> QED BY <1>13, <1>17, <2>1, TidyUpOutcome
<1> HIDE DEF kept
<1>18. CASE Call(t)
  BY <1>1, <1>2, <1>9, <1>10, <1>12, <1>14, <1>15, <1>18 DEF Call
<1>19. CASE GetStep(t)
  BY <1>1, <1>3, <1>4, <1>5, <1>6, <1>7, <1>19, LeftMemory DEF GetStep
<1>20. CASE ReferenceStep(t)
  BY <1>1, <1>8, <1>11, <1>20, LeftDropped DEF ReferenceStep
<1>21. CASE ReleaseStep(t)
  BY <1>1, <1>16, <1>21, LeftReleasing, LeftInserted DEF ReleaseStep
<1>22. CASE TidyUpStep(t)
  BY <1>1, <1>17, <1>22, LeftGone DEF TidyUpStep
<1> QED BY <1>18, <1>19, <1>20, <1>21, <1>22 DEF Step

\* Nothing is attached, locked or allocated when the pools are made.
LEMMA LeftInit == Init => LeftInv
<1> SUFFICES ASSUME Init PROVE LeftInv  OBVIOUS
<1>1. Emptied  BY DEF Init, Emptied
<1>2. NULL \notin Threads  BY PoolsAssumption
<1>3. LocksOK  BY <1>2 DEF Init, LocksOK
<1>4. \A b \in Buffers : ~Owning(b)  BY DEF Init, Owning, InUse, AsSet
<1>5. MemoryOK  BY <1>4 DEF Init, MemoryOK
<1> QED BY <1>1, <1>3, <1>5 DEF LeftInv

\* A step that touches neither buffers, threads nor the free rings leaves free buffers
\* empty.
LEMMA LeftStay ==
  ASSUME LeftInv, UNCHANGED <<buffer, thread, FreeBuffer>>
  PROVE  LeftInv'
<1> USE DEF buffer, thread
<1>1. \A b \in Buffers : Bare(b)' <=> Bare(b)  BY DEF Bare, Free, Taken, Leaving, Top
<1>2. Emptied'  BY <1>1 DEF LeftInv, Emptied
<1>3. LocksOK'  BY DEF LeftInv, LocksOK, Leaving, Top
<1>4. \A b \in Buffers : Owning(b)' <=> Owning(b)  BY DEF Owning, InUse, Top
<1>5. MemoryOK'  BY <1>4 DEF LeftInv, MemoryOK
<1> QED BY <1>2, <1>3, <1>5 DEF LeftInv

---------------------------------------------------------------------------
(* What is left of a destroyed pool.  Pools are destroyed when no thread   *)
(* is inside a call.                                                       *)

QuietOK ==
  (\E p \in Pools : destroyer[p] # NULL) => \A t \in Threads : ~Getting(t) /\ ~Incrementing(t)

Unlisted ==
  \A p \in Pools :
    /\ destroyer[p] # NULL => p \notin listed
    /\ p \notin listed => \A t \in Threads : getting[t].pool # p /\ refs[t] \cap PoolBuffers(p) = {}
    /\ Destroyed(p) => Holders(p) = {}

\* A pool is destroyed when no thread is inside a call, and what a thread then
\* does releases buffers only.
LEMMA QuietStep ==
  ASSUME QuietDestroy, TypeInv, QuietOK, NEW t \in Threads, Call(t) \/ Step(t)
  PROVE  QuietOK'
<1>0. PoolTypes /\ ThreadTypes  BY DEF TypeInv, TypeOK
<1>1. CASE \E p \in Pools : DestroyPool(t, p)
  <2>1. /\ \A u \in Threads : pc[u] = "idle"
        /\ pc' = [pc EXCEPT ![t] = "tidyup"]
    BY <1>1 DEF DestroyPool, Quiet
  <2> QED BY <1>0, <2>1 DEF QuietOK, Getting, Incrementing, ThreadTypes
<1>2. CASE Call(t) /\ ~\E p \in Pools : DestroyPool(t, p)
  <2>1. \A p \in Pools : destroyer[p] = NULL  BY <1>2 DEF Call
  <2>2. ASSUME NEW p \in Pools, NEW nonblocking \in BOOLEAN, GetEnter(t, p, nonblocking)
        PROVE  destroyer' = destroyer
    BY <2>2 DEF GetEnter
  <2>3. ASSUME NEW b \in Buffers, NEW u \in Threads, IncrementReferenceCount(t, b, u)
        PROVE  destroyer' = destroyer
    BY <2>3 DEF IncrementReferenceCount, pool
  <2>4. ASSUME NEW b \in Buffers, DecrementReferenceCount(t, b) PROVE destroyer' = destroyer
    BY <2>4 DEF DecrementReferenceCount, pool
  <2>5. ASSUME NEW h \in Buffers, NEW b \in Buffers, AttachBuffer(t, h, b) \/ DetachBuffer(t, h, b)
        PROVE  destroyer' = destroyer
    BY <2>5 DEF AttachBuffer, DetachBuffer, Detach, pool
  <2>6. destroyer' = destroyer  BY <1>2, <2>2, <2>3, <2>4, <2>5 DEF Call
  <2> QED BY <2>1, <2>6 DEF QuietOK
<1>3. CASE Step(t)
  <2> SUFFICES ASSUME NEW q \in Pools, destroyer'[q] # NULL
               PROVE  \A u \in Threads : ~Getting(u)' /\ ~Incrementing(u)'
    BY DEF QuietOK
  <2>1. destroyer' = destroyer \/ \E p \in Pools : destroyer' = [destroyer EXCEPT ![p] = NULL]
    <3>1. CASE GetStep(t)
      BY <3>1, ExtractOutcomes
         DEF GetStep, GetAborted, GetWoken, GetMemory, GetMemoryFails, GetCount, pool
    <3>2. CASE ReferenceStep(t)
      BY <3>2 DEF ReferenceStep, IncrementPool, IncrementBuffer, DecrementPool, DecrementBuffer, pool
    <3>3. CASE ReleaseStep(t)
      BY <3>3 DEF ReleaseStep, ReleaseLock, ReleaseAttached, ReleaseUnlock, ReleaseMemory,
                  ReleaseInsert, ReleaseInto, pool
    <3>4. CASE TidyUpStep(t)
      BY <3>4 DEF TidyUpStep, TidyUpDetach, Detach, TidyUpEnd, pool
    <3> QED BY <1>3, <3>1, <3>2, <3>3, <3>4 DEF Step
  <2>2. destroyer[q] # NULL  BY <1>0, <2>1 DEF PoolTypes
  <2>3. \A u \in Threads : ~Getting(u) /\ ~Incrementing(u)  BY <2>2 DEF QuietOK
  <2>4. /\ \A u \in Threads \ {t} : pc'[u] = pc[u]
        /\ pc'[t] \in {"decrementpool", "decrementbuffer", "release", "slots", "deallocate",
                       "insert", "idle", "tidyup"}
    <3>1. \E l \in {"decrementpool", "decrementbuffer", "release", "slots", "deallocate",
                    "insert", "idle", "tidyup"} : pc' = [pc EXCEPT ![t] = l]
      <4>1. ~GetStep(t) /\ ~IncrementPool(t) /\ ~IncrementBuffer(t)
        BY <2>3, ExtractOutcomes
           DEF GetStep, GetAborted, GetWoken, GetMemory, GetMemoryFails, GetCount, IncrementPool,
               IncrementBuffer, Getting, Incrementing
      <4>2. CASE DecrementPool(t)  BY <4>2 DEF DecrementPool
      <4>3. CASE DecrementBuffer(t)  BY <4>3, AfterPlaces DEF DecrementBuffer, Return
      <4>4. CASE ReleaseStep(t)
        BY <4>4, AfterPlaces DEF ReleaseStep, ReleaseLock, ReleaseAttached, ReleaseUnlock,
                                 ReleaseMemory, ReleaseInsert, ReleaseInto, Return
      <4>5. CASE TidyUpStep(t)
        BY <4>5 DEF TidyUpStep, TidyUpDetach, Detach, TidyUpEnd
      <4> QED BY <1>3, <4>1, <4>2, <4>3, <4>4, <4>5 DEF Step, ReferenceStep
    <3> QED BY <1>0, <3>1 DEF ThreadTypes
  <2> QED BY <2>3, <2>4 DEF Getting, Incrementing
<1> QED BY <1>1, <1>2, <1>3

\* What a thread may use is in a pool that is listed.
LEMMA UsedListed ==
  ASSUME TypeInv, Unlisted, NEW t \in Threads
  PROVE  /\ \A b \in refs[t] : PoolOf[b] \in listed
         /\ getting[t].pool \in Pools => getting[t].pool \in listed
<1>1. ASSUME NEW b \in refs[t] PROVE PoolOf[b] \in listed
  <2>1. b \in Buffers  BY DEF TypeInv, TypeOK, ThreadTypes
  <2>2. PoolOf[b] \in Pools /\ b \in PoolBuffers(PoolOf[b])
    BY <2>1, PoolsAssumption DEF PoolBuffers
  <2> QED BY <2>2 DEF Unlisted
<1> QED BY <1>1 DEF Unlisted

\* A step that destroys no pool, takes nothing out of an unlisted one and attaches
\* nothing of it.
LEMMA UnlistedKept ==
  ASSUME TypeInv, Unlisted, UNCHANGED <<listed, destroyer>>,
         \A u \in Threads : getting'[u].pool \in {getting[u].pool, NULL} \cup listed,
         \A u \in Threads : \A b \in refs'[u] : b \in refs[u] \/ PoolOf[b] \in listed,
         \A h \in Buffers, i \in Slots :
           \/ AttachedBuffers'[h][i] \in {AttachedBuffers[h][i], NULL}
           \/ PoolOf[AttachedBuffers'[h][i]] \in listed
  PROVE  Unlisted'
<1>1. \A p \in Pools : Destroyed(p)' <=> Destroyed(p)  BY DEF Destroyed
<1>2. NULL \notin Pools /\ NULL \notin Buffers  BY PoolsAssumption
<1>3. ASSUME NEW p \in Pools, p \notin listed, NEW u \in Threads
      PROVE  getting'[u].pool # p /\ refs'[u] \cap PoolBuffers(p) = {}
  BY <1>2, <1>3 DEF Unlisted, PoolBuffers
<1>4. ASSUME NEW p \in Pools, Destroyed(p), Holders(p)' # {} PROVE FALSE
  <2>1. PICK h \in Buffers, i \in Slots :
          PoolOf[h] \in listed /\ AttachedBuffers'[h][i] \in PoolBuffers(p)
    BY <1>4 DEF Holders
  <2>2. p \notin listed  BY <1>4 DEF Destroyed
  <2>3. AttachedBuffers[h][i] \in PoolBuffers(p)
    BY <1>2, <2>1, <2>2 DEF PoolBuffers
  <2>4. <<h, i>> \in Holders(p)  BY <2>1, <2>3 DEF Holders
  <2> QED BY <1>4, <2>4 DEF Unlisted
<1> QED BY <1>1, <1>3, <1>4 DEF Unlisted

\* A thread's step leaves an unlisted pool alone but for its destruction.
LEMMA UnlistedStep ==
  ASSUME QuietDestroy, TypeInv, Unlisted, NEW t \in Threads, Call(t) \/ Step(t)
  PROVE  Unlisted'
<1>0. BufferTypes /\ PoolTypes /\ ThreadTypes /\ LocalsAt(t)
  BY DEF TypeInv, TypeOK, LocalsOK
<1> DEFINE kept == /\ UNCHANGED <<listed, destroyer>>
                   /\ \A u \in Threads : getting'[u].pool \in {getting[u].pool, NULL} \cup listed
                   /\ \A u \in Threads : \A b \in refs'[u] : b \in refs[u] \/ PoolOf[b] \in listed
                   /\ \A h \in Buffers, i \in Slots :
                        \/ AttachedBuffers'[h][i] \in {AttachedBuffers[h][i], NULL}
                        \/ PoolOf[AttachedBuffers'[h][i]] \in listed
<1>1. kept => Unlisted'  BY UnlistedKept
<1>2. ASSUME NEW p \in Pools, NEW nonblocking \in BOOLEAN, GetEnter(t, p, nonblocking) PROVE kept
  BY <1>0, <1>2 DEF GetEnter, buffer, ThreadTypes
<1>3. ASSUME GetExtract(t) PROVE kept
  <2>1. UNCHANGED <<listed, destroyer, AttachedBuffers, refs>>
    BY <1>3, ExtractOutcomes DEF buffer
  <2>2. getting' = getting \/ getting' = [getting EXCEPT ![t] = NoGet]
    BY <1>3, ExtractOutcomes DEF ExtractTakes, ExtractFails, ExtractWaits, GetFails
  <2>3. \A u \in Threads : getting'[u].pool \in {getting[u].pool, NULL}
    <3>1. \A u \in Threads : getting'[u] = getting[u] \/ getting'[u] = NoGet
      BY <1>0, <2>2 DEF ThreadTypes
    <3>2. NoGet.pool = NULL  BY DEF NoGet
    <3> QED BY <3>1, <3>2
  <2> QED BY <2>1, <2>3
<1>4. ASSUME GetAborted(t) PROVE kept
  BY <1>0, <1>4 DEF GetAborted, GetFails, NoGet, buffer, ThreadTypes
<1>5. ASSUME GetWoken(t) PROVE kept  BY <1>5 DEF GetWoken, buffer, pool
<1>6. ASSUME GetMemory(t) PROVE kept
  BY <1>0, <1>6 DEF GetMemory, pool, BufferTypes
<1>7. ASSUME GetMemoryFails(t) PROVE kept
  BY <1>0, <1>7 DEF GetMemoryFails, GetFails, NoGet, pool, ThreadTypes
<1>8. ASSUME GetCount(t) PROVE kept
  <2>1. PoolOf[cur[t]] \in listed
    BY <1>0, <1>8, UsedListed DEF GetCount, LocalsAt, Getting
  <2> QED BY <1>0, <1>8, <2>1 DEF GetCount, GetFails, NoGet, buffer, ThreadTypes
<1>9. ASSUME IncrementPool(t) \/ DecrementPool(t) PROVE kept
  BY <1>9 DEF IncrementPool, DecrementPool, buffer
<1>10. ASSUME NEW b \in Buffers, NEW u \in Threads, IncrementReferenceCount(t, b, u) PROVE kept
  BY <1>10 DEF IncrementReferenceCount, buffer, pool
<1>11. ASSUME NEW b \in Buffers, DecrementReferenceCount(t, b) PROVE kept
  BY <1>0, <1>11 DEF DecrementReferenceCount, buffer, pool, ThreadTypes
<1>12. ASSUME IncrementBuffer(t) PROVE kept
  <2>1. cur[t] \in refs[t]  BY <1>0, <1>12 DEF IncrementBuffer, LocalsAt, Incrementing
  <2>2. PoolOf[cur[t]] \in listed  BY <2>1, UsedListed
  <2> QED BY <1>0, <1>12, <2>2 DEF IncrementBuffer, pool, ThreadTypes
<1>13. ASSUME DecrementBuffer(t) PROVE kept  BY <1>13 DEF DecrementBuffer, pool
<1>14. ASSUME NEW h \in Buffers, NEW b \in Buffers, AttachBuffer(t, h, b) PROVE kept
  <2>1. PICK i \in Slots : AttachEffect(t, h, b, i)  BY <1>14, AttachOutcome
  <2>2. PoolOf[b] \in listed  BY <2>1, UsedListed DEF AttachEffect
  <2>3. \A c \in Buffers, j \in Slots :
          AttachedBuffers'[c][j] = AttachedBuffers[c][j] \/ AttachedBuffers'[c][j] = b
    BY <1>0, <2>1 DEF AttachEffect, BufferTypes
  <2> QED BY <2>1, <2>2, <2>3 DEF AttachEffect, pool
<1>15. ASSUME NEW h \in Buffers, NEW i \in Slots, DetachEffect(t, h, i) PROVE kept
  <2>1. \A c \in Buffers, j \in Slots :
          AttachedBuffers'[c][j] \in {AttachedBuffers[c][j], NULL}
    BY <1>0, <1>15 DEF DetachEffect, BufferTypes
  <2> QED BY <1>15, <2>1 DEF DetachEffect, pool
<1>16. ASSUME ReleaseLock(t) \/ ReleaseUnlock(t) \/ ReleaseMemory(t) PROVE kept
  BY <1>16 DEF ReleaseLock, ReleaseUnlock, ReleaseMemory, pool
<1>17. ASSUME ReleaseInsert(t) PROVE kept
  BY <1>17 DEF ReleaseInsert, ReleaseInto, buffer
<1>18. ASSUME NEW h \in Buffers, NEW b \in Buffers, DetachBuffer(t, h, b) PROVE kept
  <2> HIDE DEF kept
  <2> QED BY <1>15, <1>18, DetachOutcome
<1>19. ASSUME ReleaseAttached(t) PROVE kept
  <2>1. stack[t] # <<>>  BY <1>0, <1>19 DEF ReleaseAttached, LocalsAt, Releasing
  <2>2. Top(t) \in Buffers  BY <1>0, <2>1, TopIn
  <2> HIDE DEF kept
  <2> QED BY <1>0, <1>15, <1>19, <2>1, <2>2, ReleaseOutcome
<1>20. ASSUME NEW p \in Pools, TidyUpDetach(t, p) PROVE kept
  <2> HIDE DEF kept
  <2> QED BY <1>15, <1>20, TidyUpOutcome
<1>21. ASSUME NEW p \in Pools, DestroyPool(t, p) PROVE Unlisted'
  <2>1. /\ listed' = listed \ {p} /\ destroyer' = [destroyer EXCEPT ![p] = t]
        /\ UNCHANGED <<AttachedBuffers, getting, refs>>
        /\ \A u \in Threads : refs[u] \cap PoolBuffers(p) = {}
        /\ \A u \in Threads : pc[u] = "idle"
    BY <1>21 DEF DestroyPool, Quiet, buffer
  <2>2. t # NULL /\ NULL \notin Pools  BY PoolsAssumption
  <2>3. \A u \in Threads : getting[u].pool # p
    <3>1. \A u \in Threads : getting[u] = NoGet
      BY <2>1 DEF TypeInv, LocalsOK, LocalsAt, Getting
    <3> QED BY <2>2, <3>1 DEF NoGet
  <2>4. destroyer'[p] = t /\ \A q \in Pools \ {p} : destroyer'[q] = destroyer[q]
    BY <1>0, <2>1 DEF PoolTypes
  <2>5. \A q \in Pools : Destroyed(q)' => Destroyed(q)
    BY <2>1, <2>2, <2>4 DEF Destroyed
  <2>6. \A q \in Pools : Holders(q)' \subseteq Holders(q)  BY <2>1 DEF Holders
  <2>7. ASSUME NEW q \in Pools
        PROVE  /\ destroyer'[q] # NULL => q \notin listed'
               /\ q \notin listed' =>
                    \A u \in Threads : getting[u].pool # q /\ refs[u] \cap PoolBuffers(q) = {}
    BY <2>1, <2>3, <2>4 DEF Unlisted
  <2>8. ASSUME NEW q \in Pools, Destroyed(q)' PROVE Holders(q)' = {}
    BY <2>5, <2>6, <2>8 DEF Unlisted
  <2> QED BY <2>1, <2>7, <2>8 DEF Unlisted
<1>22. ASSUME NEW p \in Pools, TidyUpEnd(t, p) PROVE Unlisted'
  <2>1. /\ UNCHANGED <<listed, AttachedBuffers, getting, refs>> /\ Holders(p) = {}
        /\ destroyer' = [destroyer EXCEPT ![p] = NULL]
    BY <1>22 DEF TidyUpEnd, buffer
  <2>2. destroyer'[p] = NULL /\ \A q \in Pools \ {p} : destroyer'[q] = destroyer[q]
    BY <1>0, <2>1 DEF PoolTypes
  <2>3. \A q \in Pools : Holders(q)' = Holders(q)  BY <2>1 DEF Holders
  <2>4. \A q \in Pools : Destroyed(q)' => Destroyed(q) \/ q = p
    BY <2>1, <2>2 DEF Destroyed
  <2>5. ASSUME NEW q \in Pools, Destroyed(q)' PROVE Holders(q)' = {}
    BY <2>1, <2>3, <2>4, <2>5 DEF Unlisted
  <2> QED BY <2>1, <2>2, <2>5 DEF Unlisted
<1> HIDE DEF kept
<1>23. CASE Call(t)
  BY <1>1, <1>2, <1>10, <1>11, <1>14, <1>18, <1>21, <1>23 DEF Call
<1>24. CASE GetStep(t)
  BY <1>1, <1>3, <1>4, <1>5, <1>6, <1>7, <1>8, <1>24 DEF GetStep
<1>25. CASE ReferenceStep(t)
  BY <1>1, <1>9, <1>12, <1>13, <1>25 DEF ReferenceStep
<1>26. CASE ReleaseStep(t)
  BY <1>1, <1>16, <1>17, <1>19, <1>26 DEF ReleaseStep
<1>27. CASE TidyUpStep(t)
  BY <1>1, <1>20, <1>22, <1>27 DEF TidyUpStep
<1> QED BY <1>23, <1>24, <1>25, <1>26, <1>27 DEF Step

---------------------------------------------------------------------------
(* The inductive invariant.                                                *)

Inv == TypeInv /\ ReferencesInv /\ PlacesInv /\ LeftInv /\ QuietOK /\ Unlisted

\* A thread's step keeps the types.
LEMMA TypeStep ==
  ASSUME TypeInv, ReferencesInv, NEW t \in Threads, Call(t) \/ Step(t)
  PROVE  TypeInv'
<1>1. DropsCounted
  <2>1. \A u \in Threads : Decrementing(u) => cur[u] \in Buffers
    BY DEF TypeInv, LocalsOK, LocalsAt
  <2> QED BY <2>1, UserCounted DEF DropsCounted
<1>2. CASE Call(t)
  BY <1>1, <1>2, TypeStepGet, TypeStepReference, TypeStepAttach, TypeStepPool DEF Call
<1>3. CASE GetStep(t)  BY <1>3, TypeStepGet
<1>4. CASE ReferenceStep(t)  BY <1>1, <1>4, TypeStepReference
<1>5. CASE ReleaseStep(t)  BY <1>5, TypeStepAttach, TypeStepRelease DEF ReleaseStep
<1>6. CASE TidyUpStep(t)  BY <1>6, TypeStepAttach, TypeStepPool DEF TidyUpStep
<1> QED BY <1>2, <1>3, <1>4, <1>5, <1>6 DEF Step

\* A thread's step keeps the invariant.
LEMMA InvStep ==
  ASSUME QuietDestroy, Inv, NEW t \in Threads, Call(t) \/ Step(t)
  PROVE  Inv'
<1> USE DEF Inv
<1>0. BufferTypes /\ ThreadTypes /\ LocalsAt(t)  BY DEF TypeInv, TypeOK, LocalsOK
<1>1. TypeInv'  BY TypeStep
<1>2. ReferencesInv'
  <2>1. pc[t] = "memory" => ReferenceCount[cur[t]] = 0 /\ EmptySlots(cur[t]) = Slots
    <3> SUFFICES ASSUME pc[t] = "memory"
                 PROVE  ReferenceCount[cur[t]] = 0 /\ EmptySlots(cur[t]) = Slots
      OBVIOUS
    <3>1. cur[t] \in Buffers  BY <1>0 DEF LocalsAt
    <3>2. Taken(cur[t])  BY DEF Taken
    <3>3. ~InUse(cur[t])  BY <3>1, <3>2 DEF PlacesInv, Placed
    <3>4. \A i \in Slots : AttachedBuffers[cur[t]][i] = NULL
      BY <3>1, <3>2 DEF LeftInv, Emptied, Bare
    <3>5. ReferenceCount[cur[t]] \in Nat  BY <1>0, <3>1 DEF BufferTypes
    <3> QED BY <3>3, <3>4, <3>5 DEF InUse, EmptySlots
  <2>2. stack[t] # <<>> => ReferenceCount[Top(t)] = 0
    BY <1>0, ReleasedOnce DEF InUse, BufferTypes
  <2>3. (\E p \in Pools : destroyer[p] = t) => \A u \in Threads : ~Incrementing(u)
    <3>1. t # NULL  BY PoolsAssumption
    <3> QED BY <3>1 DEF QuietOK
  <2> QED BY <2>1, <2>2, <2>3, ReferencesStep
<1>3. PlacesInv'
  <2>1. \A p \in Pools : destroyer[p] # NULL => p \notin listed  BY DEF Unlisted
  <2> QED BY <2>1, PlacesStep
<1>4. LeftInv'  BY LeftStep
<1>5. QuietOK'  BY QuietStep
<1>6. Unlisted'  BY UnlistedStep
<1> QED BY <1>1, <1>2, <1>3, <1>4, <1>5, <1>6

\* So does a step of no thread: an abort, or none at all.
LEMMA InvStay ==
  ASSUME Inv, (\E p \in Pools : Abort(p)) \/ UNCHANGED vars
  PROVE  Inv'
<1>1. UNCHANGED <<buffer, thread, FreeBuffer, listed, destroyer>>
  BY DEF Abort, vars, pool
<1>2. TypeInv'
  <2>1. CASE \E p \in Pools : Abort(p)  BY <2>1, TypeStepPool DEF Inv
  <2>2. CASE UNCHANGED vars
    <3>1. BufferTypes' /\ PoolTypes' /\ ThreadTypes' /\ Home'
      BY <2>2 DEF Inv, TypeInv, TypeOK, BufferTypes, PoolTypes, ThreadTypes, Home, vars, buffer,
                  pool, counts, events, thread
    <3>2. LocalsOK'
      BY <1>1 DEF Inv, TypeInv, thread, LocalsOK, LocalsAt, Getting, Releasing, Incrementing,
                  Decrementing
    <3> QED BY <3>1, <3>2 DEF TypeInv, TypeOK
  <2> QED BY <2>1, <2>2
<1>3. ReferencesInv'  BY <1>1, ReferencesStay DEF Inv
<1>4. PlacesInv'  BY <1>1, PlacesStay DEF Inv
<1>5. LeftInv'  BY <1>1, LeftStay DEF Inv
<1>6. QuietOK'  BY <1>1 DEF Inv, QuietOK, Getting, Incrementing, thread
<1>7. Unlisted'
  BY <1>1 DEF Inv, Unlisted, Destroyed, Holders, thread, buffer
<1> QED BY <1>2, <1>3, <1>4, <1>5, <1>6, <1>7 DEF Inv

\* The pools as they are created satisfy the invariant.
LEMMA InvInit == Init => Inv
<1> SUFFICES ASSUME Init PROVE Inv  OBVIOUS
<1>1. NULL \notin Pools  BY PoolsAssumption
<1>2. \A p \in Pools : destroyer[p] = NULL /\ p \in listed  BY DEF Init
<1>3. QuietOK /\ Unlisted  BY <1>2 DEF QuietOK, Unlisted, Destroyed
<1> QED BY <1>3, TypeInit, ReferencesInit, PlacesInit, LeftInit DEF Inv

\* The invariant is inductive.
LEMMA Invariant == ASSUME QuietDestroy PROVE Spec => []Inv
<1>1. Inv /\ [Next]_vars => Inv'  BY InvStep, InvStay DEF Next
<1> QED BY <1>1, InvInit, PTL DEF Spec

---------------------------------------------------------------------------
(* What follows.                                                           *)

\* Every variable keeps its type: no count of references goes below zero.
THEOREM TypesKept == ASSUME QuietDestroy PROVE Spec => []TypeOK
<1>1. Inv => TypeOK  BY DEF Inv, TypeInv
<1> QED BY <1>1, Invariant, PTL

\* The reference count of a buffer is the number of the references to it, those on
\* their way included, in every interleaving of the calls of any number of threads.
THEOREM CountsOfReferences == ASSUME QuietDestroy PROVE Spec => []ReferencesCounted
<1>1. Inv => ReferencesCounted  BY DEF Inv, ReferencesInv
<1> QED BY <1>1, Invariant, PTL

\* One or none.
LEMMA CardinalityOfOne ==
  ASSUME NEW S, \A x, y \in S : x = y
  PROVE  Cardinality(S) = IF S = {} THEN 0 ELSE 1
<1>1. CASE S = {}  BY <1>1, FS_EmptySet
<1>2. CASE S # {}
  <2>1. PICK x : S = {x}  BY <1>2
  <2> QED BY <2>1, FS_Singleton
<1> QED BY <1>1, <1>2

\* A buffer is in one place: one thread releases it, and nobody takes out of the
\* ring what is referenced, being released or there twice.
THEOREM OnePlace == ASSUME QuietDestroy PROVE Spec => []InOnePlace
<1>1. ASSUME Inv, NEW b \in Buffers, ~Destroyed(PoolOf[b])
      PROVE  Cardinality(InFree(b)) + Cardinality(Obtainers(b)) + Cardinality(Releasers(b))
               + (IF ReferenceCount[b] > 0 THEN 1 ELSE 0) + (IF b \in lost THEN 1 ELSE 0) = 1
  <2>0. PoolOf[b] \in Pools  BY PoolsAssumption
  <2>1. Single /\ Placed(b)  BY <1>1 DEF Inv, PlacesInv
  <2>2. (InFree(b) # {} <=> Free(b)) /\ \A k, l \in InFree(b) : k = l
    BY <2>0, <2>1 DEF InFree, Free, AsSet, Single, Once
  <2>3. (Obtainers(b) # {} <=> Taken(b)) /\ \A t, u \in Obtainers(b) : t = u
    BY <2>1 DEF Obtainers, Taken, Single
  <2>4. (Releasers(b) # {} <=> Released(b)) /\ \A t, u \in Releasers(b) : t = u
    BY <2>1 DEF Releasers, Released, Single
  <2>5. /\ Cardinality(InFree(b)) = IF Free(b) THEN 1 ELSE 0
        /\ Cardinality(Obtainers(b)) = IF Taken(b) THEN 1 ELSE 0
        /\ Cardinality(Releasers(b)) = IF Released(b) THEN 1 ELSE 0
    BY <2>2, <2>3, <2>4, CardinalityOfOne
  <2>6. /\ Free(b) => ~Taken(b) /\ ~Released(b) /\ ~InUse(b) /\ b \notin lost
        /\ Taken(b) => ~Released(b) /\ ~InUse(b) /\ b \notin lost
        /\ Released(b) => ~InUse(b) /\ b \notin lost
        /\ InUse(b) => b \notin lost
        /\ Free(b) \/ Taken(b) \/ Released(b) \/ InUse(b) \/ b \in lost
    BY <1>1, <2>1 DEF Placed
  <2>7. InUse(b) <=> ReferenceCount[b] > 0  BY DEF InUse
  <2> QED BY <2>5, <2>6, <2>7
<1>2. Inv => InOnePlace  BY <1>1 DEF InOnePlace
<1> QED BY <1>2, Invariant, PTL

\* A buffer goes back to the ring with nothing attached to it and unlocked, and
\* it has memory exactly while it is referenced or being released.
THEOREM FreeIsEmpty == ASSUME QuietDestroy PROVE Spec => []FreeMeansEmpty
<1>1. ASSUME Inv, NEW b \in Buffers, InFree(b) # {}
      PROVE  EmptySlots(b) = Slots /\ BufferLock[b] = NULL
  <2>1. Free(b)  BY <1>1 DEF InFree, Free, AsSet
  <2>2. EmptySlots(b) = Slots
    BY <1>1, <2>1 DEF Inv, LeftInv, Emptied, Bare, EmptySlots
  <2>3. ~Released(b)  BY <1>1, <2>1 DEF Inv, PlacesInv, Placed
  <2>4. ASSUME NEW t \in Threads, BufferLock[b] = t PROVE FALSE
    BY <1>1, <2>3, <2>4 DEF Inv, LeftInv, LocksOK, Released
  <2>5. BufferLock[b] \in Threads \cup {NULL}
    BY <1>1 DEF Inv, TypeInv, TypeOK, BufferTypes
  <2> QED BY <2>2, <2>4, <2>5
<1>2. ASSUME Inv, NEW b \in Buffers
      PROVE  b \in allocated <=>
               /\ PoolOf[b] \in MemoryPools
               /\ \/ ReferenceCount[b] > 0
                  \/ \E t \in Releasers(b) : ~(pc[t] = "insert" /\ Top(t) = b)
  BY <1>2 DEF Inv, LeftInv, MemoryOK, Owning, InUse, Releasers
<1>3. Inv => FreeMeansEmpty  BY <1>1, <1>2 DEF FreeMeansEmpty
<1> QED BY <1>3, Invariant, PTL

\* Nobody is inside a destroyed pool, and nothing of it is attached to a buffer of
\* a pool that is still there.
THEOREM DestroyedUnused == ASSUME QuietDestroy PROVE Spec => []DestroyedIsUnused
<1>1. Inv => DestroyedIsUnused
  BY DEF Inv, Unlisted, Destroyed, DestroyedIsUnused, InGetBuffer
<1> QED BY <1>1, Invariant, PTL

---------------------------------------------------------------------------
(* No release is missed.                                                   *)

\* At most one process takes buffers out of a pool.
OneGetter ==
  \A t, u \in Threads, p \in Pools : <<t, p>> \in Getters /\ <<u, p>> \in Getters => t = u

\* A step that neither waits nor takes back a signal, and puts nothing in a ring.
LEMMA SignalKept ==
  ASSUME NoMissedRelease, TypeInv, NEW t \in Threads, OthersStay(t), pc'[t] # "wait",
         \A p \in Pools : FreeBuffer'[p] # <<>> => FreeBuffer[p] # <<>> \/ BufferReleaseSignal'[p],
         \A p \in Pools : BufferReleaseSignal[p] => BufferReleaseSignal'[p]
  PROVE  NoMissedRelease'
<1> SUFFICES ASSUME NEW u \in Threads, pc'[u] = "wait", FreeBuffer'[getting'[u].pool] # <<>>
             PROVE  BufferReleaseSignal'[getting'[u].pool]
  BY DEF NoMissedRelease
<1>1. u # t /\ pc[u] = "wait" /\ getting'[u] = getting[u]  BY DEF OthersStay
<1>2. getting[u].pool \in Pools  BY <1>1 DEF TypeInv, LocalsOK, LocalsAt, Getting
<1> QED BY <1>1, <1>2 DEF NoMissedRelease

\* A pass of the loop takes the signal back when it has looked at the ring, and
\* nobody else is waiting for it.
LEMMA SignalExtract ==
  ASSUME OneGetter, NoMissedRelease, TypeInv, NEW t \in Threads, GetExtract(t)
  PROVE  NoMissedRelease'
<1>0. PoolTypes /\ ThreadTypes /\ LocalsAt(t)  BY DEF TypeInv, TypeOK, LocalsOK
<1> DEFINE p == getting[t].pool
<1>1. p \in Pools /\ <<t, p>> \in Getters
  BY <1>0, ExtractOutcomes DEF LocalsAt, Getting
<1>2. ASSUME NEW u \in Threads, u # t, pc'[u] = "wait"
      PROVE  /\ pc[u] = "wait" /\ getting'[u] = getting[u]
             /\ getting[u].pool \in Pools \ {p}
  <2>1. pc[u] = "wait" /\ getting'[u] = getting[u]
    <3>1. /\ \E l \in {"memory", "idle", "wait"} : pc' = [pc EXCEPT ![t] = l]
          /\ getting' = getting \/ getting' = [getting EXCEPT ![t] = NoGet]
      BY ExtractOutcomes DEF ExtractTakes, ExtractFails, ExtractWaits, GetFails
    <3> QED BY <1>0, <1>2, <3>1 DEF ThreadTypes
  <2>2. getting[u].pool \in Pools /\ <<u, getting[u].pool>> \in Getters
    BY <2>1 DEF TypeInv, LocalsOK, LocalsAt, Getting
  <2> QED BY <1>1, <1>2, <2>1, <2>2 DEF OneGetter
<1>3. \A q \in Pools \ {p} : /\ FreeBuffer'[q] = FreeBuffer[q]
                             /\ BufferReleaseSignal'[q] = BufferReleaseSignal[q]
  <2>1. BufferReleaseSignal' = [BufferReleaseSignal EXCEPT ![p] = FALSE]
    BY ExtractOutcomes
  <2>2. FreeBuffer' = FreeBuffer \/ FreeBuffer' = [FreeBuffer EXCEPT ![p] = Tail(@)]
    BY ExtractOutcomes DEF ExtractTakes, ExtractFails, ExtractWaits
  <2> QED BY <1>0, <2>1, <2>2 DEF PoolTypes
<1>4. pc'[t] = "wait" => getting'[t].pool = p /\ FreeBuffer'[p] = <<>>
  BY <1>0, ExtractOutcomes DEF ExtractTakes, ExtractFails, ExtractWaits, GetFails, ThreadTypes
<1> HIDE DEF p
<1> QED BY <1>2, <1>3, <1>4 DEF NoMissedRelease

\* A thread's step.
LEMMA SignalStep ==
  ASSUME OneGetter, NoMissedRelease, TypeInv, NEW t \in Threads, Call(t) \/ Step(t)
  PROVE  NoMissedRelease'
<1>0. BufferTypes /\ PoolTypes /\ ThreadTypes /\ LocalsAt(t)
  BY DEF TypeInv, TypeOK, LocalsOK
<1> DEFINE kept == /\ OthersStay(t) /\ pc'[t] # "wait"
                   /\ \A p \in Pools : FreeBuffer'[p] # <<>> =>
                        FreeBuffer[p] # <<>> \/ BufferReleaseSignal'[p]
                   /\ \A p \in Pools : BufferReleaseSignal[p] => BufferReleaseSignal'[p]
<1>1. kept => NoMissedRelease'  BY SignalKept
<1>2. ASSUME NEW p \in Pools, NEW nonblocking \in BOOLEAN, GetEnter(t, p, nonblocking) PROVE kept
  BY <1>0, <1>2 DEF GetEnter, ThreadTypes, OthersStay
<1>3. ASSUME GetAborted(t) PROVE kept
  BY <1>0, <1>3 DEF GetAborted, GetFails, ThreadTypes, OthersStay
<1>4. ASSUME GetWoken(t) PROVE kept
  BY <1>0, <1>4 DEF GetWoken, pool, events, ThreadTypes, OthersStay
<1>5. ASSUME GetMemory(t) PROVE kept
  BY <1>0, <1>5 DEF GetMemory, pool, events, ThreadTypes, OthersStay
<1>6. ASSUME GetMemoryFails(t) PROVE kept
  BY <1>0, <1>6 DEF GetMemoryFails, GetFails, pool, events, ThreadTypes, OthersStay
<1>7. ASSUME GetCount(t) PROVE kept
  BY <1>0, <1>7 DEF GetCount, GetFails, events, ThreadTypes, OthersStay
<1>8. ASSUME IncrementPool(t) \/ DecrementPool(t) PROVE kept
  BY <1>0, <1>8 DEF IncrementPool, DecrementPool, events, ThreadTypes, OthersStay
<1>9. ASSUME NEW b \in Buffers, NEW u \in Threads, IncrementReferenceCount(t, b, u) PROVE kept
  BY <1>0, <1>9 DEF IncrementReferenceCount, pool, events, ThreadTypes, OthersStay
<1>10. ASSUME NEW b \in Buffers, DecrementReferenceCount(t, b) PROVE kept
  BY <1>0, <1>10 DEF DecrementReferenceCount, pool, events, ThreadTypes, OthersStay
<1>11. ASSUME IncrementBuffer(t) PROVE kept
  <2>1. \A u \in Threads : refs[u] \subseteq refs'[u]
    BY <1>0, <1>11 DEF IncrementBuffer, ThreadTypes
  <2> QED BY <1>0, <1>11, <2>1 DEF IncrementBuffer, pool, events, ThreadTypes, OthersStay
<1>12. ASSUME DecrementBuffer(t) PROVE kept
  <2>1. /\ \E l \in {"release", "slots", "idle", "tidyup"} : pc' = [pc EXCEPT ![t] = l]
        /\ cur' = [cur EXCEPT ![t] = NULL]
        /\ \E s : stack' = [stack EXCEPT ![t] = s]
        /\ UNCHANGED <<pool, aux, getting, refs>>
    BY <1>12, AfterPlaces DEF DecrementBuffer, Return
  <2> QED BY <1>0, <2>1 DEF pool, events, ThreadTypes, OthersStay
<1>13. ASSUME NEW h \in Buffers, NEW b \in Buffers, AttachBuffer(t, h, b) PROVE kept
  BY <1>0, <1>13, AttachOutcome DEF AttachEffect, pool, events, ThreadTypes, OthersStay
<1>14. ASSUME NEW h \in Buffers, NEW i \in Slots, DetachEffect(t, h, i) PROVE kept
  BY <1>0, <1>14 DEF DetachEffect, pool, events, ThreadTypes, OthersStay
<1>15. ASSUME ReleaseLock(t) \/ ReleaseUnlock(t) \/ ReleaseMemory(t) PROVE kept
  <2>1. /\ \E l \in {"slots", "deallocate", "insert"} : pc' = [pc EXCEPT ![t] = l]
        /\ UNCHANGED <<pool, cur, aux, getting, stack, refs>>
    BY <1>15 DEF ReleaseLock, ReleaseUnlock, ReleaseMemory
  <2> QED BY <1>0, <2>1 DEF pool, events, ThreadTypes, OthersStay
<1>16. ASSUME ReleaseInsert(t) PROVE kept
  <2>1. ReleaseEffect(t, Top(t), PoolOf[Top(t)])  BY <1>16, InsertOutcome
  <2>2. OthersStay(t) /\ pc'[t] # "wait"
    BY <1>0, <2>1, AfterPlaces DEF ReleaseEffect, ThreadTypes, OthersStay
  <2>3. stack[t] # <<>>  BY <1>0, <2>1 DEF ReleaseEffect, LocalsAt, Releasing
  <2>4. PICK p \in Pools : p = PoolOf[Top(t)]
    BY <1>0, <2>3, TopIn, PoolsAssumption
  <2>5. BufferReleaseSignal' = [BufferReleaseSignal EXCEPT ![p] = TRUE]
    BY <1>0, <1>16, <2>4 DEF ReleaseInsert, ReleaseInto, PoolTypes
  <2>6. \A q \in Pools \ {p} : FreeBuffer'[q] = FreeBuffer[q]
    BY <1>0, <2>1, <2>4 DEF ReleaseEffect, PoolTypes
  <2> QED BY <1>0, <2>2, <2>5, <2>6 DEF PoolTypes
<1>17. ASSUME NEW h \in Buffers, NEW b \in Buffers, DetachBuffer(t, h, b) PROVE kept
  <2> HIDE DEF kept
  <2> QED BY <1>14, <1>17, DetachOutcome
<1>18. ASSUME ReleaseAttached(t) PROVE kept
  <2>1. stack[t] # <<>>  BY <1>0, <1>18 DEF ReleaseAttached, LocalsAt, Releasing
  <2>2. Top(t) \in Buffers  BY <1>0, <2>1, TopIn
  <2> HIDE DEF kept
  <2> QED BY <1>0, <1>14, <1>18, <2>1, <2>2, ReleaseOutcome
<1>19. ASSUME NEW p \in Pools, TidyUpDetach(t, p) PROVE kept
  <2> HIDE DEF kept
  <2> QED BY <1>14, <1>19, TidyUpOutcome
<1>20. ASSUME NEW p \in Pools, DestroyPool(t, p) PROVE kept
  <2>1. OthersStay(t) /\ pc'[t] # "wait" /\ FreeBuffer' = FreeBuffer
    BY <1>0, <1>20 DEF DestroyPool, ThreadTypes, OthersStay
  <2>2. BufferReleaseSignal' =
          [BufferReleaseSignal EXCEPT ![p] = @ \/ BufferReleaseSignalWaitedOn[p]]
    BY <1>20 DEF DestroyPool
  <2>3. \A q \in Pools : BufferReleaseSignal[q] => BufferReleaseSignal'[q]
    <3>1. BufferReleaseSignal \in [Pools -> BOOLEAN]  BY <1>0 DEF PoolTypes
    <3> QED BY <2>2, <3>1
  <2> QED BY <2>1, <2>3
<1>21. ASSUME NEW p \in Pools, TidyUpEnd(t, p) PROVE kept
  <2>1. OthersStay(t) /\ pc'[t] # "wait" /\ BufferReleaseSignal' = BufferReleaseSignal
    BY <1>0, <1>21 DEF TidyUpEnd, events, ThreadTypes, OthersStay
  <2>2. \A q \in Pools : FreeBuffer'[q] # <<>> => FreeBuffer[q] # <<>>
    BY <1>0, <1>21 DEF TidyUpEnd, PoolTypes
  <2> QED BY <2>1, <2>2
<1> HIDE DEF kept
<1>22. CASE Call(t)
  BY <1>1, <1>2, <1>9, <1>10, <1>13, <1>17, <1>20, <1>22 DEF Call
<1>23. CASE GetStep(t)
  BY <1>1, <1>3, <1>4, <1>5, <1>6, <1>7, <1>23, SignalExtract DEF GetStep
<1>24. CASE ReferenceStep(t)
  BY <1>1, <1>8, <1>11, <1>12, <1>24 DEF ReferenceStep
<1>25. CASE ReleaseStep(t)
  BY <1>1, <1>15, <1>16, <1>18, <1>25 DEF ReleaseStep
<1>26. CASE TidyUpStep(t)
  BY <1>1, <1>19, <1>21, <1>26 DEF TidyUpStep
<1> QED BY <1>22, <1>23, <1>24, <1>25, <1>26 DEF Step

\* A thread asleep in GetBuffer beside a free buffer has been signalled, when one
\* process takes buffers out of each pool: the signal of a release that comes
\* between its look at the ring and its sleep is still there when it sleeps.
THEOREM NeverMissesRelease ==
  ASSUME QuietDestroy, OneGetter PROVE Spec => []NoMissedRelease
<1>1. Init => NoMissedRelease  BY DEF Init, NoMissedRelease
<1>2. ASSUME Inv, NoMissedRelease, NEW p \in Pools, Abort(p) PROVE NoMissedRelease'
  <2>1. /\ UNCHANGED <<pc, getting, FreeBuffer>>
        /\ BufferReleaseSignal' = [BufferReleaseSignal EXCEPT ![p] = TRUE]
    BY <1>2 DEF Abort, thread
  <2>2. \A q \in Pools : BufferReleaseSignal[q] => BufferReleaseSignal'[q]
    BY <1>2, <2>1 DEF Inv, TypeInv, TypeOK, PoolTypes
  <2>3. \A t \in Threads : pc[t] = "wait" => getting[t].pool \in Pools
    BY <1>2 DEF Inv, TypeInv, LocalsOK, LocalsAt, Getting
  <2> QED BY <1>2, <2>1, <2>2, <2>3 DEF NoMissedRelease
<1>3. ASSUME NoMissedRelease, UNCHANGED vars PROVE NoMissedRelease'
  BY <1>3 DEF NoMissedRelease, vars, pool, events, thread
<1>4. Inv /\ NoMissedRelease /\ [Next]_vars => NoMissedRelease'
  BY <1>2, <1>3, SignalStep DEF Next, Inv
<1> QED BY <1>1, <1>4, Invariant, PTL DEF Spec

---------------------------------------------------------------------------
(* What a pool reports of its buffers.                                     *)

\* Where a thread has changed one count of the two that it changes.
Between == {"incrementbuffer", "decrementbuffer", "count"}

\* The references of a pool, from the counts of its buffers.
Numbered(f, p) == UNION {{b} \X (1 .. f[b]) : b \in PoolBuffers(p)}

CountsInv == PoolCountsExact /\ \A p \in Pools : IsFiniteSet(References(p))

\* A count that grows adds one reference to the pool of its buffer ...
LEMMA NumberedUp ==
  ASSUME NEW f \in [Buffers -> Nat], NEW x \in Buffers, NEW p, IsFiniteSet(Numbered(f, p)),
         NEW g, g[x] = f[x] + 1, \A b \in Buffers \ {x} : g[b] = f[b]
  PROVE  /\ IsFiniteSet(Numbered(g, p)) /\ Cardinality(Numbered(f, p)) \in Nat
         /\ Cardinality(Numbered(g, p)) =
              Cardinality(Numbered(f, p)) + (IF PoolOf[x] = p THEN 1 ELSE 0)
<1>1. Cardinality(Numbered(f, p)) \in Nat  BY FS_CardinalityType
<1>2. g[x] = f[x] + 1 /\ f[x] \in Nat /\ \A b \in Buffers \ {x} : g[b] = f[b]  OBVIOUS
<1>3. PoolBuffers(p) \subseteq Buffers /\ (x \in PoolBuffers(p) <=> PoolOf[x] = p)
  BY DEF PoolBuffers
<1>4. CASE PoolOf[x] # p
  <2>1. \A b \in PoolBuffers(p) : {b} \X (1 .. g[b]) = {b} \X (1 .. f[b])
    BY <1>2, <1>3, <1>4
  <2>2. Numbered(g, p) = Numbered(f, p)  BY <2>1 DEF Numbered
  <2> QED BY <1>1, <1>4, <2>2
<1>5. CASE PoolOf[x] = p
  <2> DEFINE y == <<x, f[x] + 1>>
  <2>1. 1 .. g[x] = (1 .. f[x]) \cup {f[x] + 1} /\ f[x] + 1 \notin 1 .. f[x]
    BY <1>2
  <2>2. {x} \X (1 .. g[x]) = ({x} \X (1 .. f[x])) \cup {y}
    BY <2>1
  <2>3. \A b \in PoolBuffers(p) \ {x} : {b} \X (1 .. g[b]) = {b} \X (1 .. f[b])
    BY <1>2, <1>3
  <2>4. y \notin Numbered(f, p)  BY <2>1 DEF Numbered
  <2>5. ASSUME NEW z \in Numbered(g, p) PROVE z \in Numbered(f, p) \cup {y}
    <3>1. PICK b \in PoolBuffers(p) : z \in {b} \X (1 .. g[b])  BY DEF Numbered
    <3>2. CASE b = x  BY <2>2, <3>1, <3>2 DEF Numbered
    <3>3. CASE b # x  BY <2>3, <3>1, <3>3 DEF Numbered
    <3> QED BY <3>2, <3>3
  <2>6. ASSUME NEW z \in Numbered(f, p) \cup {y} PROVE z \in Numbered(g, p)
    <3>1. CASE z = y  BY <1>3, <1>5, <2>2, <3>1 DEF Numbered
    <3>2. CASE z \in Numbered(f, p)
      <4>1. PICK b \in PoolBuffers(p) : z \in {b} \X (1 .. f[b])  BY <3>2 DEF Numbered
      <4>2. z \in {b} \X (1 .. g[b])  BY <2>2, <2>3, <4>1
      <4> QED BY <4>1, <4>2 DEF Numbered
    <3> QED BY <3>1, <3>2
  <2>7. Numbered(g, p) = Numbered(f, p) \cup {y}  BY <2>5, <2>6
  <2> HIDE DEF y
  <2>8. /\ IsFiniteSet(Numbered(f, p) \cup {y})
        /\ Cardinality(Numbered(f, p) \cup {y}) = Cardinality(Numbered(f, p)) + 1
    BY <2>4, FS_AddElement
  <2> QED BY <1>1, <1>5, <2>7, <2>8
<1> QED BY <1>4, <1>5

\* ... and one that falls takes one away.
LEMMA NumberedDown ==
  ASSUME NEW f \in [Buffers -> Nat], NEW x \in Buffers, NEW p, IsFiniteSet(Numbered(f, p)),
         NEW g \in [Buffers -> Nat], g[x] = f[x] - 1, \A b \in Buffers \ {x} : g[b] = f[b]
  PROVE  /\ IsFiniteSet(Numbered(g, p)) /\ Cardinality(Numbered(f, p)) \in Nat
         /\ Cardinality(Numbered(g, p)) =
              Cardinality(Numbered(f, p)) - (IF PoolOf[x] = p THEN 1 ELSE 0)
<1>1. f[x] = g[x] + 1 /\ \A b \in Buffers \ {x} : f[b] = g[b]  OBVIOUS
<1>3. \A b \in Buffers : 1 .. g[b] \subseteq 1 .. f[b]  BY <1>1
<1>4. Numbered(g, p) \subseteq Numbered(f, p)
  <2>1. ASSUME NEW z \in Numbered(g, p) PROVE z \in Numbered(f, p)
    <3>1. PICK b \in PoolBuffers(p) : z \in {b} \X (1 .. g[b])  BY DEF Numbered
    <3>2. z \in {b} \X (1 .. f[b])  BY <1>3, <3>1 DEF PoolBuffers
    <3> QED BY <3>1, <3>2 DEF Numbered
  <2> QED BY <2>1
<1>5. IsFiniteSet(Numbered(g, p))  BY <1>4, FS_Subset
<1>6. /\ Cardinality(Numbered(g, p)) \in Nat
      /\ Cardinality(Numbered(f, p)) =
           Cardinality(Numbered(g, p)) + (IF PoolOf[x] = p THEN 1 ELSE 0)
  BY <1>1, <1>5, NumberedUp
<1>7. Cardinality(Numbered(f, p)) \in Nat  BY FS_CardinalityType
<1> QED BY <1>5, <1>6, <1>7

\* A thread that moves is counted where it has come to, and no more where it was.
LEMMA AtMoves ==
  ASSUME NEW t \in Threads, NEW place, NEW p,
         \A u \in Threads \ {t} : pc'[u] = pc[u] /\ cur'[u] = cur[u]
  PROVE  LET was == pc[t] = place /\ PoolOf[cur[t]] = p
             is  == pc'[t] = place /\ PoolOf[cur'[t]] = p
         IN  /\ Cardinality(At(place, p)) \in Nat
             /\ Cardinality(At(place, p)') =
                  Cardinality(At(place, p)) + (IF is THEN 1 ELSE 0) - (IF was THEN 1 ELSE 0)
<1> DEFINE was == pc[t] = place /\ PoolOf[cur[t]] = p
           is  == pc'[t] = place /\ PoolOf[cur'[t]] = p
           A == At(place, p)
           B == At(place, p)'
<1>1. /\ A \in SUBSET Threads /\ (t \in A <=> was) /\ (t \in B <=> is)
      /\ \A u : u \in B <=> (IF u = t THEN is ELSE u \in A)
  BY DEF At
<1>2. IsFiniteSet(A)  BY <1>1, PoolsAssumption, FS_Subset
<1>3. Cardinality(A) \in Nat  BY <1>2, FS_CardinalityType
<1> HIDE DEF A, B, was, is
<1>4. CASE is /\ ~was
  <2>1. B = A \cup {t} /\ t \notin A  BY <1>1, <1>4
  <2>2. Cardinality(A \cup {t}) = Cardinality(A) + 1  BY <1>2, <2>1, FS_AddElement
  <2>3. Cardinality(B) = Cardinality(A) + 1  BY <2>1, <2>2
  <2> QED BY <1>3, <1>4, <2>3 DEF A, B, was, is
<1>5. CASE ~is /\ was
  <2>1. B = A \ {t} /\ t \in A  BY <1>1, <1>5
  <2>2. Cardinality(A \ {t}) = Cardinality(A) - 1  BY <1>2, <2>1, FS_RemoveElement
  <2>3. Cardinality(B) = Cardinality(A) - 1  BY <2>1, <2>2
  <2> QED BY <1>3, <1>5, <2>3 DEF A, B, was, is
<1>6. CASE is <=> was
  <2>1. B = A  BY <1>1, <1>6
  <2> QED BY <1>3, <1>6, <2>1 DEF A, B, was, is
<1> QED BY <1>4, <1>5, <1>6

\* So is a buffer that becomes referenced, or is back in the ring.
LEMMA ReferencedMoves ==
  ASSUME NEW x \in Buffers, NEW p,
         \A b \in Buffers \ {x} : (InUse(b) \/ Released(b))' <=> InUse(b) \/ Released(b)
  PROVE  LET was == (InUse(x) \/ Released(x)) /\ PoolOf[x] = p
             is  == (InUse(x) \/ Released(x))' /\ PoolOf[x] = p
         IN  /\ Cardinality(Referenced(p)) \in Nat
             /\ Cardinality(Referenced(p)') =
                  Cardinality(Referenced(p)) + (IF is THEN 1 ELSE 0) - (IF was THEN 1 ELSE 0)
<1> DEFINE was == (InUse(x) \/ Released(x)) /\ PoolOf[x] = p
           is  == (InUse(x) \/ Released(x))' /\ PoolOf[x] = p
           A == Referenced(p)
           B == Referenced(p)'
<1>1. /\ A \in SUBSET Buffers /\ (x \in A <=> was) /\ (x \in B <=> is)
      /\ \A b : b \in B <=> (IF b = x THEN is ELSE b \in A)
  <2>1. \A b : b \in A <=> b \in Buffers /\ PoolOf[b] = p /\ (InUse(b) \/ Released(b))
    BY DEF Referenced, PoolBuffers, InUse, Released, Releasers
  <2>2. \A b : b \in B <=> b \in Buffers /\ PoolOf[b] = p /\ (InUse(b) \/ Released(b))'
    BY DEF Referenced, PoolBuffers, InUse, Released, Releasers
  <2> HIDE DEF A, B
  <2> QED BY <2>1, <2>2
<1>2. IsFiniteSet(A)  BY <1>1, PoolsAssumption, FS_Subset
<1>3. Cardinality(A) \in Nat  BY <1>2, FS_CardinalityType
<1> HIDE DEF A, B, was, is
<1>4. CASE is /\ ~was
  <2>1. B = A \cup {x} /\ x \notin A  BY <1>1, <1>4
  <2>2. Cardinality(A \cup {x}) = Cardinality(A) + 1  BY <1>2, <2>1, FS_AddElement
  <2>3. Cardinality(B) = Cardinality(A) + 1  BY <2>1, <2>2
  <2> QED BY <1>3, <1>4, <2>3 DEF A, B, was, is
<1>5. CASE ~is /\ was
  <2>1. B = A \ {x} /\ x \in A  BY <1>1, <1>5
  <2>2. Cardinality(A \ {x}) = Cardinality(A) - 1  BY <1>2, <2>1, FS_RemoveElement
  <2>3. Cardinality(B) = Cardinality(A) - 1  BY <2>1, <2>2
  <2> QED BY <1>3, <1>5, <2>3 DEF A, B, was, is
<1>6. CASE is <=> was
  <2>1. B = A  BY <1>1, <1>6
  <2> QED BY <1>3, <1>6, <2>1 DEF A, B, was, is
<1> QED BY <1>4, <1>5, <1>6

\* A step that makes, counts and drops nothing.
LEMMA CountsKept ==
  ASSUME CountsInv, NEW t \in Threads, OthersStay(t), UNCHANGED <<ReferenceCount, counts, stack>>,
         pc[t] \notin Between, pc'[t] \notin Between
  PROVE  CountsInv'
<1>1. ASSUME NEW p, NEW place \in Between PROVE At(place, p)' = At(place, p)
  BY DEF At, OthersStay
<1>2. ASSUME NEW p PROVE References(p)' = References(p) /\ Referenced(p)' = Referenced(p)
  BY DEF References, Referenced, Releasers
<1>3. UNCHANGED counts  OBVIOUS
<1> QED BY <1>1, <1>2, <1>3 DEF CountsInv, PoolCountsExact, Between, counts

\* What a step of thread t adds to the threads at a place, and to the buffers referenced.
Arrives(t, place) ==
  (IF pc'[t] = place THEN 1 ELSE 0) - (IF pc[t] = place THEN 1 ELSE 0)
Joins(x) ==
  (IF (InUse(x) \/ Released(x))' THEN 1 ELSE 0) - (IF InUse(x) \/ Released(x) THEN 1 ELSE 0)

\* What a thread t does to the counts when it is at buffer x.
LEMMA CountsMove ==
  ASSUME CountsInv, BufferTypes, PoolTypes, NEW t \in Threads, NEW x \in Buffers,
         \A u \in Threads \ {t} : pc'[u] = pc[u] /\ cur'[u] = cur[u],
         \/ ReferenceCount' = ReferenceCount
         \/ ReferenceCount' = [ReferenceCount EXCEPT ![x] = @ + 1]
         \/ ReferenceCount[x] # 0 /\ ReferenceCount' = [ReferenceCount EXCEPT ![x] = @ - 1],
         \A b \in Buffers \ {x} : (InUse(b) \/ Released(b))' <=> InUse(b) \/ Released(b),
         pc[t] \in Between => cur[t] = x, pc'[t] \in Between => cur'[t] = x,
         PoolReferenceCount' =
           [PoolReferenceCount EXCEPT ![PoolOf[x]] = @ +
              (ReferenceCount'[x] - ReferenceCount[x] + Arrives(t, "incrementbuffer")
               - Arrives(t, "decrementbuffer") - Arrives(t, "count"))],
         CountOfReferencedBuffers' =
           [CountOfReferencedBuffers EXCEPT ![PoolOf[x]] = @ + (Joins(x) - Arrives(t, "count"))]
  PROVE  CountsInv'
<1> DEFINE at(place)  == Arrives(t, place)
           used       == Joins(x)
           more       == ReferenceCount'[x] - ReferenceCount[x]
<1>1. /\ ReferenceCount[x] \in Nat /\ more \in {0, 1, -1}
      /\ more = 0 => ReferenceCount' = ReferenceCount
  BY DEF BufferTypes
<1>2. ASSUME NEW p \in Pools
      PROVE  /\ IsFiniteSet(References(p)') /\ Cardinality(References(p)) \in Nat
             /\ Cardinality(References(p)') =
                  Cardinality(References(p)) + (IF PoolOf[x] = p THEN more ELSE 0)
  <2>1. References(p) = Numbered(ReferenceCount, p) /\ References(p)' = Numbered(ReferenceCount', p)
    BY DEF References, Numbered
  <2>2. IsFiniteSet(Numbered(ReferenceCount, p))  BY <2>1 DEF CountsInv
  <2>3. Cardinality(Numbered(ReferenceCount, p)) \in Nat  BY <2>2, FS_CardinalityType
  <2>4. ReferenceCount \in [Buffers -> Nat]  BY DEF BufferTypes
  <2>5. /\ ReferenceCount' \in [Buffers -> Nat]
        /\ \A b \in Buffers \ {x} : ReferenceCount'[b] = ReferenceCount[b]
    BY <2>4
  <2>6. CASE ReferenceCount' = ReferenceCount
    <3>1. more = 0  BY <1>1, <2>6
    <3> QED BY <2>1, <2>2, <2>3, <2>6, <3>1
  <2>7. CASE ReferenceCount' = [ReferenceCount EXCEPT ![x] = @ + 1]
    <3>1. more = 1  BY <1>1, <2>4, <2>7
    <3>2. ReferenceCount'[x] = ReferenceCount[x] + 1  BY <2>4, <2>7
    <3>3. /\ IsFiniteSet(Numbered(ReferenceCount', p))
          /\ Cardinality(Numbered(ReferenceCount', p)) =
               Cardinality(Numbered(ReferenceCount, p)) + (IF PoolOf[x] = p THEN 1 ELSE 0)
      BY <2>2, <2>4, <2>5, <3>2, NumberedUp
    <3> HIDE DEF more
    <3> QED BY <2>1, <2>3, <3>1, <3>3
  <2>8. CASE ReferenceCount[x] # 0 /\ ReferenceCount' = [ReferenceCount EXCEPT ![x] = @ - 1]
    <3>1. more = -1  BY <1>1, <2>4, <2>8
    <3>2. ReferenceCount'[x] = ReferenceCount[x] - 1  BY <2>4, <2>8
    <3>3. /\ IsFiniteSet(Numbered(ReferenceCount', p))
          /\ Cardinality(Numbered(ReferenceCount', p)) =
               Cardinality(Numbered(ReferenceCount, p)) - (IF PoolOf[x] = p THEN 1 ELSE 0)
      BY <2>2, <2>4, <2>5, <3>2, NumberedDown
    <3> HIDE DEF more
    <3> QED BY <2>1, <2>3, <3>1, <3>3
  <2> QED BY <2>6, <2>7, <2>8
<1>3. ASSUME NEW p \in Pools, NEW place \in Between
      PROVE  /\ Cardinality(At(place, p)) \in Nat
             /\ Cardinality(At(place, p)') =
                  Cardinality(At(place, p)) + (IF PoolOf[x] = p THEN at(place) ELSE 0)
  <2>1. /\ Cardinality(At(place, p)) \in Nat
        /\ Cardinality(At(place, p)') = Cardinality(At(place, p))
             + (IF pc'[t] = place /\ PoolOf[cur'[t]] = p THEN 1 ELSE 0)
             - (IF pc[t] = place /\ PoolOf[cur[t]] = p THEN 1 ELSE 0)
    BY AtMoves
  <2>2. (pc[t] = place => cur[t] = x) /\ (pc'[t] = place => cur'[t] = x)  OBVIOUS
  <2> QED BY <2>1, <2>2 DEF Arrives
<1>4. ASSUME NEW p \in Pools
      PROVE  /\ Cardinality(Referenced(p)) \in Nat
             /\ Cardinality(Referenced(p)') =
                  Cardinality(Referenced(p)) + (IF PoolOf[x] = p THEN used ELSE 0)
  <2>1. /\ Cardinality(Referenced(p)) \in Nat
        /\ Cardinality(Referenced(p)') = Cardinality(Referenced(p))
             + (IF (InUse(x) \/ Released(x))' /\ PoolOf[x] = p THEN 1 ELSE 0)
             - (IF (InUse(x) \/ Released(x)) /\ PoolOf[x] = p THEN 1 ELSE 0)
    BY ReferencedMoves
  <2> QED BY <2>1 DEF Joins
<1>5. /\ \A place : at(place) \in {0, 1, -1} /\ used \in {0, 1, -1}
      /\ {"incrementbuffer", "decrementbuffer", "count"} = Between
  BY DEF Between, Arrives, Joins
<1>6. ASSUME NEW p \in Pools
      PROVE  /\ PoolReferenceCount'[p] = PoolReferenceCount[p] +
                  (IF PoolOf[x] = p
                   THEN more + at("incrementbuffer") - at("decrementbuffer") - at("count") ELSE 0)
             /\ CountOfReferencedBuffers'[p] = CountOfReferencedBuffers[p] +
                  (IF PoolOf[x] = p THEN used - at("count") ELSE 0)
             /\ PoolReferenceCount[p] \in Int /\ CountOfReferencedBuffers[p] \in Int
  BY <1>1, <1>5 DEF PoolTypes
<1> HIDE DEF more, at, used
<1>7. ASSUME NEW p \in Pools
      PROVE  /\ PoolReferenceCount'[p] =
                  Cardinality(References(p)') + Cardinality(At("incrementbuffer", p)')
                  - Cardinality(At("decrementbuffer", p)') - Cardinality(At("count", p)')
             /\ CountOfReferencedBuffers'[p] =
                  Cardinality(Referenced(p)') - Cardinality(At("count", p)')
  <2>1. /\ PoolReferenceCount[p] =
             Cardinality(References(p)) + Cardinality(At("incrementbuffer", p))
             - Cardinality(At("decrementbuffer", p)) - Cardinality(At("count", p))
        /\ CountOfReferencedBuffers[p] =
             Cardinality(Referenced(p)) - Cardinality(At("count", p))
    BY DEF CountsInv, PoolCountsExact
  <2>2. "incrementbuffer" \in Between /\ "decrementbuffer" \in Between /\ "count" \in Between
    BY DEF Between
  <2>3. CASE PoolOf[x] = p
    <3>1. /\ more \in Int /\ used \in Int
          /\ at("incrementbuffer") \in Int /\ at("decrementbuffer") \in Int /\ at("count") \in Int
      BY <1>1, <1>5
    <3>2. /\ Cardinality(At("incrementbuffer", p)) \in Nat
          /\ Cardinality(At("incrementbuffer", p)') =
               Cardinality(At("incrementbuffer", p)) + at("incrementbuffer")
      BY <1>3, <2>2, <2>3
    <3>3. /\ Cardinality(At("decrementbuffer", p)) \in Nat
          /\ Cardinality(At("decrementbuffer", p)') =
               Cardinality(At("decrementbuffer", p)) + at("decrementbuffer")
      BY <1>3, <2>2, <2>3
    <3>4. /\ Cardinality(At("count", p)) \in Nat
          /\ Cardinality(At("count", p)') = Cardinality(At("count", p)) + at("count")
      BY <1>3, <2>2, <2>3
    <3> QED BY <1>2, <1>4, <1>6, <2>1, <2>3, <3>1, <3>2, <3>3, <3>4
  <2>4. CASE PoolOf[x] # p
    BY <1>2, <1>3, <1>4, <1>6, <2>1, <2>2, <2>4
  <2> QED BY <2>3, <2>4
<1> QED BY <1>2, <1>7 DEF CountsInv, PoolCountsExact

\* The steps between which the counts differ: a buffer comes out of GetBuffer, ...
LEMMA CountsGot ==
  ASSUME TypeInv, PlacesInv, CountsInv, NEW t \in Threads, GetMemory(t) \/ GetCount(t)
  PROVE  CountsInv'
<1>0. BufferTypes /\ PoolTypes /\ ThreadTypes /\ LocalsAt(t)  BY DEF TypeInv, TypeOK, LocalsOK
<1>1. PICK x \in Buffers : x = cur[t] /\ PoolOf[x] = getting[t].pool /\ PoolOf[x] \in Pools
  BY <1>0, PoolsAssumption DEF GetMemory, GetCount, LocalsAt
<1>2. CASE GetMemory(t)
  <2>1. /\ ReferenceCount' = [ReferenceCount EXCEPT ![x] = 1]
        /\ pc[t] = "memory" /\ pc' = [pc EXCEPT ![t] = "count"]
        /\ UNCHANGED <<cur, stack, PoolReferenceCount, CountOfReferencedBuffers>>
    BY <1>1, <1>2 DEF GetMemory, pool, counts
  <2>2. /\ pc'[t] = "count" /\ cur'[t] = x
        /\ \A u \in Threads \ {t} : pc'[u] = pc[u] /\ cur'[u] = cur[u]
    BY <1>0, <1>1, <2>1 DEF ThreadTypes
  <2>3. ~InUse(x) /\ ~Released(x)  BY <1>1, <2>1 DEF PlacesInv, Placed, Taken
  <2>4. ReferenceCount[x] = 0  BY <1>0, <2>3 DEF InUse, BufferTypes
  <2>5. /\ ReferenceCount' = [ReferenceCount EXCEPT ![x] = @ + 1]
        /\ ReferenceCount'[x] = 1
        /\ \A b \in Buffers \ {x} : ReferenceCount'[b] = ReferenceCount[b]
    BY <1>0, <2>1, <2>4 DEF BufferTypes
  <2>6. /\ \A b \in Buffers \ {x} : (InUse(b) \/ Released(b))' <=> InUse(b) \/ Released(b)
        /\ InUse(x)'
    BY <2>1, <2>5 DEF InUse, Released
  <2>7. /\ Arrives(t, "incrementbuffer") = 0 /\ Arrives(t, "decrementbuffer") = 0
        /\ Arrives(t, "count") = 1 /\ Joins(x) = 1
    BY <2>1, <2>2, <2>3, <2>6 DEF Arrives, Joins
  <2>8. pc[t] \notin Between  BY <2>1 DEF Between
  <2>9. /\ PoolReferenceCount' = [PoolReferenceCount EXCEPT ![PoolOf[x]] = @ + (1 - 0 + 0 - 0 - 1)]
        /\ CountOfReferencedBuffers' = [CountOfReferencedBuffers EXCEPT ![PoolOf[x]] = @ + (1 - 1)]
    BY <1>0, <1>1, <2>1 DEF PoolTypes
  <2> QED BY <1>0, <2>2, <2>4, <2>5, <2>6, <2>7, <2>8, <2>9, CountsMove
<1>3. CASE GetCount(t)
  <2>1. /\ pc[t] = "count" /\ pc' = [pc EXCEPT ![t] = "idle"]
        /\ cur' = [cur EXCEPT ![t] = NULL]
        /\ PoolReferenceCount' = [PoolReferenceCount EXCEPT ![PoolOf[x]] = @ + 1]
        /\ CountOfReferencedBuffers' = [CountOfReferencedBuffers EXCEPT ![PoolOf[x]] = @ + 1]
        /\ UNCHANGED <<stack, ReferenceCount>>
    BY <1>1, <1>3 DEF GetCount, GetFails, buffer
  <2>2. /\ pc'[t] = "idle"
        /\ \A u \in Threads \ {t} : pc'[u] = pc[u] /\ cur'[u] = cur[u]
    BY <1>0, <2>1 DEF ThreadTypes
  <2>3. \A b \in Buffers : (InUse(b) \/ Released(b))' <=> InUse(b) \/ Released(b)
    BY <2>1 DEF InUse, Released
  <2>4. /\ Arrives(t, "incrementbuffer") = 0 /\ Arrives(t, "decrementbuffer") = 0
        /\ Arrives(t, "count") = -1 /\ Joins(x) = 0
    BY <2>1, <2>2, <2>3 DEF Arrives, Joins
  <2>5. ReferenceCount'[x] - ReferenceCount[x] = 0  BY <1>0, <2>1 DEF BufferTypes
  <2>6. pc'[t] \notin Between  BY <2>2 DEF Between
  <2>7. /\ PoolReferenceCount' = [PoolReferenceCount EXCEPT ![PoolOf[x]] = @ + (0 + 0 - 0 - (-1))]
        /\ CountOfReferencedBuffers' =
             [CountOfReferencedBuffers EXCEPT ![PoolOf[x]] = @ + (0 - (-1))]
    BY <2>1
  <2> QED BY <1>0, <1>1, <2>1, <2>2, <2>3, <2>4, <2>5, <2>6, <2>7, CountsMove
<1> QED BY <1>2, <1>3

\* ... the pool's count of references changes ahead of the buffer's, ...
LEMMA CountsAhead ==
  ASSUME TypeInv, CountsInv, NEW t \in Threads, IncrementPool(t) \/ DecrementPool(t)
  PROVE  CountsInv'
<1>0. BufferTypes /\ PoolTypes /\ ThreadTypes /\ LocalsAt(t)  BY DEF TypeInv, TypeOK, LocalsOK
<1>1. PICK x \in Buffers : x = cur[t] /\ PoolOf[x] \in Pools
  BY <1>0, PoolsAssumption
     DEF IncrementPool, DecrementPool, LocalsAt, Incrementing, Decrementing, ThreadTypes
<1>2. UNCHANGED <<ReferenceCount, stack, cur, CountOfReferencedBuffers>>
  BY DEF IncrementPool, DecrementPool, buffer
<1>3. \A b \in Buffers : (InUse(b) \/ Released(b))' <=> InUse(b) \/ Released(b)
  BY <1>2 DEF InUse, Released
<1>4. ReferenceCount'[x] - ReferenceCount[x] = 0 /\ Joins(x) = 0
  BY <1>0, <1>2, <1>3 DEF BufferTypes, Joins
<1>5. CountOfReferencedBuffers' = [CountOfReferencedBuffers EXCEPT ![PoolOf[x]] = @ + (0 - 0)]
  BY <1>0, <1>1, <1>2 DEF PoolTypes
<1>6. CASE IncrementPool(t)
  <2>1. /\ pc[t] = "incrementpool" /\ pc' = [pc EXCEPT ![t] = "incrementbuffer"]
        /\ PoolReferenceCount' = [PoolReferenceCount EXCEPT ![PoolOf[x]] = @ + 1]
    BY <1>1, <1>6 DEF IncrementPool
  <2>2. /\ pc'[t] = "incrementbuffer" /\ pc[t] \notin Between
        /\ \A u \in Threads \ {t} : pc'[u] = pc[u] /\ cur'[u] = cur[u]
    BY <1>0, <1>2, <2>1 DEF ThreadTypes, Between
  <2>3. /\ Arrives(t, "incrementbuffer") = 1 /\ Arrives(t, "decrementbuffer") = 0
        /\ Arrives(t, "count") = 0
    BY <2>1, <2>2 DEF Arrives
  <2>4. PoolReferenceCount' = [PoolReferenceCount EXCEPT ![PoolOf[x]] = @ + (0 + 1 - 0 - 0)]
    BY <2>1
  <2> QED BY <1>0, <1>1, <1>2, <1>3, <1>4, <1>5, <2>2, <2>3, <2>4, CountsMove
<1>7. CASE DecrementPool(t)
  <2>1. /\ pc[t] = "decrementpool" /\ pc' = [pc EXCEPT ![t] = "decrementbuffer"]
        /\ PoolReferenceCount' = [PoolReferenceCount EXCEPT ![PoolOf[x]] = @ - 1]
    BY <1>1, <1>7 DEF DecrementPool
  <2>2. /\ pc'[t] = "decrementbuffer" /\ pc[t] \notin Between
        /\ \A u \in Threads \ {t} : pc'[u] = pc[u] /\ cur'[u] = cur[u]
    BY <1>0, <1>2, <2>1 DEF ThreadTypes, Between
  <2>3. /\ Arrives(t, "incrementbuffer") = 0 /\ Arrives(t, "decrementbuffer") = 1
        /\ Arrives(t, "count") = 0
    BY <2>1, <2>2 DEF Arrives
  <2>4. PoolReferenceCount' = [PoolReferenceCount EXCEPT ![PoolOf[x]] = @ + (0 + 0 - 1 - 0)]
    <3>1. PoolReferenceCount[PoolOf[x]] \in Int  BY <1>0, <1>1 DEF PoolTypes
    <3>2. PoolReferenceCount[PoolOf[x]] - 1 = PoolReferenceCount[PoolOf[x]] + (0 + 0 - 1 - 0)
      BY <3>1
    <3> QED BY <2>1, <3>2
  <2>5. PoolReferenceCount' =
          [PoolReferenceCount EXCEPT ![PoolOf[x]] = @ +
             (ReferenceCount'[x] - ReferenceCount[x] + Arrives(t, "incrementbuffer")
              - Arrives(t, "decrementbuffer") - Arrives(t, "count"))]
    BY <1>4, <2>3, <2>4
  <2>6. CountOfReferencedBuffers' =
          [CountOfReferencedBuffers EXCEPT ![PoolOf[x]] = @ + (Joins(x) - Arrives(t, "count"))]
    BY <1>4, <1>5, <2>3
  <2> QED BY <1>0, <1>1, <1>2, <1>3, <2>2, <2>5, <2>6, CountsMove
<1> QED BY <1>6, <1>7

\* ... the buffer's follows, ...
LEMMA CountsFollow ==
  ASSUME TypeInv, ReferencesInv, PlacesInv, CountsInv, NEW t \in Threads,
         IncrementBuffer(t) \/ DecrementBuffer(t)
  PROVE  CountsInv'
<1>0. BufferTypes /\ PoolTypes /\ ThreadTypes /\ LocalsAt(t)  BY DEF TypeInv, TypeOK, LocalsOK
<1>1. PICK x \in Buffers : x = cur[t] /\ PoolOf[x] \in Pools
  BY <1>0, PoolsAssumption
     DEF IncrementBuffer, DecrementBuffer, LocalsAt, Incrementing, Decrementing, ThreadTypes
<1>2. UNCHANGED <<PoolReferenceCount, CountOfReferencedBuffers>>
  BY DEF IncrementBuffer, DecrementBuffer, pool, counts
<1>3. InUse(x) /\ ReferenceCount[x] \in Nat \ {0}
  <2>1. (Incrementing(t) => cur[t] \in refs[t]) /\ (Incrementing(t) \/ Decrementing(t))
    BY <1>0 DEF IncrementBuffer, DecrementBuffer, LocalsAt, Incrementing, Decrementing
  <2>2. ReferenceCount[x] > 0  BY <1>1, <2>1, UserCounted
  <2> QED BY <1>0, <2>2 DEF InUse, BufferTypes
<1>4. CountOfReferencedBuffers' = [CountOfReferencedBuffers EXCEPT ![PoolOf[x]] = @ + (0 - 0)]
  BY <1>0, <1>1, <1>2 DEF PoolTypes
<1>5. CASE IncrementBuffer(t)
  <2>1. /\ pc[t] = "incrementbuffer" /\ pc' = [pc EXCEPT ![t] = "idle"]
        /\ cur' = [cur EXCEPT ![t] = NULL] /\ stack' = stack
        /\ ReferenceCount' = [ReferenceCount EXCEPT ![x] = @ + 1]
    BY <1>1, <1>5 DEF IncrementBuffer
  <2>2. /\ pc'[t] = "idle" /\ pc'[t] \notin Between
        /\ \A u \in Threads \ {t} : pc'[u] = pc[u] /\ cur'[u] = cur[u]
    BY <1>0, <2>1 DEF ThreadTypes, Between
  <2>3. /\ ReferenceCount'[x] = ReferenceCount[x] + 1
        /\ \A b \in Buffers \ {x} : ReferenceCount'[b] = ReferenceCount[b]
    BY <1>0, <2>1 DEF BufferTypes
  <2>4. /\ \A b \in Buffers \ {x} : (InUse(b) \/ Released(b))' <=> InUse(b) \/ Released(b)
        /\ InUse(x)'
    BY <1>3, <2>1, <2>3 DEF InUse, Released
  <2>5. /\ Arrives(t, "incrementbuffer") = -1 /\ Arrives(t, "decrementbuffer") = 0
        /\ Arrives(t, "count") = 0 /\ Joins(x) = 0
    BY <1>3, <2>1, <2>2, <2>4 DEF Arrives, Joins
  <2>6. ReferenceCount'[x] - ReferenceCount[x] = 1  BY <1>3, <2>3
  <2>7. PoolReferenceCount' = [PoolReferenceCount EXCEPT ![PoolOf[x]] = @ + (1 + (-1) - 0 - 0)]
    BY <1>0, <1>1, <1>2 DEF PoolTypes
  <2> QED BY <1>0, <1>1, <1>4, <2>1, <2>2, <2>4, <2>5, <2>6, <2>7, CountsMove
<1>6. CASE DecrementBuffer(t)
  <2>1. /\ pc[t] = "decrementbuffer" /\ cur' = [cur EXCEPT ![t] = NULL]
        /\ \E l \in {"release", "slots", "idle", "tidyup"} : pc' = [pc EXCEPT ![t] = l]
        /\ ReferenceCount' = [ReferenceCount EXCEPT ![x] = @ - 1]
    BY <1>1, <1>6, AfterPlaces DEF DecrementBuffer, Return
  <2>2. /\ pc'[t] \in {"release", "slots", "idle", "tidyup"} /\ pc'[t] \notin Between
        /\ \A u \in Threads \ {t} : pc'[u] = pc[u] /\ cur'[u] = cur[u]
    BY <1>0, <2>1 DEF ThreadTypes, Between
  <2>3. /\ ReferenceCount'[x] = ReferenceCount[x] - 1
        /\ \A b \in Buffers \ {x} : ReferenceCount'[b] = ReferenceCount[b]
    BY <1>0, <2>1 DEF BufferTypes
  <2>4. /\ \A b \in Buffers \ {x} : Released(b)' <=> Released(b)
        /\ InUse(x)' \/ Released(x)'
    <3>1. CASE ReferenceCount[x] = 1
      <4>1. stack' = [stack EXCEPT ![t] = Append(@, x)]  BY <1>1, <1>6, <3>1 DEF DecrementBuffer
      <4>2. /\ stack'[t] = Append(stack[t], x) /\ stack[t] \in Seq(Buffers)
            /\ \A u \in Threads \ {t} : stack'[u] = stack[u]
        BY <1>0, <4>1 DEF ThreadTypes
      <4>3. Once(stack[t]) /\ x \notin AsSet(stack[t])
        BY <1>3 DEF PlacesInv, Single, Placed, Released
      <4>4. AsSet(stack'[t]) = AsSet(stack[t]) \cup {x}
        BY <4>2, <4>3, AppendOnce
      <4> QED BY <4>2, <4>4 DEF Released
    <3>2. CASE ReferenceCount[x] # 1
      <4>1. stack' = stack
        BY <1>0, <1>1, <1>6, <3>2 DEF DecrementBuffer, Return, ThreadTypes
      <4> QED BY <1>3, <2>3, <3>2, <4>1 DEF InUse, Released
    <3> QED BY <3>1, <3>2
  <2>5. \A b \in Buffers \ {x} : (InUse(b) \/ Released(b))' <=> InUse(b) \/ Released(b)
    BY <2>3, <2>4 DEF InUse
  <2>6. /\ Arrives(t, "incrementbuffer") = 0 /\ Arrives(t, "decrementbuffer") = -1
        /\ Arrives(t, "count") = 0 /\ Joins(x) = 0
    BY <1>3, <2>1, <2>2, <2>4 DEF Arrives, Joins
  <2>7. ReferenceCount'[x] - ReferenceCount[x] = -1 /\ ReferenceCount[x] # 0  BY <1>3, <2>3
  <2>8. PoolReferenceCount' =
          [PoolReferenceCount EXCEPT ![PoolOf[x]] = @ + ((-1) + 0 - (-1) - 0)]
    BY <1>0, <1>1, <1>2 DEF PoolTypes
  <2> QED BY <1>0, <1>1, <1>4, <2>1, <2>2, <2>5, <2>6, <2>7, <2>8, CountsMove
<1> QED BY <1>5, <1>6

\* ... and the buffer goes back into the ring.
LEMMA CountsBack ==
  ASSUME TypeInv, PlacesInv, CountsInv, NEW t \in Threads, ReleaseInsert(t)
  PROVE  CountsInv'
<1>0. BufferTypes /\ PoolTypes /\ ThreadTypes /\ LocalsAt(t)  BY DEF TypeInv, TypeOK, LocalsOK
<1>1. ReleaseEffect(t, Top(t), PoolOf[Top(t)])  BY InsertOutcome
<1>2. pc[t] = "insert" /\ stack[t] # <<>>
  BY <1>0, <1>1 DEF ReleaseEffect, LocalsAt, Releasing
<1>3. PICK x \in Buffers : x = Top(t) /\ PoolOf[x] \in Pools
  BY <1>0, <1>2, TopIn, PoolsAssumption
<1>4. /\ CountOfReferencedBuffers' = [CountOfReferencedBuffers EXCEPT ![PoolOf[x]] = @ - 1]
      /\ UNCHANGED <<PoolReferenceCount, ReferenceCount>>
  BY <1>3 DEF ReleaseInsert, ReleaseInto, buffer
<1>5. /\ pc'[t] \in {"slots", "idle", "tidyup"} /\ pc[t] \notin Between /\ pc'[t] \notin Between
      /\ \A u \in Threads \ {t} : pc'[u] = pc[u] /\ cur'[u] = cur[u] /\ stack'[u] = stack[u]
      /\ stack'[t] = SubSeq(stack[t], 1, Len(stack[t]) - 1)
  BY <1>0, <1>1, <1>2, AfterPlaces DEF ReleaseEffect, ThreadTypes, Between
<1>6. x \in AsSet(stack[t]) /\ AsSet(stack'[t]) = AsSet(stack[t]) \ {x}
  BY <1>0, <1>2, <1>3, <1>5, PopOnce DEF PlacesInv, Single
<1>7. \A b : Released(b)' <=> Released(b) /\ b # x
  <2>1. \A u \in Threads \ {t} : x \notin AsSet(stack[u])
    BY <1>6 DEF PlacesInv, Single
  <2> QED BY <1>5, <1>6, <2>1 DEF Released
<1>8. Released(x) /\ ~InUse(x)
  <2>1. Released(x)  BY <1>6 DEF Released
  <2> QED BY <2>1 DEF PlacesInv, Placed
<1>9. \A b : InUse(b)' <=> InUse(b)  BY <1>4 DEF InUse
<1>10. /\ Arrives(t, "incrementbuffer") = 0 /\ Arrives(t, "decrementbuffer") = 0
       /\ Arrives(t, "count") = 0 /\ Joins(x) = -1
  BY <1>2, <1>5, <1>7, <1>8, <1>9 DEF Arrives, Joins
<1>11. ReferenceCount'[x] - ReferenceCount[x] = 0  BY <1>0, <1>4 DEF BufferTypes
<1>12. PoolReferenceCount' = [PoolReferenceCount EXCEPT ![PoolOf[x]] = @ + (0 + 0 - 0 - 0)]
  BY <1>0, <1>3, <1>4 DEF PoolTypes
<1>13. CountOfReferencedBuffers' =
         [CountOfReferencedBuffers EXCEPT ![PoolOf[x]] = @ + (-1 - 0)]
  <2>1. CountOfReferencedBuffers[PoolOf[x]] \in Int  BY <1>0, <1>3 DEF PoolTypes
  <2>2. CountOfReferencedBuffers[PoolOf[x]] - 1 = CountOfReferencedBuffers[PoolOf[x]] + (-1 - 0)
    BY <2>1
  <2> QED BY <1>4, <2>2
<1> QED BY <1>0, <1>3, <1>4, <1>5, <1>7, <1>9, <1>10, <1>11, <1>12, <1>13, CountsMove

\* Every step of a thread keeps the counts of the pools exact.
LEMMA CountsStep ==
  ASSUME TypeInv, ReferencesInv, PlacesInv, CountsInv, NEW t \in Threads, Call(t) \/ Step(t)
  PROVE  CountsInv'
<1>0. BufferTypes /\ PoolTypes /\ ThreadTypes /\ LocalsAt(t)
  BY DEF TypeInv, TypeOK, LocalsOK
<1> USE DEF Between
<1> DEFINE kept == /\ UNCHANGED <<ReferenceCount, counts, stack>> /\ OthersStay(t)
                   /\ pc[t] \notin Between /\ pc'[t] \notin Between
<1>1. kept => CountsInv'  BY CountsKept
<1>2. ASSUME NEW p \in Pools, NEW nonblocking \in BOOLEAN, GetEnter(t, p, nonblocking) PROVE kept
  BY <1>0, <1>2 DEF GetEnter, buffer, ThreadTypes, OthersStay
<1>3. ASSUME GetExtract(t) PROVE kept
  <2>1. /\ pc[t] \in {"extract", "woken"}
        /\ ExtractTakes(t) \/ ExtractFails(t) \/ ExtractWaits(t)
        /\ UNCHANGED <<buffer, counts, aux, stack, refs>>
    BY <1>3, ExtractOutcomes
  <2> QED BY <1>0, <2>1
          DEF ExtractTakes, ExtractFails, ExtractWaits, GetFails, buffer, ThreadTypes, OthersStay
<1>4. ASSUME GetAborted(t) PROVE kept
  BY <1>0, <1>4 DEF GetAborted, GetFails, buffer, ThreadTypes, OthersStay
<1>5. ASSUME GetWoken(t) PROVE kept
  BY <1>0, <1>5 DEF GetWoken, buffer, pool, ThreadTypes, OthersStay
<1>6. ASSUME GetMemoryFails(t) PROVE kept
  BY <1>0, <1>6 DEF GetMemoryFails, GetFails, pool, ThreadTypes, OthersStay
<1>7. ASSUME NEW b \in Buffers, NEW u \in Threads, IncrementReferenceCount(t, b, u) PROVE kept
  BY <1>0, <1>7 DEF IncrementReferenceCount, buffer, pool, ThreadTypes, OthersStay
<1>8. ASSUME NEW b \in Buffers, DecrementReferenceCount(t, b) PROVE kept
  BY <1>0, <1>8 DEF DecrementReferenceCount, buffer, pool, ThreadTypes, OthersStay
<1>9. ASSUME NEW h \in Buffers, NEW b \in Buffers, AttachBuffer(t, h, b) PROVE kept
  BY <1>0, <1>9, AttachOutcome DEF AttachEffect, pool, ThreadTypes, OthersStay
<1>10. ASSUME NEW h \in Buffers, NEW i \in Slots, DetachEffect(t, h, i), pc[t] \notin Between
       PROVE  kept
  BY <1>0, <1>10 DEF DetachEffect, pool, ThreadTypes, OthersStay
<1>11. ASSUME ReleaseLock(t) \/ ReleaseUnlock(t) \/ ReleaseMemory(t) PROVE kept
  <2>1. /\ \E l \in {"slots", "deallocate", "insert"} : pc' = [pc EXCEPT ![t] = l]
        /\ pc[t] \in {"release", "slots", "deallocate"}
        /\ UNCHANGED <<ReferenceCount, pool, cur, aux, getting, stack, refs>>
    BY <1>11 DEF ReleaseLock, ReleaseUnlock, ReleaseMemory
  <2> QED BY <1>0, <2>1 DEF pool, ThreadTypes, OthersStay
<1>12. ASSUME NEW p \in Pools, DestroyPool(t, p) PROVE kept
  BY <1>0, <1>12 DEF DestroyPool, buffer, ThreadTypes, OthersStay
<1>13. ASSUME NEW p \in Pools, TidyUpEnd(t, p) PROVE kept
  BY <1>0, <1>13 DEF TidyUpEnd, buffer, ThreadTypes, OthersStay
<1>14. ASSUME NEW h \in Buffers, NEW b \in Buffers, DetachBuffer(t, h, b) PROVE kept
  <2>1. pc[t] \notin Between  BY <1>14 DEF DetachBuffer
  <2> HIDE DEF kept
  <2> QED BY <1>10, <1>14, <2>1, DetachOutcome
<1>15. ASSUME ReleaseAttached(t) PROVE kept
  <2>1. pc[t] = "slots" /\ pc[t] \notin Between  BY <1>15 DEF ReleaseAttached
  <2>2. stack[t] # <<>>  BY <1>0, <2>1 DEF LocalsAt, Releasing
  <2>3. Top(t) \in Buffers  BY <1>0, <2>2, TopIn
  <2> HIDE DEF kept
  <2> QED BY <1>0, <1>10, <1>15, <2>1, <2>2, <2>3, ReleaseOutcome
<1>16. ASSUME NEW p \in Pools, TidyUpDetach(t, p) PROVE kept
  <2>1. pc[t] \notin Between  BY <1>16 DEF TidyUpDetach
  <2> HIDE DEF kept
  <2> QED BY <1>10, <1>16, <2>1, TidyUpOutcome
<1> HIDE DEF kept
<1>17. CASE Call(t)
  BY <1>1, <1>2, <1>7, <1>8, <1>9, <1>12, <1>14, <1>17 DEF Call
<1>18. CASE GetStep(t)
  BY <1>1, <1>3, <1>4, <1>5, <1>6, <1>18, CountsGot DEF GetStep
<1>19. CASE ReferenceStep(t)
  BY <1>19, CountsAhead, CountsFollow DEF ReferenceStep
<1>20. CASE ReleaseStep(t)
  BY <1>1, <1>11, <1>15, <1>20, CountsBack DEF ReleaseStep
<1>21. CASE TidyUpStep(t)
  BY <1>1, <1>13, <1>16, <1>21 DEF TidyUpStep
<1> QED BY <1>17, <1>18, <1>19, <1>20, <1>21 DEF Step

\* A pool reports what its buffers report, but for the threads that have changed one
\* of the counts and not yet the other: exactly as many buffers in use, and as many
\* references to them, as there are.
THEOREM PoolCounts == ASSUME QuietDestroy PROVE Spec => []PoolCountsExact
<1>1. ASSUME Init PROVE CountsInv
  <2>1. ASSUME NEW p \in Pools
        PROVE  /\ References(p) = {} /\ Referenced(p) = {}
               /\ \A place \in Between : At(place, p) = {}
    <3>1. References(p) = {}
      <4>1. \A b \in PoolBuffers(p) : ReferenceCount[b] = 0  BY <1>1 DEF Init, PoolBuffers
      <4>2. \A b \in PoolBuffers(p) : {b} \X (1 .. ReferenceCount[b]) = {}  BY <4>1
      <4> QED BY <4>2 DEF References
    <3>2. Referenced(p) = {}
      BY <1>1 DEF Init, Referenced, Releasers, AsSet, PoolBuffers
    <3>3. \A place \in Between : At(place, p) = {}  BY <1>1 DEF Init, At, Between
    <3> QED BY <3>1, <3>2, <3>3
  <2>2. \A p \in Pools : PoolReferenceCount[p] = 0 /\ CountOfReferencedBuffers[p] = 0
    BY <1>1 DEF Init
  <2> QED BY <2>1, <2>2, FS_EmptySet DEF CountsInv, PoolCountsExact, Between
<1>2. ASSUME CountsInv, UNCHANGED <<ReferenceCount, counts, stack, pc, cur>> PROVE CountsInv'
  <2>1. \A p, place : At(place, p)' = At(place, p)  BY <1>2 DEF At
  <2>2. \A p : References(p)' = References(p) /\ Referenced(p)' = Referenced(p)
    BY <1>2 DEF References, Referenced, Releasers
  <2>3. UNCHANGED <<PoolReferenceCount, CountOfReferencedBuffers>>  BY <1>2 DEF counts
  <2> QED BY <1>2, <2>1, <2>2, <2>3 DEF CountsInv, PoolCountsExact
<1>3. CountsInv /\ Inv /\ [Next]_vars => CountsInv'
  <2>1. ASSUME CountsInv, NEW p \in Pools, Abort(p) PROVE CountsInv'
    BY <1>2, <2>1 DEF Abort, buffer, thread
  <2>2. ASSUME CountsInv, UNCHANGED vars PROVE CountsInv'
    BY <1>2, <2>2 DEF vars, buffer, pool, thread
  <2> QED BY <2>1, <2>2, CountsStep DEF Next, Inv
<1>4. CountsInv => PoolCountsExact  BY DEF CountsInv
<1> QED BY <1>1, <1>3, <1>4, Invariant, PTL DEF Spec
=============================================================================
