----------------------------- MODULE BufferPool -----------------------------
(***************************************************************************)
(* BufferPool_Generic_c and Buffer_Generic_c: pools with a fixed number of *)
(* reference-counted buffers.  Threads take buffers out of a pool, give    *)
(* each other references, attach buffers of one pool to buffers of another *)
(* and drop their references; the thread that drops the last one releases  *)
(* the buffer and, recursively, what is attached to it, holding the locks  *)
(* of all the buffers it is releasing.                                     *)
(*                                                                         *)
(* Every section under a pool's Lock, and every section under a buffer's   *)
(* Lock but the release loop, calls nothing and is one action.  The free   *)
(* ring is the queue that RingGeneric implements.  Owner identifiers, meta *)
(* data and the event of a release are left out: nothing here reads them.  *)
(*                                                                         *)
(* refs is a history variable: the buffers a thread may use.  A caller     *)
(* uses a buffer only while it has a reference (AssertNonZeroReferenceCount*)
(* reports the ones that do not).                                          *)
(***************************************************************************)
EXTENDS Integers, FiniteSets, Sequences

CONSTANTS
  Threads, Pools, Buffers, NULL,
  PoolOf,           \* the pool of every buffer
  MaxAttached,      \* MAX_ATTACHED_BUFFERS
  MayAttach,        \* <<holder, attached>>: what the player attaches to what
  Getters,          \* <<thread, pool>>: who takes buffers out of which pool
  MemoryPools,      \* pools that allocate memory with every GetBuffer
  MemoryUnits,      \* how many buffers of such a pool fit in its memory
  MayFail,          \* of those, the ones whose allocation may fail
  MayAbort,         \* pools on which AbortBlockingGetBuffer may be called
  MayDestroy,       \* pools that may be destroyed ...
  QuietDestroy      \* ... and whether only when nobody is inside a call

Slots == 1 .. MaxAttached

ASSUME PoolsAssumption ==
  /\ PoolOf \in [Buffers -> Pools] /\ MaxAttached \in Nat \ {0}
  /\ MayAttach \subseteq Buffers \X Buffers
  /\ Getters \subseteq Threads \X Pools
  /\ MayFail \subseteq MemoryPools /\ MemoryPools \subseteq Pools
  /\ MemoryUnits \in Nat /\ MayAbort \subseteq Pools /\ MayDestroy \subseteq Pools
  /\ QuietDestroy \in BOOLEAN
  /\ NULL \notin Threads \cup Buffers \cup Pools \cup (Buffers \X Slots)
  /\ Threads \cap (Buffers \X Slots) = {}
  /\ IsFiniteSet(Buffers) /\ IsFiniteSet(Threads)

\* What the player attaches is a tree of types: nothing is attached to what
\* is, directly or not, attached to it.
ASSUME AttachmentAssumption ==
  \A below \in SUBSET Buffers :
    below # {} => \E b \in below : \A c \in below : <<b, c>> \notin MayAttach

VARIABLES
  ReferenceCount, AttachedBuffers, BufferLock, allocated,        \* of a buffer
  lost,             \* buffers that allocations which failed have cost their pools
  FreeBuffer, PoolReferenceCount, CountOfReferencedBuffers,      \* of a pool
  BufferReleaseSignal, BufferReleaseSignalWaitedOn, AbortGetBuffer,
  listed,           \* the manager's ListOfBufferPools
  destroyer,        \* the thread in TidyUp of a pool
  pc, cur,          \* of a thread: where it is and the buffer it is at
  aux,              \* Increment: for whom; Attach: in which slot
  getting,          \* the arguments of GetBuffer
  stack,            \* the buffers it is releasing, the innermost last
  refs

buffer == <<ReferenceCount, AttachedBuffers, BufferLock, allocated, lost>>
counts == <<PoolReferenceCount, CountOfReferencedBuffers>>
events == <<BufferReleaseSignal, BufferReleaseSignalWaitedOn, AbortGetBuffer>>
pool   == <<FreeBuffer, counts, events, listed, destroyer>>
thread == <<pc, cur, aux, getting, stack, refs>>
vars   == <<buffer, pool, thread>>

NoGet == [pool |-> NULL, NonBlocking |-> FALSE]
PoolBuffers(p) == {b \in Buffers : PoolOf[b] = p}
AsSet(s) == {s[k] : k \in DOMAIN s}

\* The orders in which the constructor may have put the buffers in the ring.
Orders(p) ==
  {s \in [1 .. Cardinality(PoolBuffers(p)) -> PoolBuffers(p)] : AsSet(s) = PoolBuffers(p)}

Init ==
  /\ ReferenceCount = [b \in Buffers |-> 0]
  /\ AttachedBuffers = [b \in Buffers |-> [i \in Slots |-> NULL]]
  /\ BufferLock = [b \in Buffers |-> NULL]
  /\ allocated = {} /\ lost = {}
  /\ FreeBuffer \in [Pools -> UNION {Orders(p) : p \in Pools}]
  /\ \A p \in Pools : FreeBuffer[p] \in Orders(p)
  /\ PoolReferenceCount = [p \in Pools |-> 0]
  /\ CountOfReferencedBuffers = [p \in Pools |-> 0]
  /\ BufferReleaseSignal = [p \in Pools |-> FALSE]
  /\ BufferReleaseSignalWaitedOn = [p \in Pools |-> FALSE]
  /\ AbortGetBuffer = [p \in Pools |-> FALSE]
  /\ listed = Pools /\ destroyer = [p \in Pools |-> NULL]
  /\ pc = [t \in Threads |-> "idle"]
  /\ cur = [t \in Threads |-> NULL] /\ aux = [t \in Threads |-> NULL]
  /\ getting = [t \in Threads |-> NoGet]
  /\ stack = [t \in Threads |-> <<>>]
  /\ refs = [t \in Threads |-> {}]

\* Where a thread goes on when a decrement, or the release it led to, is over:
\* the loop over the attachments of the buffer it is releasing, the loop of
\* TidyUp, or its caller.
After(t, s) ==
  IF s # <<>> THEN "slots"
  ELSE IF \E p \in Pools : destroyer[p] = t THEN "tidyup" ELSE "idle"
Return(t, s) ==
  /\ stack' = [stack EXCEPT ![t] = s]
  /\ pc' = [pc EXCEPT ![t] = After(t, s)]
  /\ cur' = [cur EXCEPT ![t] = NULL]

Top(t) == stack[t][Len(stack[t])]

---------------------------------------------------------------------------
(* GetBuffer                                                               *)

GetEnter(t, p, nonblocking) ==
  /\ pc[t] = "idle" /\ <<t, p>> \in Getters /\ p \in listed
  /\ AbortGetBuffer' = [AbortGetBuffer EXCEPT ![p] = FALSE]
  /\ getting' = [getting EXCEPT ![t] = [pool |-> p, NonBlocking |-> nonblocking]]
  /\ pc' = [pc EXCEPT ![t] = "extract"]
  /\ UNCHANGED <<buffer, FreeBuffer, counts, BufferReleaseSignal,
                 BufferReleaseSignalWaitedOn, listed, destroyer, cur, aux, stack, refs>>

GetFails(t) ==
  /\ pc' = [pc EXCEPT ![t] = "idle"]
  /\ getting' = [getting EXCEPT ![t] = NoGet]

\* One pass of the loop, under the pool's Lock; WaitedOn goes back to FALSE
\* when the thread returns from its wait, whoever else is waiting.
GetExtract(t) ==
  LET p == getting[t].pool IN
  /\ pc[t] = "extract" \/ (pc[t] = "woken" /\ ~AbortGetBuffer[p])
  /\ BufferReleaseSignal' = [BufferReleaseSignal EXCEPT ![p] = FALSE]
  /\ LET waiting(w) == BufferReleaseSignalWaitedOn' =
           [BufferReleaseSignalWaitedOn EXCEPT ![p] = w \/ (@ /\ pc[t] = "extract")]
     IN
     \/ /\ FreeBuffer[p] # <<>>
        /\ FreeBuffer' = [FreeBuffer EXCEPT ![p] = Tail(@)]
        /\ cur' = [cur EXCEPT ![t] = Head(FreeBuffer[p])]
        /\ pc' = [pc EXCEPT ![t] = "memory"]
        /\ waiting(FALSE) /\ UNCHANGED getting
     \/ /\ FreeBuffer[p] = <<>> /\ (getting[t].NonBlocking \/ AbortGetBuffer[p])
        /\ GetFails(t)
        /\ waiting(FALSE) /\ UNCHANGED <<FreeBuffer, cur>>
     \/ /\ FreeBuffer[p] = <<>> /\ ~getting[t].NonBlocking /\ ~AbortGetBuffer[p]
        /\ pc' = [pc EXCEPT ![t] = "wait"]
        /\ waiting(TRUE) /\ UNCHANGED <<FreeBuffer, cur, getting>>
  /\ UNCHANGED <<buffer, counts, AbortGetBuffer, listed, destroyer, aux, stack, refs>>

\* Bug: an abort is looked at before the wait only.
GetAbortedGoesOn(t) ==
  /\ pc[t] = "woken" /\ AbortGetBuffer[getting[t].pool]
  /\ pc' = [pc EXCEPT ![t] = "wait"]
  /\ UNCHANGED <<buffer, pool, cur, aux, getting, stack, refs>>

\* Woken up to be told that the call is aborted.
GetAborted(t) ==
  LET p == getting[t].pool IN
  /\ pc[t] = "woken" /\ AbortGetBuffer[p]
  /\ BufferReleaseSignalWaitedOn' = [BufferReleaseSignalWaitedOn EXCEPT ![p] = FALSE]
  /\ GetFails(t)
  /\ UNCHANGED <<buffer, FreeBuffer, counts, BufferReleaseSignal, AbortGetBuffer,
                 listed, destroyer, cur, aux, stack, refs>>

\* The event, or the 50ms of BUFFER_MAXIMUM_EVENT_WAIT, whichever is first.
GetWoken(t) ==
  /\ pc[t] = "wait"
  /\ pc' = [pc EXCEPT ![t] = "woken"]
  /\ UNCHANGED <<buffer, pool, cur, aux, getting, stack, refs>>

\* Nobody else can see the buffer while its memory is allocated and its fields
\* are set.
GetMemory(t) ==
  LET b == cur[t]
      p == getting[t].pool
  IN
  /\ pc[t] = "memory"
  /\ \/ p \notin MemoryPools /\ UNCHANGED allocated
     \/ /\ p \in MemoryPools /\ Cardinality(allocated \cap PoolBuffers(p)) < MemoryUnits
        /\ allocated' = allocated \cup {b}
  /\ ReferenceCount' = [ReferenceCount EXCEPT ![b] = 1]
  /\ AttachedBuffers' = [AttachedBuffers EXCEPT ![b] = [i \in Slots |-> NULL]]
  /\ pc' = [pc EXCEPT ![t] = "count"]
  /\ UNCHANGED <<BufferLock, lost, pool, cur, aux, getting, stack, refs>>

\* The caller gets an error; the buffer does not go back to the ring.
GetMemoryFails(t) ==
  /\ pc[t] = "memory" /\ getting[t].pool \in MayFail
  /\ GetFails(t)
  /\ lost' = lost \cup {cur[t]}
  /\ cur' = [cur EXCEPT ![t] = NULL]
  /\ UNCHANGED <<ReferenceCount, AttachedBuffers, BufferLock, allocated, pool, aux,
                 stack, refs>>

\* Bug: the number of buffers in use is not kept.
GetCountForgets(t) ==
  /\ pc[t] = "count"
  /\ PoolReferenceCount' = [PoolReferenceCount EXCEPT ![getting[t].pool] = @ + 1]
  /\ refs' = [refs EXCEPT ![t] = @ \cup {cur[t]}]
  /\ cur' = [cur EXCEPT ![t] = NULL]
  /\ GetFails(t)
  /\ UNCHANGED <<buffer, FreeBuffer, CountOfReferencedBuffers, events, listed,
                 destroyer, aux, stack>>

GetCount(t) ==
  LET p == getting[t].pool IN
  /\ pc[t] = "count"
  /\ PoolReferenceCount' = [PoolReferenceCount EXCEPT ![p] = @ + 1]
  /\ CountOfReferencedBuffers' = [CountOfReferencedBuffers EXCEPT ![p] = @ + 1]
  /\ refs' = [refs EXCEPT ![t] = @ \cup {cur[t]}]
  /\ cur' = [cur EXCEPT ![t] = NULL]
  /\ GetFails(t)
  /\ UNCHANGED <<buffer, FreeBuffer, events, listed, destroyer, aux, stack>>

\* AbortBlockingGetBuffer: no lock, whoever waits.
Abort(p) ==
  /\ p \in MayAbort /\ p \in listed
  /\ AbortGetBuffer' = [AbortGetBuffer EXCEPT ![p] = TRUE]
  /\ BufferReleaseSignal' = [BufferReleaseSignal EXCEPT ![p] = TRUE]
  /\ UNCHANGED <<buffer, FreeBuffer, counts, BufferReleaseSignalWaitedOn, listed,
                 destroyer, thread>>

---------------------------------------------------------------------------
(* References                                                              *)

Incrementing(t) == pc[t] \in {"incrementpool", "incrementbuffer"}
Decrementing(t) == pc[t] \in {"decrementpool", "decrementbuffer"}

\* A thread that has a reference makes another one for thread u.
IncrementReferenceCount(t, b, u) ==
  /\ pc[t] = "idle" /\ b \in refs[t] /\ b \notin refs[u]
  /\ \A v \in Threads : ~(Incrementing(v) /\ cur[v] = b /\ aux[v] = u)
  /\ pc' = [pc EXCEPT ![t] = "incrementpool"]
  /\ cur' = [cur EXCEPT ![t] = b] /\ aux' = [aux EXCEPT ![t] = u]
  /\ UNCHANGED <<buffer, pool, getting, stack, refs>>

IncrementPool(t) ==
  /\ pc[t] = "incrementpool"
  /\ PoolReferenceCount' = [PoolReferenceCount EXCEPT ![PoolOf[cur[t]]] = @ + 1]
  /\ pc' = [pc EXCEPT ![t] = "incrementbuffer"]
  /\ UNCHANGED <<buffer, FreeBuffer, CountOfReferencedBuffers, events, listed,
                 destroyer, cur, aux, getting, stack, refs>>

IncrementBuffer(t) ==
  /\ pc[t] = "incrementbuffer" /\ BufferLock[cur[t]] = NULL
  /\ ReferenceCount' = [ReferenceCount EXCEPT ![cur[t]] = @ + 1]
  /\ refs' = IF aux[t] \in Threads THEN [refs EXCEPT ![aux[t]] = @ \cup {cur[t]}] ELSE refs
  /\ pc' = [pc EXCEPT ![t] = "idle"]
  /\ cur' = [cur EXCEPT ![t] = NULL] /\ aux' = [aux EXCEPT ![t] = NULL]
  /\ UNCHANGED <<AttachedBuffers, BufferLock, allocated, lost, pool, getting, stack>>

DecrementReferenceCount(t, b) ==
  /\ pc[t] = "idle" /\ b \in refs[t]
  /\ refs' = [refs EXCEPT ![t] = @ \ {b}]
  /\ pc' = [pc EXCEPT ![t] = "decrementpool"]
  /\ cur' = [cur EXCEPT ![t] = b]
  /\ UNCHANGED <<buffer, pool, aux, getting, stack>>

DecrementPool(t) ==
  /\ pc[t] = "decrementpool"
  /\ PoolReferenceCount' = [PoolReferenceCount EXCEPT ![PoolOf[cur[t]]] = @ - 1]
  /\ pc' = [pc EXCEPT ![t] = "decrementbuffer"]
  /\ UNCHANGED <<buffer, FreeBuffer, CountOfReferencedBuffers, events, listed,
                 destroyer, cur, aux, getting, stack, refs>>

\* Bug: the count is read again after the unlock ("only one will do the actual
\* release" is then wrong).
DecrementBufferReread(t) ==
  /\ \/ /\ pc[t] = "decrementbuffer" /\ BufferLock[cur[t]] = NULL
        /\ ReferenceCount' = [ReferenceCount EXCEPT ![cur[t]] = @ - 1]
        /\ pc' = [pc EXCEPT ![t] = "reread"]
        /\ UNCHANGED <<stack, cur>>
     \/ /\ pc[t] = "reread" /\ UNCHANGED ReferenceCount
        /\ IF ReferenceCount[cur[t]] = 0
           THEN /\ stack' = [stack EXCEPT ![t] = Append(@, cur[t])]
                /\ pc' = [pc EXCEPT ![t] = "release"]
                /\ cur' = [cur EXCEPT ![t] = NULL]
           ELSE Return(t, stack[t])
  /\ UNCHANGED <<AttachedBuffers, BufferLock, allocated, lost, pool, aux, getting, refs>>

\* Under the buffer's Lock; the thread that makes the count zero releases it.
DecrementBuffer(t) ==
  LET b == cur[t] IN
  /\ pc[t] = "decrementbuffer" /\ BufferLock[b] = NULL
  /\ ReferenceCount' = [ReferenceCount EXCEPT ![b] = @ - 1]
  /\ \/ /\ ReferenceCount[b] = 1
        /\ stack' = [stack EXCEPT ![t] = Append(@, b)]
        /\ pc' = [pc EXCEPT ![t] = "release"]
        /\ cur' = [cur EXCEPT ![t] = NULL]
     \/ ReferenceCount[b] # 1 /\ Return(t, stack[t])
  /\ UNCHANGED <<AttachedBuffers, BufferLock, allocated, lost, pool, aux, getting, refs>>

---------------------------------------------------------------------------
(* Attachments                                                             *)

EmptySlots(h)   == {i \in Slots : AttachedBuffers[h][i] = NULL}
First(is)       == CHOOSE i \in is : \A j \in is : i <= j

\* Its callers have both buffers, and attach what is not attached there yet.
MayAttachNow(t, h, b) ==
  /\ {h, b} \subseteq refs[t] /\ <<h, b>> \in MayAttach
  /\ \A i \in Slots : AttachedBuffers[h][i] # b

\* Bug: the attachment is not counted.
AttachUncounted(t, h, b) ==
  /\ pc[t] = "idle" /\ MayAttachNow(t, h, b)
  /\ BufferLock[h] = NULL /\ EmptySlots(h) # {}
  /\ AttachedBuffers' = [AttachedBuffers EXCEPT ![h][First(EmptySlots(h))] = b]
  /\ UNCHANGED <<ReferenceCount, BufferLock, allocated, lost, pool, thread>>

\* The slot is filled under the Lock of the holder, the reference counted after
\* it; without an empty slot nothing happens (BufferTooManyAttachments).
AttachBuffer(t, h, b) ==
  /\ pc[t] = "idle" /\ MayAttachNow(t, h, b)
  /\ BufferLock[h] = NULL /\ EmptySlots(h) # {}
  /\ LET i == First(EmptySlots(h)) IN
       /\ AttachedBuffers' = [AttachedBuffers EXCEPT ![h][i] = b]
       /\ aux' = [aux EXCEPT ![t] = <<h, i>>]
  /\ pc' = [pc EXCEPT ![t] = "incrementpool"]
  /\ cur' = [cur EXCEPT ![t] = b]
  /\ UNCHANGED <<ReferenceCount, BufferLock, allocated, lost, pool, getting, stack, refs>>

\* The attachment is complete: AttachBuffer has returned.
Attached(h, i) ==
  /\ AttachedBuffers[h][i] # NULL
  /\ \A t \in Threads : ~(Incrementing(t) /\ aux[t] = <<h, i>>)

\* Bug: the slot still names the buffer.
DetachKeepsSlot(t, h, i) ==
  /\ BufferLock[h] = NULL
  /\ pc' = [pc EXCEPT ![t] = "decrementpool"]
  /\ cur' = [cur EXCEPT ![t] = AttachedBuffers[h][i]]
  /\ UNCHANGED <<buffer, pool, aux, getting, stack, refs>>

Detach(t, h, i) ==
  /\ BufferLock[h] = NULL
  /\ AttachedBuffers' = [AttachedBuffers EXCEPT ![h][i] = NULL]
  /\ pc' = [pc EXCEPT ![t] = "decrementpool"]
  /\ cur' = [cur EXCEPT ![t] = AttachedBuffers[h][i]]
  /\ UNCHANGED <<ReferenceCount, BufferLock, allocated, lost, pool, aux, getting, stack, refs>>

\* The first slot that names b; its callers detach what they know attached.
DetachBuffer(t, h, b) ==
  LET is == {i \in Slots : AttachedBuffers[h][i] = b} IN
  /\ pc[t] = "idle" /\ h \in refs[t] /\ is # {}
  /\ Attached(h, First(is)) /\ Detach(t, h, First(is))

---------------------------------------------------------------------------
(* ReleaseBuffer                                                           *)

ReleaseLock(t) ==
  /\ pc[t] = "release" /\ BufferLock[Top(t)] = NULL
  /\ BufferLock' = [BufferLock EXCEPT ![Top(t)] = t]
  /\ pc' = [pc EXCEPT ![t] = "slots"]
  /\ UNCHANGED <<ReferenceCount, AttachedBuffers, allocated, lost, pool, cur, aux,
                 getting, stack, refs>>

\* A buffer that is attached: out of its slot, then DecrementReferenceCount.
ReleaseAttached(t) ==
  LET b == Top(t)
      i == First(Slots \ EmptySlots(b))
  IN
  /\ pc[t] = "slots" /\ EmptySlots(b) # Slots
  /\ AttachedBuffers' = [AttachedBuffers EXCEPT ![b][i] = NULL]
  /\ cur' = [cur EXCEPT ![t] = AttachedBuffers[b][i]]
  /\ pc' = [pc EXCEPT ![t] = "decrementpool"]
  /\ UNCHANGED <<ReferenceCount, BufferLock, allocated, lost, pool, aux, getting, stack, refs>>

\* Bug: the lock is not given back.
ReleaseKeepsLock(t) ==
  /\ pc[t] = "slots" /\ EmptySlots(Top(t)) = Slots
  /\ pc' = [pc EXCEPT ![t] = "deallocate"]
  /\ UNCHANGED <<buffer, pool, cur, aux, getting, stack, refs>>

ReleaseUnlock(t) ==
  /\ pc[t] = "slots" /\ EmptySlots(Top(t)) = Slots
  /\ BufferLock' = [BufferLock EXCEPT ![Top(t)] = NULL]
  /\ pc' = [pc EXCEPT ![t] = "deallocate"]
  /\ UNCHANGED <<ReferenceCount, AttachedBuffers, allocated, lost, pool, cur, aux,
                 getting, stack, refs>>

\* Bug: the memory of the buffer is not given back.
ReleaseLeaksMemory(t) ==
  /\ pc[t] = "deallocate"
  /\ pc' = [pc EXCEPT ![t] = "insert"]
  /\ UNCHANGED <<buffer, pool, cur, aux, getting, stack, refs>>

ReleaseMemory(t) ==
  /\ pc[t] = "deallocate"
  /\ allocated' = allocated \ {Top(t)}
  /\ pc' = [pc EXCEPT ![t] = "insert"]
  /\ UNCHANGED <<ReferenceCount, AttachedBuffers, BufferLock, lost, pool, cur, aux,
                 getting, stack, refs>>

ReleaseInto(t, b, signal) ==
  LET p == PoolOf[b] IN
  /\ pc[t] = "insert"
  /\ FreeBuffer' = [FreeBuffer EXCEPT ![p] = Append(@, b)]
  /\ BufferReleaseSignal' = [BufferReleaseSignal EXCEPT ![p] = signal \/ @]
  /\ CountOfReferencedBuffers' = [CountOfReferencedBuffers EXCEPT ![p] = @ - 1]
  /\ Return(t, SubSeq(stack[t], 1, Len(stack[t]) - 1))
  /\ UNCHANGED <<buffer, PoolReferenceCount, BufferReleaseSignalWaitedOn,
                 AbortGetBuffer, listed, destroyer, aux, getting, refs>>

\* Bug: nobody is told of the buffer.
ReleaseInsertSilent(t) == ReleaseInto(t, Top(t), FALSE)

ReleaseInsert(t) == ReleaseInto(t, Top(t), TRUE)

---------------------------------------------------------------------------
(* DestroyPool and TidyUp                                                  *)

InGetBuffer(t, p) == getting[t].pool = p

\* The player destroys a pool after the processes of its stream have stopped
\* and their rings are stripped; buffers may still be attached to others.
Quiet == \A t \in Threads : pc[t] = "idle"

\* TidyUp aborts a GetBuffer only if it is in its wait at this moment.
DestroyPool(t, p) ==
  LET waited == BufferReleaseSignalWaitedOn[p] IN
  /\ pc[t] = "idle" /\ p \in MayDestroy /\ p \in listed
  /\ \A u \in Threads : refs[u] \cap PoolBuffers(p) = {}
  /\ QuietDestroy => Quiet
  /\ listed' = listed \ {p}
  /\ destroyer' = [destroyer EXCEPT ![p] = t]
  /\ AbortGetBuffer' = [AbortGetBuffer EXCEPT ![p] = @ \/ waited]
  /\ BufferReleaseSignal' = [BufferReleaseSignal EXCEPT ![p] = @ \/ waited]
  /\ pc' = [pc EXCEPT ![t] = "tidyup"]
  /\ UNCHANGED <<buffer, FreeBuffer, counts, BufferReleaseSignalWaitedOn, cur, aux,
                 getting, stack, refs>>

\* FreeUpABuffer looks for the holders in the pools that are still listed.
Holders(p) ==
  {hi \in Buffers \X Slots :
     PoolOf[hi[1]] \in listed /\ AttachedBuffers[hi[1]][hi[2]] \in PoolBuffers(p)}

TidyUpDetach(t, p) ==
  /\ pc[t] = "tidyup" /\ destroyer[p] = t
  /\ \E hi \in Holders(p) : Detach(t, hi[1], hi[2])

\* Bug: TidyUp does not detach the buffers.
TidyUpAnyway(t, p) ==
  /\ pc[t] = "tidyup" /\ destroyer[p] = t
  /\ FreeBuffer' = [FreeBuffer EXCEPT ![p] = <<>>]
  /\ destroyer' = [destroyer EXCEPT ![p] = NULL]
  /\ pc' = [pc EXCEPT ![t] = "idle"]
  /\ UNCHANGED <<buffer, counts, events, listed, cur, aux, getting, stack, refs>>

\* The buffers and the ring are deleted.
TidyUpEnd(t, p) ==
  /\ pc[t] = "tidyup" /\ destroyer[p] = t /\ Holders(p) = {}
  /\ FreeBuffer' = [FreeBuffer EXCEPT ![p] = <<>>]
  /\ destroyer' = [destroyer EXCEPT ![p] = NULL]
  /\ pc' = [pc EXCEPT ![t] = "idle"]
  /\ UNCHANGED <<buffer, counts, events, listed, cur, aux, getting, stack, refs>>

Destroyed(p) == p \notin listed /\ destroyer[p] = NULL

---------------------------------------------------------------------------
GetStep(t) ==
  \/ GetExtract(t) \/ GetAborted(t) \/ GetWoken(t) \/ GetMemory(t) \/ GetMemoryFails(t)
  \/ GetCount(t)
ReferenceStep(t) ==
  \/ IncrementPool(t) \/ IncrementBuffer(t) \/ DecrementPool(t) \/ DecrementBuffer(t)
ReleaseStep(t) ==
  \/ ReleaseLock(t) \/ ReleaseAttached(t) \/ ReleaseUnlock(t) \/ ReleaseMemory(t)
  \/ ReleaseInsert(t)
TidyUpStep(t) == \E p \in Pools : TidyUpDetach(t, p) \/ TidyUpEnd(t, p)

Call(t) ==
  /\ QuietDestroy => \A p \in Pools : destroyer[p] = NULL
  /\ \/ \E p \in Pools, nonblocking \in BOOLEAN : GetEnter(t, p, nonblocking)
     \/ \E b \in Buffers :
          \/ \E u \in Threads : IncrementReferenceCount(t, b, u)
          \/ DecrementReferenceCount(t, b)
          \/ \E h \in Buffers : AttachBuffer(t, h, b) \/ DetachBuffer(t, h, b)
     \/ \E p \in Pools : DestroyPool(t, p)

Step(t) == GetStep(t) \/ ReferenceStep(t) \/ ReleaseStep(t) \/ TidyUpStep(t)

Next == (\E t \in Threads : Call(t) \/ Step(t)) \/ \E p \in Pools : Abort(p)

Spec == Init /\ [][Next]_vars

\* A call that has started is carried on.  Nobody is made to call.
FairSpec == Spec /\ \A t \in Threads : WF_vars(Step(t))

---------------------------------------------------------------------------
(* Properties.                                                             *)

BufferTypes ==
  /\ ReferenceCount \in [Buffers -> Nat]
  /\ AttachedBuffers \in [Buffers -> [Slots -> Buffers \cup {NULL}]]
  /\ BufferLock \in [Buffers -> Threads \cup {NULL}]
  /\ allocated \subseteq Buffers /\ lost \subseteq Buffers
PoolTypes ==
  /\ FreeBuffer \in [Pools -> Seq(Buffers)]
  /\ PoolReferenceCount \in [Pools -> Int] /\ CountOfReferencedBuffers \in [Pools -> Int]
  /\ BufferReleaseSignal \in [Pools -> BOOLEAN]
  /\ BufferReleaseSignalWaitedOn \in [Pools -> BOOLEAN]
  /\ AbortGetBuffer \in [Pools -> BOOLEAN]
  /\ listed \subseteq Pools /\ destroyer \in [Pools -> Threads \cup {NULL}]
ThreadTypes ==
  /\ pc \in [Threads -> {"idle", "extract", "wait", "woken", "memory", "count",
                         "incrementpool", "incrementbuffer", "decrementpool",
                         "decrementbuffer", "release", "slots", "deallocate",
                         "insert", "tidyup"}]
  /\ cur \in [Threads -> Buffers \cup {NULL}]
  /\ aux \in [Threads -> Threads \cup (Buffers \X Slots) \cup {NULL}]
  /\ getting \in [Threads -> [pool : Pools \cup {NULL}, NonBlocking : BOOLEAN]]
  /\ stack \in [Threads -> Seq(Buffers)]
  /\ refs \in [Threads -> SUBSET Buffers]
TypeOK == BufferTypes /\ PoolTypes /\ ThreadTypes

\* Everything the count of a buffer stands for: the references of threads, the
\* attachments, the decrements announced and not yet done, the reference GetBuffer
\* is about to return.
HeldBy(b)       == {t \in Threads : b \in refs[t]}
AttachedTo(b)   == {hi \in Buffers \X Slots :
                      AttachedBuffers[hi[1]][hi[2]] = b /\ Attached(hi[1], hi[2])}
BeingDropped(b) == {t \in Threads : Decrementing(t) /\ cur[t] = b}
BeingMade(b)    == {t \in Threads : pc[t] = "count" /\ cur[t] = b}

\* ReferenceCount is exact in every interleaving of increments, decrements,
\* attachments and releases: no reference is counted twice, none is forgotten.
ReferencesCounted ==
  \A b \in Buffers :
    ReferenceCount[b] = Cardinality(HeldBy(b)) + Cardinality(AttachedTo(b))
                        + Cardinality(BeingDropped(b)) + Cardinality(BeingMade(b))

Releasers(b) == {t \in Threads : b \in AsSet(stack[t])}
Obtainers(b) == {t \in Threads : pc[t] = "memory" /\ cur[t] = b}
InFree(b)    == {k \in DOMAIN FreeBuffer[PoolOf[b]] : FreeBuffer[PoolOf[b]][k] = b}

\* "Only one will do the actual release": a buffer is in the free ring once, or
\* being taken out of it by one thread, or referenced, or being released by one
\* thread, or lost to an allocation that failed, and exactly one of these.
InOnePlace ==
  \A b \in Buffers : ~Destroyed(PoolOf[b]) =>
    Cardinality(InFree(b)) + Cardinality(Obtainers(b)) + Cardinality(Releasers(b))
      + (IF ReferenceCount[b] > 0 THEN 1 ELSE 0) + (IF b \in lost THEN 1 ELSE 0) = 1

\* Nothing is left attached to a buffer in the free ring, and the memory of a
\* buffer is given back exactly when it is released.
FreeMeansEmpty ==
  \A b \in Buffers :
    /\ InFree(b) # {} => EmptySlots(b) = Slots /\ BufferLock[b] = NULL
    /\ b \in allocated <=>
         /\ PoolOf[b] \in MemoryPools
         /\ \/ ReferenceCount[b] > 0
            \/ \E t \in Releasers(b) : ~(pc[t] = "insert" /\ Top(t) = b)

\* The references to the buffers of a pool, numbered, and the buffers that are
\* referenced or on their way back.
References(p) == UNION {{b} \X (1 .. ReferenceCount[b]) : b \in PoolBuffers(p)}
Referenced(p) == {b \in PoolBuffers(p) : ReferenceCount[b] > 0 \/ Releasers(b) # {}}

At(place, p) == {t \in Threads : pc[t] = place /\ PoolOf[cur[t]] = p}

\* What the pool reports is the sum of what its buffers say, but for the threads
\* between the two locks.
PoolCountsExact ==
  \A p \in Pools :
    /\ PoolReferenceCount[p] =
         Cardinality(References(p)) + Cardinality(At("incrementbuffer", p))
         - Cardinality(At("decrementbuffer", p)) - Cardinality(At("count", p))
    /\ CountOfReferencedBuffers[p] =
         Cardinality(Referenced(p)) - Cardinality(At("count", p))

\* A thread asleep in GetBuffer beside a free buffer has been signalled: it does
\* not owe its buffer to the 50ms timeout.  For one waiter per pool.
NoMissedRelease ==
  \A t \in Threads :
    pc[t] = "wait" /\ FreeBuffer[getting[t].pool] # <<>> =>
      BufferReleaseSignal[getting[t].pool]

\* A destroyed pool has nobody inside and nothing of it is attached anywhere.
DestroyedIsUnused ==
  \A p \in Pools : Destroyed(p) => ~(\E t \in Threads : InGetBuffer(t, p)) /\ Holders(p) = {}

InLoop(t, p) == InGetBuffer(t, p) /\ pc[t] \in {"extract", "wait", "woken"}

\* buffer_pool_generic.cpp:642, "Abort any ongoing get buffer command": a thread
\* in the loop of GetBuffer when its pool is aborted leaves the loop.
AbortEndsGet ==
  \A t \in Threads, p \in MayAbort :
    <<t, p>> \in Getters => (AbortGetBuffer[p] /\ InLoop(t, p) ~> ~InLoop(t, p))

Referring(t) ==
  stack[t] # <<>> \/ pc[t] \in {"incrementpool", "incrementbuffer",
                                "decrementpool", "decrementbuffer"}

\* A change of a reference count ends, with the release that it leads to: a release
\* takes the locks of the buffers one inside the other, and nobody ends up waiting
\* for itself, for another release, or for a lock that a release has kept.
ReleasesEnd == \A t \in Threads : Referring(t) ~> ~Referring(t)
=============================================================================
