-------------------------- MODULE AllocatorSimple --------------------------
(***************************************************************************)
(* AllocatorSimple_c, the allocator of a buffer pool's memory: a table of  *)
(* free blocks under one mutex, first-fit and largest-fit allocation, an   *)
(* event that wakes a blocked allocation when something is freed.          *)
(*                                                                         *)
(* A critical section with no call out of it is one action.  Free is the   *)
(* exception: it reads HighestUsedBlockIndex before it takes the mutex,    *)
(* and its scan of the table is one action per block, so that what it does *)
(* to the table is seen block by block.                                    *)
(*                                                                         *)
(* held is a history variable: the regions the clients of the allocator    *)
(* own.  A client gives back a region it owns, or (ShrinkMemoryBlock) the  *)
(* tail of one.                                                            *)
(***************************************************************************)
EXTENDS Integers, FiniteSets

CONSTANTS
  Allocators,       \* threads that allocate and extend
  Freers,           \* threads that give memory back
  NoThread,         \* nobody holds the mutex
  BufferSize, SegmentSize, PhysicalAddress,
  BankSize,         \* 64MB: no block crosses a multiple of it
  MaxBlocks,        \* ALLOCATOR_SIMPLE_MAX_BLOCKS
  Requests          \* the sizes clients ask for

Threads == Allocators \cup Freers
Slots   == 0 .. MaxBlocks - 1

ASSUME SizesAssumption ==
  /\ BufferSize \in Nat \ {0} /\ SegmentSize \in Nat \ {0}
  /\ PhysicalAddress \in Nat /\ BankSize \in Nat \ {0} /\ MaxBlocks \in Nat \ {0}
  /\ Requests \subseteq Nat \ {0}
  /\ NoThread \notin Threads

\* The only caller in the tree creates it with a SegmentSize of 1
\* (buffer_pool_generic.cpp:246); the code never checks the alignment.
ASSUME AlignmentAssumption ==
  /\ BufferSize % SegmentSize = 0 /\ BankSize % SegmentSize = 0
  /\ PhysicalAddress % SegmentSize = 0

VARIABLES
  Blocks, HighestUsedBlockIndex,   \* the table; InUse marks a FREE block
  Lock, EntryFreed, InAllocate, BeingDeleted,
  destructor,       \* how far the destructor got
  pc, want, arg,    \* per thread: where it is, its request, the region it frees
  scan,             \* per thread: the locals of the scan in Free
  held,
  tooMany           \* history: the regions Free had no slot for

table    == <<Blocks, HighestUsedBlockIndex>>
deletion == <<BeingDeleted, destructor>>
vars     == <<table, Lock, EntryFreed, InAllocate, deletion, pc, want, arg, scan, held,
              tooMany>>

---------------------------------------------------------------------------
Region(b, s) == [Base |-> b, Size |-> s]
End(r)       == r.Base + r.Size

On64MBBoundary(o) == (o + PhysicalAddress) % BankSize = 0
RoundUp(n)        == ((n + SegmentSize - 1) \div SegmentSize) * SegmentSize
Least(a, b)       == IF a < b THEN a ELSE b
Greatest(a, b)    == IF a > b THEN a ELSE b

\* What a slot out of use still holds is never read; it is modelled as zeros.
NotInUse == [InUse |-> FALSE, Base |-> 0, Size |-> 0]

FreeSlots       == {i \in Slots : i <= HighestUsedBlockIndex /\ Blocks[i].InUse}
FittingSlots(n) == {i \in FreeSlots : Blocks[i].Size >= n}

\* The first block of the largest size; nothing when no block is free.
LargestFreeBlock ==
  {i \in FreeSlots : \A j \in FreeSlots :
     \/ Blocks[j].Size < Blocks[i].Size
     \/ Blocks[j].Size = Blocks[i].Size /\ i <= j}

\* Free(): the whole buffer as free blocks that end at the bank boundaries.
BankStart(i) == IF i = 0 THEN 0 ELSE i * BankSize - (PhysicalAddress % BankSize)
FreeAll ==
  [i \in Slots |->
     LET start == BankStart(i) IN
     IF start < BufferSize
     THEN [InUse |-> TRUE, Base |-> start,
           Size |-> Least(BufferSize, BankStart(i + 1)) - start]
     ELSE NotInUse]

FreeAllHighest ==
  {i \in Slots : BankStart(i) < BufferSize /\ (i + 1 \in Slots => BankStart(i + 1) >= BufferSize)}

\* The locals of a call go back to these when it returns.
NoRequest == [Size |-> 0, Largest |-> FALSE, NonBlocking |-> FALSE]
NoScan    == [Lowest |-> 0, NextHighest |-> 0, i |-> 0]

Init ==
  /\ Blocks = FreeAll /\ HighestUsedBlockIndex \in FreeAllHighest
  /\ Lock = NoThread /\ EntryFreed = TRUE
  /\ InAllocate = FALSE /\ BeingDeleted = FALSE /\ destructor = "live"
  /\ pc = [t \in Threads |-> "idle"]
  /\ want = [t \in Threads |-> NoRequest]
  /\ arg = [t \in Threads |-> Region(0, 0)]
  /\ scan = [t \in Threads |-> NoScan]
  /\ held = {} /\ tooMany = {}

---------------------------------------------------------------------------
(* Allocate and AllocateLargest.  A largest-fit client has already rounded *)
(* its lower bound up (AllocateMemoryBlock).                               *)

AllocateEnter(t, n, largest, nonblocking) ==
  /\ pc[t] = "idle" /\ destructor = "live"
  /\ InAllocate' = TRUE
  /\ want' = [want EXCEPT ![t] = [Size |-> RoundUp(n), Largest |-> largest,
                                  NonBlocking |-> nonblocking]]
  /\ pc' = [pc EXCEPT ![t] = "allocate"]
  /\ UNCHANGED <<table, Lock, EntryFreed, deletion, arg, scan, held, tooMany>>

AllocateReturn(t) ==
  /\ InAllocate' = FALSE
  /\ want' = [want EXCEPT ![t] = NoRequest]
  /\ pc' = [pc EXCEPT ![t] = "idle"]

\* The mutex is left locked: BeingDeleted leaves the loop before the unlock.
AllocateAborted(t) ==
  /\ pc[t] = "allocate" /\ Lock = NoThread /\ BeingDeleted
  /\ Lock' = t /\ EntryFreed' = FALSE
  /\ AllocateReturn(t)
  /\ UNCHANGED <<table, deletion, arg, scan, held, tooMany>>

\* Bug: the block keeps its base after its front has been given away.
AllocateTakeKeepsBase(t, i, n) ==
  /\ Blocks' = [Blocks EXCEPT ![i] =
       IF Blocks[i].Size = n THEN NotInUse ELSE [@ EXCEPT !.Size = @ - n]]
  /\ held' = held \cup {Region(Blocks[i].Base, n)} /\ UNCHANGED tooMany
  /\ EntryFreed' = FALSE
  /\ AllocateReturn(t)
  /\ UNCHANGED <<HighestUsedBlockIndex, Lock, deletion, arg, scan>>

AllocateTake(t, i, n) ==
  /\ Blocks' = [Blocks EXCEPT ![i] =
       IF Blocks[i].Size = n THEN NotInUse
       ELSE [InUse |-> TRUE, Base |-> Blocks[i].Base + n, Size |-> Blocks[i].Size - n]]
  /\ held' = held \cup {Region(Blocks[i].Base, n)} /\ UNCHANGED tooMany
  /\ EntryFreed' = FALSE
  /\ AllocateReturn(t)
  /\ UNCHANGED <<HighestUsedBlockIndex, Lock, deletion, arg, scan>>

AllocateFirstFit(t) ==
  /\ pc[t] = "allocate" /\ Lock = NoThread /\ ~BeingDeleted /\ ~want[t].Largest
  /\ \E i \in FittingSlots(want[t].Size) :
       /\ \A j \in FittingSlots(want[t].Size) : i <= j
       /\ AllocateTake(t, i, want[t].Size)

AllocateLargest(t) ==
  /\ pc[t] = "allocate" /\ Lock = NoThread /\ ~BeingDeleted /\ want[t].Largest
  /\ \E i \in LargestFreeBlock :
       /\ Blocks[i].Size >= want[t].Size
       /\ AllocateTake(t, i, Blocks[i].Size)

AllocateNoFit(t) ==
  /\ pc[t] = "allocate" /\ Lock = NoThread /\ ~BeingDeleted
  /\ FittingSlots(want[t].Size) = {}
  /\ EntryFreed' = FALSE
  /\ \/ want[t].NonBlocking /\ AllocateReturn(t)
     \/ /\ ~want[t].NonBlocking
        /\ pc' = [pc EXCEPT ![t] = "wait"]
        /\ UNCHANGED <<InAllocate, want>>
  /\ UNCHANGED <<table, Lock, deletion, arg, scan, held, tooMany>>

\* The wait has no timeout; the loop condition reads BeingDeleted unlocked.
AllocateWake(t) ==
  /\ pc[t] = "wait" /\ EntryFreed
  /\ \/ BeingDeleted /\ AllocateReturn(t)
     \/ /\ ~BeingDeleted
        /\ pc' = [pc EXCEPT ![t] = "allocate"]
        /\ UNCHANGED <<InAllocate, want>>
  /\ UNCHANGED <<table, Lock, EntryFreed, deletion, arg, scan, held, tooMany>>

---------------------------------------------------------------------------
(* ExtendToLargest: the two checks before the mutex compare an offset with *)
(* the physical address, as the code does; they only choose the status.    *)

Absorb(t, r, i) ==
  /\ Blocks' = [Blocks EXCEPT ![i] = NotInUse]
  /\ held' = (held \ {r}) \cup
             {Region(Least(r.Base, Blocks[i].Base), r.Size + Blocks[i].Size)}
  /\ UNCHANGED <<HighestUsedBlockIndex, Lock, EntryFreed, InAllocate, deletion,
                 pc, want, arg, scan, tooMany>>

ExtendUpwards(t, r) ==
  /\ pc[t] = "idle" /\ destructor = "live" /\ Lock = NoThread
  /\ ~On64MBBoundary(End(r)) /\ End(r) < PhysicalAddress + BufferSize
  /\ \E i \in FreeSlots : Blocks[i].Base = End(r) /\ Absorb(t, r, i)

ExtendDownwards(t, r) ==
  /\ pc[t] = "idle" /\ destructor = "live" /\ Lock = NoThread
  /\ ~On64MBBoundary(r.Base) /\ r.Base # PhysicalAddress
  /\ \E i \in FreeSlots : End(Blocks[i]) = r.Base /\ Absorb(t, r, i)

---------------------------------------------------------------------------
(* Free(Size, Block).                                                      *)

\* HighestUsedBlockIndex is read here, before OS_LockMutex.
FreeEnter(t, r, kept) ==
  /\ pc[t] = "idle" /\ destructor = "live"
  /\ kept < r.Size /\ RoundUp(kept) = kept
  /\ held' = (held \ {r}) \cup (IF kept = 0 THEN {} ELSE {Region(r.Base, kept)})
  /\ UNCHANGED tooMany
  /\ arg' = [arg EXCEPT ![t] = Region(r.Base + kept, RoundUp(r.Size - kept))]
  /\ scan' = [scan EXCEPT ![t] = [Lowest |-> HighestUsedBlockIndex + 1,
                                  NextHighest |-> 0, i |-> 0]]
  /\ pc' = [pc EXCEPT ![t] = "freelock"]
  /\ UNCHANGED <<table, Lock, EntryFreed, InAllocate, deletion, want>>

FreeLock(t) ==
  /\ pc[t] = "freelock" /\ Lock = NoThread
  /\ Lock' = t
  /\ pc' = [pc EXCEPT ![t] = "freescan"]
  /\ UNCHANGED <<table, EntryFreed, InAllocate, deletion, want, arg, scan, held, tooMany>>

\* Bugs: a join across a bank boundary; only one side joined.
JoinsAboveAnywhere(r, b) == b.InUse /\ End(r) = b.Base
JoinsNothingBelow(r, b)  == FALSE

JoinsAbove(r, b) == b.InUse /\ End(r) = b.Base /\ ~On64MBBoundary(b.Base)
JoinsBelow(r, b) == b.InUse /\ End(b) = r.Base /\ ~On64MBBoundary(r.Base)

\* One block of the scan: it joins the region being freed, or it stays.
FreeScan(t) ==
  LET i == scan[t].i
      b == Blocks[i]
      joins == JoinsAbove(arg[t], b) \/ JoinsBelow(arg[t], b)
  IN
  /\ pc[t] = "freescan" /\ i <= HighestUsedBlockIndex
  /\ arg' = [arg EXCEPT ![t] =
       IF joins THEN Region(Least(arg[t].Base, b.Base), arg[t].Size + b.Size) ELSE @]
  /\ Blocks' = IF joins THEN [Blocks EXCEPT ![i] = NotInUse] ELSE Blocks
  /\ scan' = [scan EXCEPT ![t] =
       [Lowest      |-> IF b.InUse /\ ~joins THEN @.Lowest ELSE Least(@.Lowest, i),
        NextHighest |-> IF b.InUse /\ ~joins THEN i ELSE @.NextHighest,
        i           |-> i + 1]]
  /\ UNCHANGED <<HighestUsedBlockIndex, Lock, EntryFreed, InAllocate, deletion,
                 pc, want, held, tooMany>>

\* Bug: Free forgets to set EntryFreed.
FreeReturnUnsignalled(t) ==
  /\ UNCHANGED EntryFreed /\ Lock' = NoThread
  /\ pc' = [pc EXCEPT ![t] = "idle"]
  /\ arg' = [arg EXCEPT ![t] = Region(0, 0)]
  /\ scan' = [scan EXCEPT ![t] = NoScan]
  /\ UNCHANGED <<InAllocate, deletion, want, held>>

FreeReturn(t) ==
  /\ EntryFreed' = TRUE /\ Lock' = NoThread
  /\ pc' = [pc EXCEPT ![t] = "idle"]
  /\ arg' = [arg EXCEPT ![t] = Region(0, 0)]
  /\ scan' = [scan EXCEPT ![t] = NoScan]
  /\ UNCHANGED <<InAllocate, deletion, want, held>>

\* The lowest slot out of use takes the region.
FreeStoreAt(t, highest) ==
  LET s == scan[t] IN
  /\ pc[t] = "freescan" /\ s.i > HighestUsedBlockIndex /\ s.Lowest # MaxBlocks
  /\ Blocks' = [Blocks EXCEPT ![s.Lowest] =
       [InUse |-> TRUE, Base |-> arg[t].Base, Size |-> arg[t].Size]]
  /\ HighestUsedBlockIndex' = highest /\ UNCHANGED tooMany
  /\ FreeReturn(t)

\* Bugs: the highest index forgets the blocks above the slot filled; it is one
\* too high.
FreeStoreForgetsHighest(t) == FreeStoreAt(t, scan[t].Lowest)
FreeStoreTooHigh(t) ==
  FreeStoreAt(t, Greatest(scan[t].Lowest, scan[t].NextHighest) + 1)

FreeStore(t) == FreeStoreAt(t, Greatest(scan[t].Lowest, scan[t].NextHighest))

\* "Unable to create a free block - too many": the region is forgotten.
FreeTooMany(t) ==
  /\ pc[t] = "freescan" /\ scan[t].i > HighestUsedBlockIndex
  /\ scan[t].Lowest = MaxBlocks
  /\ UNCHANGED table /\ tooMany' = tooMany \cup {arg[t]}
  /\ FreeReturn(t)

---------------------------------------------------------------------------
(* The destructor.  Its caller has stopped giving memory back.             *)

DestroyBegin ==
  /\ destructor = "live"
  /\ \A t \in Threads : pc[t] \notin {"freelock", "freescan"}
  /\ BeingDeleted' = TRUE /\ destructor' = "deleting"
  /\ UNCHANGED <<table, Lock, EntryFreed, InAllocate, pc, want, arg, scan, held, tooMany>>

\* Bug: the destructor does not wake the blocked allocation.
DestroySilent ==
  /\ destructor = "deleting" /\ destructor' = "signalled"
  /\ UNCHANGED <<table, Lock, EntryFreed, InAllocate, BeingDeleted, pc, want, arg,
                 scan, held, tooMany>>

DestroySignal ==
  /\ destructor = "deleting"
  /\ EntryFreed' = TRUE /\ destructor' = "signalled"
  /\ UNCHANGED <<table, Lock, InAllocate, BeingDeleted, pc, want, arg, scan, held, tooMany>>

DestroyEnd ==
  /\ destructor = "signalled" /\ ~InAllocate
  /\ destructor' = "destroyed"
  /\ UNCHANGED <<table, Lock, EntryFreed, InAllocate, BeingDeleted, pc, want, arg,
                 scan, held, tooMany>>

\* Nothing is left to do; the object is gone.
Destroyed == destructor = "destroyed" /\ UNCHANGED vars

---------------------------------------------------------------------------
AllocateStep(t) ==
  \/ AllocateAborted(t) \/ AllocateFirstFit(t) \/ AllocateLargest(t)
  \/ AllocateNoFit(t) \/ AllocateWake(t)

FreeStep(t) == FreeLock(t) \/ FreeScan(t) \/ FreeStore(t) \/ FreeTooMany(t)

Next ==
  \/ \E t \in Allocators :
       \/ \E n \in Requests, largest, nonblocking \in BOOLEAN :
            AllocateEnter(t, n, largest, nonblocking)
       \/ AllocateStep(t)
       \/ \E r \in held : ExtendUpwards(t, r) \/ ExtendDownwards(t, r)
  \/ \E t \in Freers :
       \/ \E r \in held : \E kept \in 0 .. r.Size - 1 : FreeEnter(t, r, kept)
       \/ FreeStep(t)
  \/ DestroyBegin \/ DestroySignal \/ DestroyEnd \/ Destroyed

Spec == Init /\ [][Next]_vars

\* Every thread inside a call is scheduled; nobody is made to call.
FairSpec ==
  /\ Spec
  /\ \A t \in Allocators : WF_vars(AllocateStep(t))
  /\ \A t \in Freers : WF_vars(FreeStep(t))
  /\ WF_vars(DestroySignal \/ DestroyEnd)
---------------------------------------------------------------------------
(* Properties.                                                             *)

IsRegion(r) == r.Base \in Nat /\ r.Size \in Nat /\ End(r) <= BufferSize

Disjoint(r, s) == End(r) <= s.Base \/ End(s) <= r.Base

Freeing == {t \in Threads : pc[t] \in {"freelock", "freescan"}}

TypeOK ==
  /\ Blocks \in [Slots -> [InUse : BOOLEAN, Base : Nat, Size : Nat]]
  /\ HighestUsedBlockIndex \in Slots
  /\ Lock \in Threads \cup {NoThread}
  /\ EntryFreed \in BOOLEAN /\ InAllocate \in BOOLEAN /\ BeingDeleted \in BOOLEAN
  /\ destructor \in {"live", "deleting", "signalled", "destroyed"}
  /\ pc \in [Threads -> {"idle", "allocate", "wait", "freelock", "freescan"}]
  /\ want \in [Threads -> [Size : Nat, Largest : BOOLEAN, NonBlocking : BOOLEAN]]
  /\ arg \in [Threads -> [Base : Nat, Size : Nat]]
  /\ scan \in [Threads -> [Lowest : 0 .. MaxBlocks, NextHighest : Slots, i : 0 .. MaxBlocks]]
  /\ \A r \in held : r \in [Base : Nat, Size : Nat]

FreeFromFree == \A i, j \in Slots :
  i # j /\ Blocks[i].InUse /\ Blocks[j].InUse => Disjoint(Blocks[i], Blocks[j])
FreeFromHeld == \A i \in Slots, r \in held : Blocks[i].InUse => Disjoint(Blocks[i], r)
FreeFromReturning == \A i \in Slots, t \in Freeing :
  Blocks[i].InUse => Disjoint(Blocks[i], arg[t])
HeldFromHeld      == \A r, s \in held : r # s => Disjoint(r, s)
HeldFromReturning == \A r \in held, t \in Freeing : Disjoint(r, arg[t])
ReturningFromReturning == \A t, u \in Freeing : t # u => Disjoint(arg[t], arg[u])

\* No byte of the pool is at two places: in two free blocks, in a free block
\* and in a client's hands, with two clients, or in a region some thread is
\* still giving back.  (allocator_simple.cpp: what Allocate carves out, Extend
\* absorbs and Free merges.)
NoOverlap ==
  /\ FreeFromFree /\ FreeFromHeld /\ FreeFromReturning
  /\ HeldFromHeld /\ HeldFromReturning /\ ReturningFromReturning

\* Every byte of the pool is in a free block the scans can see, with a client,
\* or on its way back: Free loses nothing but the regions it reports as one too
\* many, whatever it merges and wherever it stores the result.
NothingLost ==
  \A a \in 0 .. BufferSize - 1 :
    \/ \E i \in FreeSlots : Blocks[i].Base <= a /\ a < End(Blocks[i])
    \/ \E r \in held \cup tooMany : r.Base <= a /\ a < End(r)
    \/ \E t \in Freeing : arg[t].Base <= a /\ a < End(arg[t])

\* Between two critical sections no two free blocks of one bank touch, so a
\* request that fits the free memory of a hole fits a block.
Coalesced ==
  Lock = NoThread =>
    \A i, j \in FreeSlots :
      End(Blocks[i]) = Blocks[j].Base => On64MBBoundary(Blocks[j].Base)

\* No block, free or handed out, crosses a 64MB physical boundary.
WithinBank ==
  \A r \in held \cup {Blocks[i] : i \in FreeSlots} :
    \A a \in r.Base + 1 .. End(r) - 1 : ~On64MBBoundary(a)

\* allocator_simple.h: free memory is joined as far as, and no further than, the
\* banks go: neither holes that touch inside a bank nor blocks across two.
WholeInBank == Coalesced /\ WithinBank

\* A thread asleep on EntryFreed sleeps for a reason: no free block fits its
\* request (ResetEvent and the scan are one critical section).
NoLostWakeup ==
  \A t \in Allocators :
    pc[t] = "wait" /\ ~EntryFreed => FittingSlots(want[t].Size) = {}

\* A blocked allocation whose request has become satisfiable leaves the wait.
WaiterServed ==
  \A t \in Allocators :
    (pc[t] = "wait" /\ FittingSlots(want[t].Size) # {}) ~> (pc[t] = "idle")

\* The destructor gets past its spin on InAllocate, whoever was blocked.
DestroyTerminates == (destructor = "deleting") ~> (destructor = "destroyed")
===========================================================================
