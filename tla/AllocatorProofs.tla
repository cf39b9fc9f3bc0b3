-------------------------- MODULE AllocatorProofs --------------------------
(***************************************************************************)
(* What holds of AllocatorSimple for every number of threads, every pool   *)
(* and every table size.                                                   *)
(***************************************************************************)
EXTENDS AllocatorSimple, TLAPS

---------------------------------------------------------------------------
(* Arithmetic of the allocation unit and of the banks.                     *)

Aligned(n) == \E k \in Nat : n = k * SegmentSize

\* What the prover needs to know of a division: the remainder is less than the divisor.
LEMMA Division ==
  ASSUME NEW x \in Nat, NEW d \in Nat \ {0}
  PROVE  x - d * (x \div d) < d
OBVIOUS

\* A size rounded up to the allocation unit is a whole number of units.
LEMMA RoundUpAligned ==
  ASSUME NEW n \in Nat
  PROVE  RoundUp(n) \in Nat /\ Aligned(RoundUp(n)) /\ n <= RoundUp(n)
<1> DEFINE q == (n + SegmentSize - 1) \div SegmentSize
<1>1. SegmentSize \in Nat \ {0}  BY SizesAssumption
<1>2. q \in Nat  BY <1>1
<1>3. q * SegmentSize \in Nat  BY <1>1, <1>2
<1>4. n <= q * SegmentSize
  <2> DEFINE x == n + SegmentSize - 1
  <2>1. x \in Nat  BY <1>1
  <2>2. \A y \in Nat : y - SegmentSize * (y \div SegmentSize) < SegmentSize
    BY <1>1, Division
  <2>3. x - SegmentSize * q < SegmentSize  BY <2>1, <2>2
  <2>4. SegmentSize * q = q * SegmentSize  BY <1>1, <1>2
  <2> HIDE DEF q
  <2> QED BY <1>1, <1>3, <2>3, <2>4
<1> QED BY <1>2, <1>3, <1>4 DEF RoundUp, Aligned

\* Rounding leaves a whole number of units alone: Free(Size) gives back what
\* Allocate took.
LEMMA RoundUpOfAligned ==
  ASSUME NEW n \in Nat, Aligned(n) PROVE RoundUp(n) = n
<1>1. PICK k \in Nat : n = k * SegmentSize  BY DEF Aligned
<1>2. SegmentSize \in Nat \ {0}  BY SizesAssumption
<1>3. (k * SegmentSize + SegmentSize - 1) \div SegmentSize = k
  BY <1>2
<1> QED BY <1>1, <1>3 DEF RoundUp

\* Whole numbers of units add up to a whole number of units.
LEMMA AlignedSum ==
  ASSUME NEW a \in Nat, NEW b \in Nat, Aligned(a), Aligned(b)
  PROVE  Aligned(a + b)
<1>1. PICK j \in Nat : a = j * SegmentSize  BY DEF Aligned
<1>2. PICK k \in Nat : b = k * SegmentSize  BY DEF Aligned
<1>3. a + b = (j + k) * SegmentSize  BY <1>1, <1>2, SizesAssumption
<1> QED BY <1>3 DEF Aligned

\* What is left of a block that is cut by whole units is a whole number of units.
LEMMA AlignedDifference ==
  ASSUME NEW a \in Nat, NEW b \in Nat, Aligned(a), Aligned(b), b <= a
  PROVE  Aligned(a - b)
<1>1. PICK j \in Nat : a = j * SegmentSize  BY DEF Aligned
<1>2. PICK k \in Nat : b = k * SegmentSize  BY DEF Aligned
<1>3. a - b = (j - k) * SegmentSize  BY <1>1, <1>2, SizesAssumption
<1>4. j - k \in Nat
  <2>1. SUFFICES ASSUME j < k PROVE FALSE  BY <1>1, <1>2
  <2>2. j * SegmentSize < k * SegmentSize  BY <2>1, SizesAssumption
  <2> QED BY <2>2, <1>1, <1>2, SizesAssumption
<1> QED BY <1>3, <1>4 DEF Aligned

\* The pool's size, a bank and the pool's offset in its bank are aligned.
LEMMA AlignedConstants ==
  /\ Aligned(BufferSize) /\ Aligned(BankSize) /\ Aligned(PhysicalAddress % BankSize)
  /\ PhysicalAddress % BankSize \in Nat /\ PhysicalAddress % BankSize < BankSize
<1> USE SizesAssumption
<1>1. ASSUME NEW n \in Nat, n % SegmentSize = 0 PROVE Aligned(n)
  <2>1. n = (n \div SegmentSize) * SegmentSize  BY <1>1
  <2>2. n \div SegmentSize \in Nat  BY <1>1
  <2> QED BY <2>1, <2>2 DEF Aligned
<1>2. Aligned(BufferSize) /\ Aligned(BankSize) /\ Aligned(PhysicalAddress)
  BY <1>1, AlignmentAssumption
<1> DEFINE q == PhysicalAddress \div BankSize
           m == PhysicalAddress % BankSize
<1>3. m \in Nat /\ m < BankSize /\ q \in Nat /\ PhysicalAddress = q * BankSize + m
  OBVIOUS
<1> HIDE DEF q, m
<1>4. PICK j \in Nat : BankSize = j * SegmentSize  BY <1>2 DEF Aligned
<1>5. q * BankSize = (q * j) * SegmentSize /\ q * j \in Nat /\ q * BankSize \in Nat
  BY <1>3, <1>4
<1>6. Aligned(q * BankSize)  BY <1>5 DEF Aligned
<1>7. m = PhysicalAddress - q * BankSize /\ q * BankSize <= PhysicalAddress  BY <1>3, <1>5
<1>8. Aligned(m)  BY <1>2, <1>5, <1>6, <1>7, AlignedDifference
<1> QED BY <1>2, <1>3, <1>8 DEF m

\* The banks follow one another, each at a whole number of units.
LEMMA BankStarts ==
  ASSUME NEW i \in Nat
  PROVE  /\ BankStart(i) \in Nat /\ Aligned(BankStart(i))
         /\ BankStart(i) < BankStart(i + 1)
         /\ \A j \in Nat : i < j => BankStart(i + 1) <= BankStart(j)
<1> DEFINE m == PhysicalAddress % BankSize
<1>0. BankSize \in Nat \ {0} /\ m \in Nat /\ m < BankSize /\ Aligned(m) /\ Aligned(BankSize)
  BY AlignedConstants, SizesAssumption
<1> HIDE DEF m
<1>1. ASSUME NEW k \in Nat \ {0}
      PROVE  k * BankSize \in Nat /\ BankSize <= k * BankSize /\ Aligned(k * BankSize)
  <2>1. k * BankSize \in Nat /\ BankSize <= k * BankSize  BY <1>0
  <2>2. PICK j \in Nat : BankSize = j * SegmentSize  BY <1>0 DEF Aligned
  <2>3. k * BankSize = (k * j) * SegmentSize /\ k * j \in Nat
    BY <2>2, SizesAssumption
  <2> QED BY <2>1, <2>3 DEF Aligned
<1>2. ASSUME NEW k \in Nat \ {0}
      PROVE  BankStart(k) = k * BankSize - m /\ BankStart(k) \in Nat /\ Aligned(BankStart(k))
  <2>1. BankStart(k) = k * BankSize - m  BY DEF BankStart, m
  <2>2. k * BankSize \in Nat /\ m <= k * BankSize  BY <1>0, <1>1
  <2> QED BY <2>1, <2>2, <1>0, <1>1, AlignedDifference
<1>3. BankStart(0) = 0 /\ Aligned(0)
  <2>1. 0 = 0 * SegmentSize  BY SizesAssumption
  <2> QED BY <2>1 DEF BankStart, Aligned
<1>4. BankStart(i) \in Nat /\ Aligned(BankStart(i))
  BY <1>2, <1>3
<1>5. BankStart(i) < BankStart(i + 1)
  <2>1. CASE i = 0
    <3>1. BankStart(1) = 1 * BankSize - m  BY <1>2
    <3> QED BY <2>1, <3>1, <1>0, <1>3
  <2>2. CASE i # 0
    <3>1. BankStart(i) = i * BankSize - m /\ BankStart(i + 1) = (i + 1) * BankSize - m
      BY <2>2, <1>2
    <3>2. (i + 1) * BankSize = i * BankSize + BankSize  BY <1>0
    <3>3. i * BankSize \in Nat  BY <2>2, <1>1
    <3> QED BY <3>1, <3>2, <3>3, <1>0
  <2> QED BY <2>1, <2>2
<1>6. ASSUME NEW j \in Nat, i < j PROVE BankStart(i + 1) <= BankStart(j)
  <2>1. BankStart(i + 1) = (i + 1) * BankSize - m /\ BankStart(j) = j * BankSize - m
    BY <1>2, <1>6
  <2>2. (i + 1) * BankSize <= j * BankSize  BY <1>0, <1>6
  <2>3. (i + 1) * BankSize \in Nat /\ j * BankSize \in Nat  BY <1>1, <1>6
  <2> QED BY <2>1, <2>2, <2>3, <1>0
<1> QED BY <1>4, <1>5, <1>6

\* The first free blocks: typed, aligned, one after the other.
LEMMA FirstBlocks ==
  /\ FreeAll \in [Slots -> [InUse : BOOLEAN, Base : Nat, Size : Nat]]
  /\ \A i \in Slots : FreeAll[i].InUse => Aligned(FreeAll[i].Size) /\ FreeAll[i].Size > 0
  /\ \A i, j \in Slots : i # j /\ FreeAll[i].InUse /\ FreeAll[j].InUse
       => Disjoint(FreeAll[i], FreeAll[j])
<1> USE SizesAssumption
<1>1. ASSUME NEW i \in Slots
      PROVE  /\ FreeAll[i] \in [InUse : BOOLEAN, Base : Nat, Size : Nat]
             /\ FreeAll[i].InUse =>
                  /\ Aligned(FreeAll[i].Size) /\ FreeAll[i].Size > 0
                  /\ FreeAll[i].Base = BankStart(i)
                  /\ End(FreeAll[i]) <= BankStart(i + 1)
  <2>1. i \in Nat /\ i + 1 \in Nat  BY DEF Slots
  <2>2. CASE BankStart(i) < BufferSize
    <3> DEFINE e == Least(BufferSize, BankStart(i + 1))
    <3>1. FreeAll[i] = [InUse |-> TRUE, Base |-> BankStart(i), Size |-> e - BankStart(i)]
      BY <2>2 DEF FreeAll
    <3>3. BankStart(i) \in Nat /\ Aligned(BankStart(i)) /\ BankStart(i) < BankStart(i + 1)
      BY <2>1, BankStarts
    <3>4. BankStart(i + 1) \in Nat /\ Aligned(BankStart(i + 1))  BY <2>1, BankStarts
    <3>2. e \in Nat /\ Aligned(e) /\ BankStart(i) < e /\ e <= BankStart(i + 1)
      BY <2>2, <3>3, <3>4, AlignedConstants DEF Least
    <3> HIDE DEF e
    <3>5. Aligned(e - BankStart(i)) /\ e - BankStart(i) \in Nat
      BY <3>2, <3>3, AlignedDifference
    <3> QED BY <3>1, <3>2, <3>3, <3>4, <3>5 DEF End
  <2>3. CASE ~(BankStart(i) < BufferSize)
    BY <2>3 DEF FreeAll, NotInUse
  <2> QED BY <2>2, <2>3
<1>2. FreeAll \in [Slots -> [InUse : BOOLEAN, Base : Nat, Size : Nat]]
  BY <1>1 DEF FreeAll
<1>3. ASSUME NEW i \in Slots, NEW j \in Slots, i < j, FreeAll[i].InUse, FreeAll[j].InUse
      PROVE  Disjoint(FreeAll[i], FreeAll[j])
  <2>1. i \in Nat /\ j \in Nat /\ i + 1 \in Nat  BY DEF Slots
  <2>2. BankStart(i + 1) <= BankStart(j) /\ BankStart(i + 1) \in Nat /\ BankStart(j) \in Nat
    BY <1>3, <2>1, BankStarts
  <2>3. End(FreeAll[i]) \in Nat  BY <1>1 DEF End
  <2> QED BY <1>1, <1>3, <2>2, <2>3 DEF Disjoint
<1>4. ASSUME NEW i \in Slots, NEW j \in Slots, i # j, FreeAll[i].InUse, FreeAll[j].InUse
      PROVE  Disjoint(FreeAll[i], FreeAll[j])
  <2>1. i < j \/ j < i  BY <1>4 DEF Slots
  <2> QED BY <1>3, <1>4, <2>1 DEF Disjoint
<1> QED BY <1>1, <1>2, <1>4

---------------------------------------------------------------------------
(* Types.                                                                  *)

\* Every index stays in the table and every local of a call in its range.
THEOREM TypeCorrect == Spec => []TypeOK
<1> USE SizesAssumption
<1>1. Init => TypeOK
  <2> SUFFICES ASSUME Init PROVE TypeOK  OBVIOUS
  <2>1. 0 \in Slots /\ 0 \in 0 .. MaxBlocks  BY DEF Slots
  <2> QED BY <2>1, FirstBlocks
       DEF Init, TypeOK, FreeAllHighest, NoRequest, NoScan, Region, Threads
<1>2. TypeOK /\ [Next]_vars => TypeOK'
  <2> SUFFICES ASSUME TypeOK, [Next]_vars PROVE TypeOK'  OBVIOUS
  <2> USE DEF TypeOK, table, deletion
  <2>1. ASSUME NEW t \in Allocators, NEW n \in Requests,
               NEW largest \in BOOLEAN, NEW nonblocking \in BOOLEAN,
               AllocateEnter(t, n, largest, nonblocking)
        PROVE  TypeOK'
    <3>1. RoundUp(n) \in Nat  BY RoundUpAligned
    <3> QED BY <2>1, <3>1 DEF AllocateEnter, Threads
  <2>2. ASSUME NEW t \in Allocators, AllocateAborted(t) PROVE TypeOK'
    BY <2>2 DEF AllocateAborted, AllocateReturn, NoRequest, Threads
  <2>3. ASSUME NEW t \in Allocators, NEW i \in FreeSlots, NEW n \in Nat,
               n <= Blocks[i].Size, AllocateTake(t, i, n)
        PROVE  TypeOK'
    <3>1. i \in Slots  BY DEF FreeSlots
    <3>2. Blocks[i].Size - n \in Nat  BY <2>3, <3>1
    <3>3. Blocks' \in [Slots -> [InUse : BOOLEAN, Base : Nat, Size : Nat]]
      BY <2>3, <3>1, <3>2 DEF AllocateTake, NotInUse
    <3>4. \A r \in held' : r \in [Base : Nat, Size : Nat]
      BY <2>3, <3>1 DEF AllocateTake, Region
    <3>5. want' \in [Threads -> [Size : Nat, Largest : BOOLEAN, NonBlocking : BOOLEAN]]
      BY <2>3 DEF AllocateTake, AllocateReturn, NoRequest
    <3> QED BY <2>3, <3>3, <3>4, <3>5 DEF AllocateTake, AllocateReturn
  <2>4. ASSUME NEW t \in Allocators, AllocateFirstFit(t) PROVE TypeOK'
    BY <2>3, <2>4 DEF AllocateFirstFit, FittingSlots, Threads
  <2>5. ASSUME NEW t \in Allocators, AllocateLargest(t) PROVE TypeOK'
    <3>1. \A i \in FreeSlots : Blocks[i].Size \in Nat /\ Blocks[i].Size <= Blocks[i].Size
      BY DEF FreeSlots
    <3> QED BY <2>3, <2>5, <3>1 DEF AllocateLargest, LargestFreeBlock
  <2>6. ASSUME NEW t \in Allocators, AllocateNoFit(t) PROVE TypeOK'
    <3>1. CASE AllocateReturn(t)
      BY <2>6, <3>1 DEF AllocateNoFit, AllocateReturn, NoRequest, Threads
    <3>2. CASE pc' = [pc EXCEPT ![t] = "wait"] /\ UNCHANGED <<InAllocate, want>>
      BY <2>6, <3>2 DEF AllocateNoFit, Threads
    <3> QED BY <2>6, <3>1, <3>2 DEF AllocateNoFit
  <2>7. ASSUME NEW t \in Allocators, AllocateWake(t) PROVE TypeOK'
    <3>1. CASE AllocateReturn(t)
      BY <2>7, <3>1 DEF AllocateWake, AllocateReturn, NoRequest, Threads
    <3>2. CASE pc' = [pc EXCEPT ![t] = "allocate"] /\ UNCHANGED <<InAllocate, want>>
      BY <2>7, <3>2 DEF AllocateWake, Threads
    <3> QED BY <2>7, <3>1, <3>2 DEF AllocateWake
  <2>8. ASSUME NEW t \in Allocators, NEW r \in held, NEW i \in FreeSlots, Absorb(t, r, i)
        PROVE  TypeOK'
    <3>1. i \in Slots  BY DEF FreeSlots
    <3> QED BY <2>8, <3>1 DEF Absorb, NotInUse, Region, Least
  <2>9. ASSUME NEW t \in Freers, NEW r \in held, NEW kept \in 0 .. r.Size - 1,
               FreeEnter(t, r, kept)
        PROVE  TypeOK'
    <3>1. RoundUp(r.Size - kept) \in Nat  BY RoundUpAligned
    <3>2. HighestUsedBlockIndex + 1 \in 0 .. MaxBlocks /\ 0 \in Slots  BY DEF Slots
    <3> QED BY <2>9, <3>1, <3>2 DEF FreeEnter, Region, Threads
  <2>return. ASSUME NEW t \in Freers, FreeReturn(t),
                Blocks' \in [Slots -> [InUse : BOOLEAN, Base : Nat, Size : Nat]],
                HighestUsedBlockIndex' \in Slots
         PROVE  TypeOK'
    <3>1. 0 \in Slots /\ 0 \in 0 .. MaxBlocks  BY DEF Slots
    <3>2. scan' \in [Threads -> [Lowest : 0 .. MaxBlocks, NextHighest : Slots,
                                 i : 0 .. MaxBlocks]]
      BY <2>return, <3>1 DEF FreeReturn, NoScan
    <3>3. arg' \in [Threads -> [Base : Nat, Size : Nat]]  BY <2>return DEF FreeReturn, Region
    <3>4. pc' \in [Threads -> {"idle", "allocate", "wait", "freelock", "freescan"}]
      BY <2>return DEF FreeReturn
    <3> QED BY <2>return, <3>2, <3>3, <3>4 DEF FreeReturn
  <2>10. ASSUME NEW t \in Freers, FreeLock(t) PROVE TypeOK'
    BY <2>10 DEF FreeLock, Threads
  <2>11. ASSUME NEW t \in Freers, FreeScan(t) PROVE TypeOK'
    <3>1. t \in Threads /\ scan[t].i <= HighestUsedBlockIndex  BY <2>11 DEF FreeScan, Threads
    <3>2. scan[t] \in [Lowest : 0 .. MaxBlocks, NextHighest : Slots, i : 0 .. MaxBlocks]
      BY <3>1
    <3>2a. scan[t].i \in 0 .. MaxBlocks /\ HighestUsedBlockIndex \in Slots  BY <3>2
    <3>3. scan[t].i \in Slots /\ scan[t].i + 1 \in 0 .. MaxBlocks
      <4> HIDE DEF TypeOK
      <4> QED BY <3>1, <3>2a DEF Slots
    <3>4. scan' \in [Threads -> [Lowest : 0 .. MaxBlocks, NextHighest : Slots,
                                 i : 0 .. MaxBlocks]]
      BY <2>11, <3>1, <3>2, <3>3 DEF FreeScan, Least
    <3>5. arg' \in [Threads -> [Base : Nat, Size : Nat]]
      BY <2>11, <3>1, <3>3 DEF FreeScan, Region, Least
    <3>6. Blocks' \in [Slots -> [InUse : BOOLEAN, Base : Nat, Size : Nat]]
      BY <2>11, <3>3 DEF FreeScan, NotInUse
    <3> QED BY <2>11, <3>4, <3>5, <3>6 DEF FreeScan
  <2>12. ASSUME NEW t \in Freers, FreeStore(t) PROVE TypeOK'
    <3>1. t \in Threads /\ scan[t].Lowest \in Slots /\ scan[t].NextHighest \in Slots
      BY <2>12 DEF FreeStore, FreeStoreAt, Slots, Threads
    <3>2. Blocks' \in [Slots -> [InUse : BOOLEAN, Base : Nat, Size : Nat]]
      BY <2>12, <3>1 DEF FreeStore, FreeStoreAt
    <3>3. HighestUsedBlockIndex' \in Slots
      BY <2>12, <3>1 DEF FreeStore, FreeStoreAt, Greatest
    <3>4. FreeReturn(t)  BY <2>12 DEF FreeStore, FreeStoreAt
    <3> QED BY <2>return, <3>1, <3>2, <3>3, <3>4
  <2>13. ASSUME NEW t \in Freers, FreeTooMany(t) PROVE TypeOK'
    <3>1. FreeReturn(t) /\ UNCHANGED table  BY <2>13 DEF FreeTooMany
    <3> QED BY <2>return, <3>1
  <2>14. CASE DestroyBegin \/ DestroySignal \/ DestroyEnd \/ Destroyed \/ UNCHANGED vars
    BY <2>14 DEF DestroyBegin, DestroySignal, DestroyEnd, Destroyed, vars
  <2> QED BY <2>1, <2>2, <2>4, <2>5, <2>6, <2>7, <2>8, <2>9, <2>10, <2>11, <2>12,
             <2>13, <2>14
       DEF Next, AllocateStep, FreeStep, ExtendUpwards, ExtendDownwards
<1> QED BY <1>1, <1>2, PTL DEF Spec

---------------------------------------------------------------------------
(* No byte at two places.                                                  *)

Sized(r) == r.Base \in Nat /\ r.Size \in Nat
Whole(r) == Sized(r) /\ r.Size > 0 /\ Aligned(r.Size)

\* Every region is a positive whole number of allocation units, so that the
\* rounding in Free gives back no byte of a neighbour.
WholeUnits ==
  /\ \A i \in Slots : Blocks[i].InUse => Whole(Blocks[i])
  /\ \A r \in held : Whole(r)
  /\ \A t \in Freeing : Whole(arg[t])
  /\ \A t \in Allocators : pc[t] \in {"allocate", "wait"} =>
       want[t].Size > 0 /\ Aligned(want[t].Size)

OverlapInv == TypeOK /\ WholeUnits /\ NoOverlap

\* A part of a region is apart from what the region is apart from.
LEMMA PartDisjoint ==
  ASSUME NEW r, NEW part, NEW x, Sized(r), Sized(part), Sized(x),
         r.Base <= part.Base, End(part) <= End(r), Disjoint(r, x)
  PROVE  Disjoint(part, x) /\ Disjoint(x, part)
BY DEF Sized, End, Disjoint

\* Two touching regions joined are apart from what both are apart from.
LEMMA JoinDisjoint ==
  ASSUME NEW r, NEW s, NEW x, NEW join, Sized(r), Sized(s), Sized(x), Sized(join),
         End(r) = s.Base, join.Base = r.Base, End(join) = End(s),
         Disjoint(r, x), Disjoint(s, x), x.Size > 0
  PROVE  Disjoint(join, x) /\ Disjoint(x, join)
BY DEF Sized, End, Disjoint

\* The constructor lays out disjoint blocks of whole units.
LEMMA OverlapInit == Init => OverlapInv
<1> SUFFICES ASSUME Init PROVE OverlapInv  OBVIOUS
<1>1. TypeOK
  <2>1. 0 \in Slots /\ 0 \in 0 .. MaxBlocks  BY SizesAssumption DEF Slots
  <2> QED BY <2>1, FirstBlocks, SizesAssumption
       DEF Init, TypeOK, FreeAllHighest, NoRequest, NoScan, Region, Threads
<1>2. Freeing = {}  BY DEF Init, Freeing
<1>3. WholeUnits  BY <1>2, FirstBlocks DEF Init, WholeUnits, Whole, Sized, Threads
<1>4. NoOverlap
  BY <1>2, FirstBlocks
     DEF Init, NoOverlap, FreeFromFree, FreeFromHeld, FreeFromReturning, HeldFromHeld,
         HeldFromReturning, ReturningFromReturning
<1> QED BY <1>1, <1>3, <1>4 DEF OverlapInv

\* First fit and largest fit: the region leaves the front of a free block.
LEMMA OverlapTake ==
  ASSUME OverlapInv, NEW t \in Allocators, NEW i \in FreeSlots, NEW n \in Nat,
         0 < n, n <= Blocks[i].Size, Aligned(n), AllocateTake(t, i, n)
  PROVE  (WholeUnits /\ NoOverlap)'
<1> DEFINE b == Blocks[i]
           r == Region(b.Base, n)
           c == [InUse |-> TRUE, Base |-> b.Base + n, Size |-> b.Size - n]
<1>1. i \in Slots /\ b.InUse /\ Whole(b) /\ t \in Threads
  BY DEF FreeSlots, OverlapInv, WholeUnits, Threads
<1>2. Freeing' \subseteq Freeing /\ UNCHANGED arg
  BY <1>1 DEF AllocateTake, AllocateReturn, Freeing, OverlapInv, TypeOK
<1>3. held' = held \cup {r}  BY DEF AllocateTake
<1>4. ASSUME NEW j \in Slots, Blocks'[j].InUse
      PROVE  \/ j # i /\ Blocks'[j] = Blocks[j]
             \/ j = i /\ Blocks'[j] = c /\ b.Size # n
  BY <1>1, <1>4 DEF AllocateTake, OverlapInv, TypeOK, NotInUse
<1>5. Whole(r) /\ r.Base = b.Base /\ End(r) = b.Base + n /\ End(r) <= End(b)
  BY <1>1 DEF Whole, Sized, Region, End
<1>6. b.Size # n => Whole(c) /\ c.Base = b.Base + n /\ End(c) = End(b) /\ Disjoint(c, r)
  <2> SUFFICES ASSUME b.Size # n
               PROVE  Whole(c) /\ c.Base = b.Base + n /\ End(c) = End(b) /\ Disjoint(c, r)
    OBVIOUS
  <2>1. Aligned(b.Size - n)  BY <1>1, AlignedDifference DEF Whole, Sized
  <2> QED BY <1>1, <1>5, <2>1 DEF Whole, Sized, End, Disjoint
<1> HIDE DEF b, r, c
<1>7. WholeUnits'
  <2>1. \A j \in Slots : Blocks'[j].InUse => Whole(Blocks'[j])
    BY <1>4, <1>6 DEF OverlapInv, WholeUnits
  <2>2. \A x \in held' : Whole(x)  BY <1>3, <1>5 DEF OverlapInv, WholeUnits
  <2>3. \A u \in Freeing' : Whole(arg'[u])  BY <1>2 DEF OverlapInv, WholeUnits
  <2>4. \A u \in Allocators : pc'[u] \in {"allocate", "wait"} =>
          want'[u].Size > 0 /\ Aligned(want'[u].Size)
    BY DEF OverlapInv, WholeUnits, TypeOK, AllocateTake, AllocateReturn, Threads
  <2> QED BY <2>1, <2>2, <2>3, <2>4 DEF WholeUnits
\* What the block was apart from, its two parts are apart from.
<1>8. ASSUME NEW x, Sized(x), Disjoint(b, x) \/ Disjoint(x, b)
      PROVE  /\ Disjoint(r, x) /\ Disjoint(x, r)
             /\ b.Size # n => Disjoint(c, x) /\ Disjoint(x, c)
  BY <1>1, <1>5, <1>6, <1>8 DEF Whole, Sized, End, Disjoint
<1>9. /\ \A j \in Slots : Blocks[j].InUse => Sized(Blocks[j])
      /\ \A x \in held : Sized(x)
      /\ \A u \in Freeing : Sized(arg[u])
  BY DEF OverlapInv, WholeUnits, Whole
<1>10. FreeFromFree'
  BY <1>1, <1>4, <1>8, <1>9 DEF OverlapInv, NoOverlap, FreeFromFree, b
<1>11. FreeFromHeld'
  <2> SUFFICES ASSUME NEW j \in Slots, NEW x \in held', Blocks'[j].InUse
               PROVE  Disjoint(Blocks'[j], x)
    BY DEF FreeFromHeld
  <2>1. CASE x \in held
    BY <1>1, <1>4, <1>8, <1>9, <2>1 DEF OverlapInv, NoOverlap, FreeFromHeld, b
  <2>2. CASE x = r
    <3>1. CASE j = i  BY <1>4, <1>6, <2>2, <3>1
    <3>2. CASE j # i
      BY <1>1, <1>4, <1>8, <1>9, <2>2, <3>2 DEF OverlapInv, NoOverlap, FreeFromFree, b
    <3> QED BY <3>1, <3>2
  <2> QED BY <1>3, <2>1, <2>2
<1>12. FreeFromReturning'
  BY <1>1, <1>2, <1>4, <1>8, <1>9 DEF OverlapInv, NoOverlap, FreeFromReturning, b
<1>13. HeldFromHeld'
  BY <1>1, <1>3, <1>8, <1>9 DEF OverlapInv, NoOverlap, HeldFromHeld, FreeFromHeld, b
<1>14. HeldFromReturning'
  BY <1>1, <1>2, <1>3, <1>8, <1>9
     DEF OverlapInv, NoOverlap, HeldFromReturning, FreeFromReturning, b
<1>15. ReturningFromReturning'
  BY <1>2 DEF OverlapInv, NoOverlap, ReturningFromReturning
<1> QED BY <1>7, <1>10, <1>11, <1>12, <1>13, <1>14, <1>15 DEF NoOverlap

\* ExtendToLargest: a free block joins the region it touches.
LEMMA OverlapAbsorb ==
  ASSUME OverlapInv, NEW t \in Allocators, NEW r \in held, NEW i \in FreeSlots,
         Blocks[i].Base = End(r) \/ End(Blocks[i]) = r.Base, Absorb(t, r, i)
  PROVE  (WholeUnits /\ NoOverlap)'
<1> DEFINE b == Blocks[i]
           join == Region(Least(r.Base, b.Base), r.Size + b.Size)
<1>1. i \in Slots /\ b.InUse /\ Whole(b) /\ Whole(r)
  BY DEF FreeSlots, OverlapInv, WholeUnits
<1>2. held' = (held \ {r}) \cup {join} /\ Freeing' = Freeing
      /\ UNCHANGED <<arg, pc, want>>
  BY DEF Absorb, Freeing
<1>3. ASSUME NEW j \in Slots, Blocks'[j].InUse PROVE j # i /\ Blocks'[j] = Blocks[j]
  BY <1>1, <1>3 DEF Absorb, NotInUse, OverlapInv, TypeOK
<1>4. Whole(join)
  BY <1>1, AlignedSum DEF Whole, Sized, Region, Least
<1>5. ASSUME NEW x, Sized(x), x.Size > 0, Disjoint(b, x) \/ Disjoint(x, b),
             Disjoint(r, x) \/ Disjoint(x, r)
      PROVE  Disjoint(join, x) /\ Disjoint(x, join)
  BY <1>1, <1>5 DEF Whole, Sized, Region, Least, End, Disjoint
<1> HIDE DEF b, join
<1>6. WholeUnits'
  BY <1>2, <1>3, <1>4 DEF OverlapInv, WholeUnits
<1>7. /\ \A j \in Slots : Blocks[j].InUse => Sized(Blocks[j]) /\ Blocks[j].Size > 0
      /\ \A x \in held : Sized(x) /\ x.Size > 0
      /\ \A u \in Freeing : Sized(arg[u]) /\ arg[u].Size > 0
  BY DEF OverlapInv, WholeUnits, Whole
<1>8. FreeFromFree'  BY <1>3 DEF OverlapInv, NoOverlap, FreeFromFree
<1>9. FreeFromHeld'
  BY <1>1, <1>2, <1>3, <1>5, <1>7
     DEF OverlapInv, NoOverlap, FreeFromHeld, FreeFromFree, b
<1>10. FreeFromReturning'
  BY <1>2, <1>3 DEF OverlapInv, NoOverlap, FreeFromReturning
<1>11. HeldFromHeld'
  BY <1>1, <1>2, <1>5, <1>7 DEF OverlapInv, NoOverlap, HeldFromHeld, FreeFromHeld, b
<1>12. HeldFromReturning'
  BY <1>1, <1>2, <1>5, <1>7
     DEF OverlapInv, NoOverlap, HeldFromReturning, FreeFromReturning, b
<1>13. ReturningFromReturning'
  BY <1>2 DEF OverlapInv, NoOverlap, ReturningFromReturning
<1> QED BY <1>6, <1>8, <1>9, <1>10, <1>11, <1>12, <1>13 DEF NoOverlap

\* Free(Size, Block) takes the region, or its tail, out of the client's hands.
LEMMA OverlapFreeEnter ==
  ASSUME OverlapInv, NEW t \in Freers, NEW r \in held, NEW kept \in 0 .. r.Size - 1,
         FreeEnter(t, r, kept)
  PROVE  (WholeUnits /\ NoOverlap)'
<1> DEFINE head == Region(r.Base, kept)
           tail == Region(r.Base + kept, r.Size - kept)
<1>1. Whole(r) /\ t \in Threads /\ t \notin Freeing /\ kept \in Nat /\ kept < r.Size
  BY DEF OverlapInv, WholeUnits, Whole, Sized, Threads, FreeEnter, Freeing
<1>2. Aligned(kept)  BY <1>1, RoundUpAligned DEF FreeEnter
<1>3. Aligned(r.Size - kept) /\ r.Size - kept \in Nat /\ RoundUp(r.Size - kept) = r.Size - kept
  BY <1>1, <1>2, AlignedDifference, RoundUpOfAligned DEF Whole, Sized
<1>4. Whole(tail) /\ (kept > 0 => Whole(head)) /\ Disjoint(head, tail)
  BY <1>1, <1>2, <1>3 DEF Whole, Sized, Region, Disjoint, End
<1>5. held' \subseteq (held \ {r}) \cup {head} /\ (kept = 0 => held' = held \ {r})
      /\ UNCHANGED <<Blocks, want>>
  BY DEF FreeEnter, table
<1>6. Freeing' = Freeing \cup {t}
  BY <1>1 DEF FreeEnter, Freeing, OverlapInv, TypeOK
<1>7. arg'[t] = tail /\ \A u \in Freeing : arg'[u] = arg[u]
  BY <1>1, <1>3, <1>6 DEF FreeEnter, OverlapInv, TypeOK, Freeing
<1>8. \A u \in Allocators : pc'[u] \in {"allocate", "wait"} =>
          pc[u] \in {"allocate", "wait"}
  BY <1>1 DEF FreeEnter, OverlapInv, TypeOK, Threads
<1>9. ASSUME NEW x, Sized(x), Disjoint(r, x) \/ Disjoint(x, r)
      PROVE  /\ Disjoint(tail, x) /\ Disjoint(x, tail)
             /\ Disjoint(head, x) /\ Disjoint(x, head)
  BY <1>1, <1>3, <1>9 DEF Whole, Sized, Region, Disjoint, End
<1> HIDE DEF head, tail
<1>10. WholeUnits'
  BY <1>1, <1>4, <1>5, <1>6, <1>7, <1>8 DEF OverlapInv, WholeUnits
<1>11. /\ \A j \in Slots : Blocks[j].InUse => Sized(Blocks[j])
       /\ \A x \in held : Sized(x)
       /\ \A u \in Freeing : Sized(arg[u])
  BY DEF OverlapInv, WholeUnits, Whole
<1>12. FreeFromFree'  BY <1>5 DEF OverlapInv, NoOverlap, FreeFromFree
<1>13. FreeFromHeld'
  BY <1>5, <1>9, <1>11 DEF OverlapInv, NoOverlap, FreeFromHeld
<1>14. FreeFromReturning'
  BY <1>5, <1>6, <1>7, <1>9, <1>11
     DEF OverlapInv, NoOverlap, FreeFromReturning, FreeFromHeld
<1>15. HeldFromHeld'
  BY <1>5, <1>9, <1>11 DEF OverlapInv, NoOverlap, HeldFromHeld
<1>16. HeldFromReturning'
  BY <1>4, <1>5, <1>6, <1>7, <1>9, <1>11
     DEF OverlapInv, NoOverlap, HeldFromReturning, HeldFromHeld
<1>17. ReturningFromReturning'
  BY <1>1, <1>6, <1>7, <1>9, <1>11
     DEF OverlapInv, NoOverlap, HeldFromReturning, ReturningFromReturning
<1> QED BY <1>10, <1>12, <1>13, <1>14, <1>15, <1>16, <1>17 DEF NoOverlap

\* One block of Free's scan: it joins the region being freed, or it stays.
LEMMA OverlapFreeScan ==
  ASSUME OverlapInv, NEW t \in Freers, FreeScan(t)
  PROVE  (WholeUnits /\ NoOverlap)'
<1> DEFINE i == scan[t].i
           b == Blocks[i]
           a == arg[t]
           joins == JoinsAbove(a, b) \/ JoinsBelow(a, b)
           join  == Region(Least(a.Base, b.Base), a.Size + b.Size)
<1>1. t \in Freeing /\ t \in Threads /\ i \in Slots /\ Whole(a)
      /\ UNCHANGED <<held, pc, want>> /\ Freeing' = Freeing
  <2>1. t \in Freeing /\ t \in Threads /\ i <= HighestUsedBlockIndex
        /\ UNCHANGED <<held, pc, want>>
    BY DEF FreeScan, Freeing, Threads
  <2>2. i \in Slots
    <3>1. i \in 0 .. MaxBlocks /\ HighestUsedBlockIndex \in Slots
      BY <2>1 DEF OverlapInv, TypeOK
    <3> QED BY <2>1, <3>1, SizesAssumption DEF Slots
  <2> QED BY <2>1, <2>2 DEF OverlapInv, WholeUnits, Freeing
<1>2. CASE ~joins
  <2>1. Blocks' = Blocks /\ arg' = arg
    BY <1>1, <1>2 DEF FreeScan, OverlapInv, TypeOK
  <2> QED
    BY <1>1, <2>1
       DEF OverlapInv, WholeUnits, NoOverlap, FreeFromFree, FreeFromHeld, FreeFromReturning,
           HeldFromHeld, HeldFromReturning, ReturningFromReturning
<1>3. CASE joins
  <2>1. b.InUse /\ Whole(b) /\ (End(a) = b.Base \/ End(b) = a.Base)
    BY <1>1, <1>3 DEF JoinsAbove, JoinsBelow, OverlapInv, WholeUnits
  <2>2. \A u \in Threads : u # t => arg'[u] = arg[u]
    BY DEF FreeScan, OverlapInv, TypeOK
  <2>3. arg'[t] = join
    BY <1>1, <1>3 DEF FreeScan, OverlapInv, TypeOK
  <2>4. ASSUME NEW j \in Slots, Blocks'[j].InUse PROVE j # i /\ Blocks'[j] = Blocks[j]
    <3>1. Blocks' = [Blocks EXCEPT ![i] = NotInUse]  BY <1>3 DEF FreeScan
    <3> QED BY <1>1, <2>4, <3>1 DEF NotInUse, OverlapInv, TypeOK
  <2>5. Whole(join)
    BY <1>1, <2>1, AlignedSum DEF Whole, Sized, Region, Least
  <2>6. ASSUME NEW x, Sized(x), x.Size > 0, Disjoint(a, x) \/ Disjoint(x, a),
               Disjoint(b, x) \/ Disjoint(x, b)
        PROVE  Disjoint(join, x) /\ Disjoint(x, join)
    BY <1>1, <2>1, <2>6 DEF Whole, Sized, Region, Least, End, Disjoint
  <2>7. /\ \A j \in Slots : Blocks[j].InUse => Sized(Blocks[j]) /\ Blocks[j].Size > 0
        /\ \A x \in held : Sized(x) /\ x.Size > 0
        /\ \A u \in Freeing : Sized(arg[u]) /\ arg[u].Size > 0 /\ u \in Threads
    BY DEF OverlapInv, WholeUnits, Whole, Freeing
  <2> HIDE DEF i, join, joins
  <2>8. WholeUnits'
    BY <1>1, <2>2, <2>3, <2>4, <2>5, <2>7 DEF OverlapInv, WholeUnits
  <2>9. FreeFromFree'  BY <2>4 DEF OverlapInv, NoOverlap, FreeFromFree
  <2>10. FreeFromHeld'  BY <1>1, <2>4 DEF OverlapInv, NoOverlap, FreeFromHeld
  <2>11. FreeFromReturning'
    BY <1>1, <2>1, <2>2, <2>3, <2>4, <2>6, <2>7
       DEF OverlapInv, NoOverlap, FreeFromReturning, FreeFromFree
  <2>12. HeldFromHeld'  BY <1>1 DEF OverlapInv, NoOverlap, HeldFromHeld
  <2>13. HeldFromReturning'
    BY <1>1, <2>1, <2>2, <2>3, <2>6, <2>7
       DEF OverlapInv, NoOverlap, HeldFromReturning, FreeFromHeld
  <2>14. ReturningFromReturning'
    BY <1>1, <2>1, <2>2, <2>3, <2>6, <2>7
       DEF OverlapInv, NoOverlap, ReturningFromReturning, FreeFromReturning
  <2> QED BY <2>8, <2>9, <2>10, <2>11, <2>12, <2>13, <2>14 DEF NoOverlap
<1> QED BY <1>2, <1>3

\* The end of Free: the region goes into a slot, whatever the slot held (a stale
\* index may name a slot in use), or is forgotten when the table is full.
LEMMA OverlapFreeReturn ==
  ASSUME OverlapInv, NEW t \in Freeing, NEW l \in Slots, FreeReturn(t),
         \/ Blocks' = Blocks
         \/ Blocks' = [Blocks EXCEPT ![l] =
              [InUse |-> TRUE, Base |-> arg[t].Base, Size |-> arg[t].Size]]
  PROVE  (WholeUnits /\ NoOverlap)'
<1> DEFINE a == arg[t]
           c == [InUse |-> TRUE, Base |-> a.Base, Size |-> a.Size]
<1>1. t \in Threads /\ Whole(a) /\ UNCHANGED <<held, want>>
  BY DEF OverlapInv, WholeUnits, Freeing, FreeReturn
<1>2. Freeing' = Freeing \ {t}
  BY <1>1 DEF FreeReturn, Freeing, OverlapInv, TypeOK
<1>3. \A u \in Freeing' : arg'[u] = arg[u]
  BY <1>1, <1>2 DEF FreeReturn, Freeing, OverlapInv, TypeOK
<1>4. ASSUME NEW j \in Slots, Blocks'[j].InUse
      PROVE  (j = l /\ Blocks'[j] = c) \/ (Blocks[j].InUse /\ Blocks'[j] = Blocks[j])
  BY <1>4 DEF OverlapInv, TypeOK
<1>5. Whole(c)  BY <1>1 DEF Whole, Sized
<1>6. ASSUME NEW x, Disjoint(a, x) \/ Disjoint(x, a) PROVE Disjoint(c, x) /\ Disjoint(x, c)
  BY <1>6 DEF Disjoint, End
<1>7. \A u \in Allocators : pc'[u] \in {"allocate", "wait"} => pc[u] \in {"allocate", "wait"}
  BY <1>1 DEF FreeReturn, OverlapInv, TypeOK, Threads
<1> HIDE DEF c
<1>8. WholeUnits'
  BY <1>1, <1>2, <1>3, <1>4, <1>5, <1>7 DEF OverlapInv, WholeUnits
<1>9. FreeFromFree'
  BY <1>4, <1>6 DEF OverlapInv, NoOverlap, FreeFromFree, FreeFromReturning
<1>10. FreeFromHeld'
  BY <1>1, <1>4, <1>6 DEF OverlapInv, NoOverlap, FreeFromHeld, HeldFromReturning
<1>11. FreeFromReturning'
  BY <1>2, <1>3, <1>4, <1>6
     DEF OverlapInv, NoOverlap, FreeFromReturning, ReturningFromReturning
<1>12. HeldFromHeld'  BY <1>1 DEF OverlapInv, NoOverlap, HeldFromHeld
<1>13. HeldFromReturning'
  BY <1>1, <1>2, <1>3 DEF OverlapInv, NoOverlap, HeldFromReturning
<1>14. ReturningFromReturning'
  BY <1>2, <1>3 DEF OverlapInv, NoOverlap, ReturningFromReturning
<1> QED BY <1>8, <1>9, <1>10, <1>11, <1>12, <1>13, <1>14 DEF NoOverlap

\* The steps that touch no region.
LEMMA OverlapElsewhere ==
  ASSUME OverlapInv, UNCHANGED <<Blocks, held, arg>>, Freeing' = Freeing,
         \A u \in Allocators : pc'[u] \in {"allocate", "wait"} =>
           want'[u].Size > 0 /\ Aligned(want'[u].Size)
  PROVE  (WholeUnits /\ NoOverlap)'
BY DEF OverlapInv, WholeUnits, NoOverlap, FreeFromFree, FreeFromHeld, FreeFromReturning,
       HeldFromHeld, HeldFromReturning, ReturningFromReturning

\* Every step keeps regions whole and apart: one case per action.
LEMMA OverlapStep ==
  ASSUME OverlapInv, [Next]_vars
  PROVE  (WholeUnits /\ NoOverlap)'
<1> USE SizesAssumption
<1>0. TypeOK /\ WholeUnits  BY DEF OverlapInv
<1>1. ASSUME NEW t \in Allocators, NEW n \in Requests,
             NEW largest \in BOOLEAN, NEW nonblocking \in BOOLEAN,
             AllocateEnter(t, n, largest, nonblocking)
      PROVE  (WholeUnits /\ NoOverlap)'
  <2>1. t \in Threads /\ RoundUp(n) > 0 /\ Aligned(RoundUp(n))
    BY RoundUpAligned DEF Threads
  <2>2. Freeing' = Freeing /\ UNCHANGED <<Blocks, held, arg>>
    BY <1>0, <1>1, <2>1 DEF AllocateEnter, Freeing, TypeOK, table
  <2>3. \A u \in Allocators : pc'[u] \in {"allocate", "wait"} =>
          want'[u].Size > 0 /\ Aligned(want'[u].Size)
    BY <1>0, <1>1, <2>1 DEF AllocateEnter, TypeOK, WholeUnits, Threads
  <2> QED BY <2>2, <2>3, OverlapElsewhere
<1>2. ASSUME NEW t \in Allocators, AllocateReturn(t), UNCHANGED <<Blocks, held, arg>>
      PROVE  (pc[t] \in {"allocate", "wait"}) => (WholeUnits /\ NoOverlap)'
  <2> SUFFICES ASSUME pc[t] \in {"allocate", "wait"} PROVE (WholeUnits /\ NoOverlap)'
    OBVIOUS
  <2>1. t \in Threads  BY DEF Threads
  <2>2. Freeing' = Freeing  BY <1>0, <1>2, <2>1 DEF AllocateReturn, Freeing, TypeOK
  <2>3. \A u \in Allocators : pc'[u] \in {"allocate", "wait"} =>
          want'[u].Size > 0 /\ Aligned(want'[u].Size)
    BY <1>0, <1>2, <2>1 DEF AllocateReturn, TypeOK, WholeUnits, Threads
  <2> QED BY <1>2, <2>2, <2>3, OverlapElsewhere
<1>3. ASSUME NEW t \in Allocators, UNCHANGED <<Blocks, held, arg, want>>,
             pc[t] \in {"allocate", "wait"},
             \/ pc' = [pc EXCEPT ![t] = "allocate"]
             \/ pc' = [pc EXCEPT ![t] = "wait"]
      PROVE  (WholeUnits /\ NoOverlap)'
  <2>1. t \in Threads  BY DEF Threads
  <2>2. Freeing' = Freeing  BY <1>0, <1>3, <2>1 DEF Freeing, TypeOK
  <2>3. \A u \in Allocators : pc'[u] \in {"allocate", "wait"} =>
          want'[u].Size > 0 /\ Aligned(want'[u].Size)
    BY <1>0, <1>3, <2>1 DEF TypeOK, WholeUnits, Threads
  <2> QED BY <1>3, <2>2, <2>3, OverlapElsewhere
<1>4. ASSUME NEW t \in Allocators, AllocateAborted(t) PROVE (WholeUnits /\ NoOverlap)'
  BY <1>2, <1>4 DEF AllocateAborted, table
<1>5. ASSUME NEW t \in Allocators, AllocateFirstFit(t) PROVE (WholeUnits /\ NoOverlap)'
  <2>1. want[t].Size \in Nat /\ want[t].Size > 0 /\ Aligned(want[t].Size)
    BY <1>0, <1>5 DEF AllocateFirstFit, TypeOK, WholeUnits, Threads
  <2>2. PICK i \in FittingSlots(want[t].Size) : AllocateTake(t, i, want[t].Size)
    BY <1>5 DEF AllocateFirstFit
  <2>3. i \in FreeSlots /\ Blocks[i].Size \in Nat /\ Blocks[i].Size >= want[t].Size
    BY <1>0 DEF FittingSlots, FreeSlots, TypeOK
  <2> QED BY <2>1, <2>2, <2>3, OverlapTake
<1>6. ASSUME NEW t \in Allocators, AllocateLargest(t) PROVE (WholeUnits /\ NoOverlap)'
  <2>1. PICK i \in LargestFreeBlock : AllocateTake(t, i, Blocks[i].Size)
    BY <1>6 DEF AllocateLargest
  <2>2. i \in FreeSlots /\ Whole(Blocks[i])
    BY <1>0 DEF LargestFreeBlock, FreeSlots, WholeUnits
  <2>3. Blocks[i].Size \in Nat /\ 0 < Blocks[i].Size /\ Blocks[i].Size <= Blocks[i].Size
        /\ Aligned(Blocks[i].Size)
    BY <2>2 DEF Whole, Sized
  <2> QED BY <2>1, <2>2, <2>3, OverlapTake
<1>7. ASSUME NEW t \in Allocators, AllocateNoFit(t) PROVE (WholeUnits /\ NoOverlap)'
  BY <1>2, <1>3, <1>7 DEF AllocateNoFit, table
<1>8. ASSUME NEW t \in Allocators, AllocateWake(t) PROVE (WholeUnits /\ NoOverlap)'
  BY <1>2, <1>3, <1>8 DEF AllocateWake, table
<1>9. ASSUME NEW t \in Allocators, NEW r \in held,
             ExtendUpwards(t, r) \/ ExtendDownwards(t, r)
      PROVE  (WholeUnits /\ NoOverlap)'
  BY <1>9, OverlapAbsorb DEF ExtendUpwards, ExtendDownwards
<1>10. ASSUME NEW t \in Freers, NEW r \in held, NEW kept \in 0 .. r.Size - 1,
              FreeEnter(t, r, kept)
       PROVE  (WholeUnits /\ NoOverlap)'
  BY <1>10, OverlapFreeEnter
<1>11. ASSUME NEW t \in Freers, FreeLock(t) PROVE (WholeUnits /\ NoOverlap)'
  <2>1. t \in Threads  BY DEF Threads
  <2>2. Freeing' = Freeing /\ UNCHANGED <<Blocks, held, arg, want>>
    BY <1>0, <1>11, <2>1 DEF FreeLock, Freeing, TypeOK, table
  <2>3. \A u \in Allocators : pc'[u] \in {"allocate", "wait"} => pc[u] = pc'[u]
    BY <1>0, <1>11, <2>1 DEF FreeLock, TypeOK, Threads
  <2> QED BY <1>0, <2>2, <2>3, OverlapElsewhere DEF WholeUnits
<1>12. ASSUME NEW t \in Freers, FreeScan(t) PROVE (WholeUnits /\ NoOverlap)'
  BY <1>12, OverlapFreeScan
<1>13. ASSUME NEW t \in Freers, FreeStore(t) \/ FreeTooMany(t)
       PROVE  (WholeUnits /\ NoOverlap)'
  <2>1. t \in Freeing /\ FreeReturn(t)
    BY <1>13 DEF FreeStore, FreeStoreAt, FreeTooMany, Freeing, Threads
  <2>2. CASE FreeStore(t)
    <3>1. scan[t].Lowest \in Slots
      BY <1>0, <2>1, <2>2 DEF FreeStore, FreeStoreAt, TypeOK, Slots, Freeing
    <3> QED BY <2>1, <2>2, <3>1, OverlapFreeReturn DEF FreeStore, FreeStoreAt
  <2>3. CASE FreeTooMany(t)
    <3>1. 0 \in Slots /\ Blocks' = Blocks  BY <2>3 DEF FreeTooMany, table, Slots
    <3> QED BY <2>1, <3>1, OverlapFreeReturn
  <2> QED BY <1>13, <2>2, <2>3
<1>14. CASE DestroyBegin \/ DestroySignal \/ DestroyEnd \/ Destroyed \/ UNCHANGED vars
  <2>1. UNCHANGED <<Blocks, held, arg, want, pc>>
    BY <1>14 DEF DestroyBegin, DestroySignal, DestroyEnd, Destroyed, vars, table
  <2>2. Freeing' = Freeing  BY <2>1 DEF Freeing
  <2> QED BY <1>0, <2>1, <2>2, OverlapElsewhere DEF WholeUnits
<1> QED BY <1>1, <1>4, <1>5, <1>6, <1>7, <1>8, <1>9, <1>10, <1>11, <1>12, <1>13, <1>14
     DEF Next, AllocateStep, FreeStep

\* No byte of the pool is ever at two places, however many threads allocate,
\* extend and free at once: the stale index of Free loses memory, it never
\* gives the same memory out twice.
THEOREM NeverOverlaps == Spec => []NoOverlap
<1>1. Init => OverlapInv  BY OverlapInit
<1>2. TypeOK' /\ OverlapInv /\ [Next]_vars => OverlapInv'
  BY OverlapStep DEF OverlapInv
<1>3. OverlapInv => NoOverlap  BY DEF OverlapInv
<1> QED BY <1>1, <1>2, <1>3, TypeCorrect, PTL DEF Spec

-----------------------------------------------------------------------------
(***************************************************************************)
(* The table of free blocks: what Free's scan leaves behind it, that free  *)
(* memory is joined as far as the banks go, that no byte is lost, and that *)
(* a blocked allocation sleeps for a reason.                               *)
(***************************************************************************)
\* Region r ends where s begins, inside a bank: they belong together.
Touch(r, s) == End(r) = s.Base /\ ~On64MBBoundary(s.Base)

---------------------------------------------------------------------------
(* The invariant of the table.                                             *)

\* A thread scans the table with the mutex in its hands.
ScansLocked == \A t \in Threads : pc[t] = "freescan" => Lock = t

\* No block is in use above the highest index: the scans see every free block.
AllVisible == \A i \in Slots : Blocks[i].InUse => i <= HighestUsedBlockIndex

\* No two free blocks of a bank touch, during a scan either.
Joined == \A i, j \in Slots :
  Blocks[i].InUse /\ Blocks[j].InUse => ~Touch(Blocks[i], Blocks[j])

\* What the scan has been through: the blocks it left in use are at or below
\* NextHighest, and the region being freed touches none of them.
Scanned == \A t \in Threads :
  /\ pc[t] = "freelock" => scan[t].i = 0
  /\ pc[t] = "freescan" =>
       /\ scan[t].i <= HighestUsedBlockIndex + 1
       /\ \A j \in Slots : j < scan[t].i /\ Blocks[j].InUse =>
            /\ j <= scan[t].NextHighest
            /\ ~Touch(Blocks[j], arg[t]) /\ ~Touch(arg[t], Blocks[j])

TableOK  == ScansLocked /\ AllVisible /\ Joined /\ Scanned
TableInv == OverlapInv /\ TableOK

\* Where the pool begins in its bank.
Offset == PhysicalAddress % BankSize

\* A boundary is where the offset and the pool's place in its bank make up
\* whole banks.
LEMMA Boundaries ==
  ASSUME NEW a \in Nat
  PROVE  On64MBBoundary(a) <=> \E k \in Nat : a + Offset = k * BankSize
<1> DEFINE q == PhysicalAddress \div BankSize
           d == (a + PhysicalAddress) \div BankSize
<1>1. BankSize \in Nat \ {0} /\ PhysicalAddress \in Nat  BY SizesAssumption
<1>2. Offset \in Nat /\ q \in Nat /\ Offset < BankSize /\ PhysicalAddress = q * BankSize + Offset
  BY <1>1 DEF Offset
<1>3. q * BankSize \in Nat  BY <1>1, <1>2
<1>4. ASSUME On64MBBoundary(a) PROVE \E k \in Nat : a + Offset = k * BankSize
  <2>1. d \in Nat /\ a + PhysicalAddress = d * BankSize
    BY <1>1, <1>4 DEF On64MBBoundary
  <2> HIDE DEF d, q
  <2>2. a + Offset = (d - q) * BankSize  BY <1>1, <1>2, <1>3, <2>1
  <2>3. d - q \in Nat
    <3>1. SUFFICES ASSUME d < q PROVE FALSE  BY <1>2, <2>1
    <3>2. (d - q) * BankSize < 0  BY <1>1, <1>2, <2>1, <3>1
    <3> QED BY <1>2, <2>2, <3>2
  <2> QED BY <2>2, <2>3
<1>5. ASSUME NEW k \in Nat, a + Offset = k * BankSize PROVE On64MBBoundary(a)
  <2> HIDE DEF q
  <2>1. a + PhysicalAddress = (k + q) * BankSize /\ k + q \in Nat
    BY <1>1, <1>2, <1>3, <1>5
  <2>2. ((k + q) * BankSize) % BankSize = 0  BY <1>1, <2>1
  <2> QED BY <2>1, <2>2 DEF On64MBBoundary
<1> QED BY <1>4, <1>5

\* Every bank but the first starts on a boundary, and none has one inside.
LEMMA BoundariesOfBanks ==
  ASSUME NEW i \in Nat
  PROVE  /\ i # 0 => On64MBBoundary(BankStart(i))
         /\ \A a \in Nat : BankStart(i) < a /\ a < BankStart(i + 1) => ~On64MBBoundary(a)
<1>1. BankSize \in Nat \ {0} /\ Offset \in Nat /\ Offset < BankSize
  BY AlignedConstants, SizesAssumption DEF Offset
<1>2. /\ \A j \in Nat : BankStart(j) \in Nat
      /\ \A j \in Nat \ {0} : BankStart(j) = j * BankSize - Offset
      /\ \A a \in Nat : On64MBBoundary(a) <=> \E k \in Nat : a + Offset = k * BankSize
  <2>1. \A j \in Nat : BankStart(j) \in Nat  BY BankStarts
  <2>2. \A j \in Nat \ {0} : BankStart(j) = j * BankSize - Offset  BY DEF BankStart, Offset
  <2>3. \A a \in Nat : On64MBBoundary(a) <=> \E k \in Nat : a + Offset = k * BankSize
    BY Boundaries
  <2> QED BY <2>1, <2>2, <2>3
<1>3. ASSUME i # 0 PROVE On64MBBoundary(BankStart(i))
  <2>1. i * BankSize \in Nat /\ BankStart(i) + Offset = i * BankSize  BY <1>1, <1>2, <1>3
  <2> QED BY <1>2, <2>1
<1>4. ASSUME NEW a \in Nat, BankStart(i) < a, a < BankStart(i + 1), On64MBBoundary(a)
      PROVE  FALSE
  <2>1. PICK k \in Nat : a + Offset = k * BankSize  BY <1>2, <1>4
  <2>2. BankStart(i + 1) = (i + 1) * BankSize - Offset /\ BankStart(i + 1) \in Nat  BY <1>2
  <2>3. k * BankSize \in Nat /\ (i + 1) * BankSize \in Nat /\ i * BankSize \in Nat  BY <1>1
  <2>4. k * BankSize < (i + 1) * BankSize  BY <1>1, <1>4, <2>1, <2>2, <2>3
  <2>5. k < i + 1
    <3>1. SUFFICES ASSUME i + 1 <= k PROVE FALSE  OBVIOUS
    <3>2. (i + 1) * BankSize <= k * BankSize  BY <1>1, <3>1
    <3> QED BY <2>3, <2>4, <3>2
  <2>6. k * BankSize <= i * BankSize  BY <1>1, <2>5
  <2>7. CASE i = 0
    <3>1. k = 0 /\ k * BankSize = 0  BY <1>1, <2>5, <2>7
    <3> QED BY <1>1, <1>2, <1>4, <2>1, <3>1
  <2>8. CASE i # 0
    <3>1. BankStart(i) = i * BankSize - Offset  BY <1>2, <2>8
    <3> QED BY <1>1, <1>4, <2>1, <2>3, <2>6, <3>1
  <2> QED BY <2>7, <2>8
<1> QED BY <1>3, <1>4

\* The blocks of an empty pool: each is one bank, or the pool's part of one.
LEMMA BlocksOfBanks ==
  ASSUME NEW i \in Slots, FreeAll[i].InUse
  PROVE  /\ i \in Nat /\ FreeAll[i].Base = BankStart(i) /\ BankStart(i) < BufferSize
         /\ BankStart(i) < End(FreeAll[i])
         /\ End(FreeAll[i]) = Least(BufferSize, BankStart(i + 1))
         /\ End(FreeAll[i]) \in Nat
<1>1. i \in Nat  BY DEF Slots
<1>2. BankStart(i) \in Nat /\ BankStart(i + 1) \in Nat /\ BankStart(i) < BankStart(i + 1)
      /\ BufferSize \in Nat
  BY <1>1, BankStarts, SizesAssumption
<1>3. BankStart(i) < BufferSize  BY DEF FreeAll, NotInUse
<1>4. FreeAll[i] = [InUse |-> TRUE, Base |-> BankStart(i),
                    Size |-> Least(BufferSize, BankStart(i + 1)) - BankStart(i)]
  BY <1>3 DEF FreeAll
<1> QED BY <1>1, <1>2, <1>3, <1>4 DEF End, Least

\* The highest index of an empty pool is that of its last bank.
LEMMA HighestOfBanks ==
  ASSUME NEW h \in FreeAllHighest, NEW i \in Slots, BankStart(i) < BufferSize
  PROVE  i <= h
<1>1. h \in Nat /\ i \in Nat /\ h \in Slots  BY DEF FreeAllHighest, Slots
<1>2. SUFFICES ASSUME h < i PROVE FALSE  BY <1>1
<1>3. h + 1 \in Slots  BY <1>1, <1>2, SizesAssumption DEF Slots
<1>4. BankStart(h + 1) >= BufferSize  BY <1>3 DEF FreeAllHighest
<1>5. BankStart(h + 1) <= BankStart(i) /\ BankStart(h + 1) \in Nat /\ BankStart(i) \in Nat
  BY <1>1, <1>2, BankStarts
<1> QED BY <1>4, <1>5, SizesAssumption

\* The constructor's blocks meet at the boundaries of banks only.
LEMMA TableInit == Init => TableInv
<1> SUFFICES ASSUME Init PROVE TableInv  OBVIOUS
<1>1. AllVisible
  BY BlocksOfBanks, HighestOfBanks DEF Init, AllVisible
<1>2. Joined
  <2> SUFFICES ASSUME NEW i \in Slots, NEW j \in Slots, FreeAll[i].InUse, FreeAll[j].InUse,
                      End(FreeAll[i]) = FreeAll[j].Base
               PROVE  On64MBBoundary(FreeAll[j].Base)
    BY DEF Init, Joined, Touch
  <2>1. FreeAll[j].Base = BankStart(j) /\ j \in Nat  BY BlocksOfBanks
  <2>2. BankStart(i) \in Nat /\ BankStart(i) < FreeAll[j].Base  BY BlocksOfBanks, BankStarts
  <2>3. j # 0  BY <2>1, <2>2 DEF BankStart
  <2> QED BY <2>1, <2>3, BoundariesOfBanks
<1>3. ScansLocked /\ Scanned  BY DEF Init, ScansLocked, Scanned
<1> QED BY <1>1, <1>2, <1>3, OverlapInit DEF TableInv, TableOK

\* The steps that leave the table and the scans alone: an allocation that takes
\* nothing, the destructor.  An aborted one takes the mutex and keeps it.
LEMMA TableElsewhere ==
  ASSUME TableInv, UNCHANGED <<table, arg, scan>>, Lock' = Lock \/ Lock = NoThread,
         \A t \in Threads : pc'[t] \in {"freelock", "freescan"} => pc[t] = pc'[t]
  PROVE  TableOK'
<1>1. NoThread \notin Threads  BY SizesAssumption
<1> QED BY <1>1 DEF TableInv, TableOK, ScansLocked, AllVisible, Joined, Scanned, table

\* A step that takes the whole or the front of a block, with the mutex free:
\* nobody is scanning, and the end of no block moves.
LEMMA TableShrinks ==
  ASSUME TableInv, NEW i \in Slots, Lock = NoThread,
         UNCHANGED <<HighestUsedBlockIndex, Lock, arg, scan>>,
         \A t \in Threads : pc'[t] \in {"freelock", "freescan"} => pc[t] = pc'[t],
         \A j \in Slots : Blocks'[j].InUse =>
           /\ Blocks[j].InUse
           /\ j # i => Blocks'[j] = Blocks[j]
           /\ j = i => /\ Sized(Blocks'[i]) /\ End(Blocks'[i]) = End(Blocks[i])
                       /\ Blocks[i].Base < Blocks'[i].Base /\ Blocks'[i].Size > 0
  PROVE  TableOK'
<1>1. \A t \in Threads : pc'[t] # "freescan"
  BY SizesAssumption DEF TableInv, TableOK, ScansLocked
<1>2. Joined'
  <2> SUFFICES ASSUME NEW j \in Slots, NEW k \in Slots, Blocks'[j].InUse, Blocks'[k].InUse,
                      End(Blocks'[j]) = Blocks'[k].Base, ~On64MBBoundary(Blocks'[k].Base)
               PROVE  FALSE
    BY DEF Joined, Touch
  <2>1. /\ Blocks[j].InUse /\ Blocks[k].InUse /\ Whole(Blocks[j]) /\ Whole(Blocks[k])
        /\ End(Blocks'[j]) = End(Blocks[j])
    BY DEF TableInv, OverlapInv, WholeUnits
  <2>2. ~Touch(Blocks[j], Blocks[k])  BY <2>1 DEF TableInv, TableOK, Joined
  <2>3. k = i  BY <2>1, <2>2 DEF Touch
  <2>4. CASE j = k
    BY <2>1, <2>3, <2>4 DEF Sized, End
  <2>5. CASE j # k
    <3>1. Disjoint(Blocks[j], Blocks[k])
      BY <2>1, <2>5 DEF TableInv, OverlapInv, NoOverlap, FreeFromFree
    <3> QED BY <2>1, <2>3, <2>5, <3>1 DEF Disjoint, Whole, Sized, End
  <2> QED BY <2>4, <2>5
<1>3. AllVisible'  BY DEF TableInv, TableOK, AllVisible
<1>4. ScansLocked' /\ Scanned'
  BY <1>1 DEF TableInv, TableOK, ScansLocked, Scanned
<1> QED BY <1>2, <1>3, <1>4 DEF TableOK

\* Allocate takes the front of a free block: what is left ends where it did.
LEMMA TableTake ==
  ASSUME TableInv, NEW t \in Allocators, NEW i \in FreeSlots, NEW n \in Nat, 0 < n,
         n <= Blocks[i].Size, Lock = NoThread, AllocateTake(t, i, n)
  PROVE  TableOK'
<1> DEFINE c == [InUse |-> TRUE, Base |-> Blocks[i].Base + n, Size |-> Blocks[i].Size - n]
<1>1. i \in Slots /\ Blocks[i].InUse /\ Whole(Blocks[i]) /\ t \in Threads
  BY DEF FreeSlots, TableInv, OverlapInv, WholeUnits, Threads
<1>2. TypeOK  BY DEF TableInv, OverlapInv
<1>3. \A u \in Threads : pc'[u] \in {"freelock", "freescan"} => pc[u] = pc'[u]
  BY <1>1, <1>2 DEF AllocateTake, AllocateReturn, TypeOK
<1>4. Blocks' = [Blocks EXCEPT ![i] = IF Blocks[i].Size = n THEN NotInUse ELSE c]
  BY DEF AllocateTake
<1>5. ASSUME NEW j \in Slots, Blocks'[j].InUse
      PROVE  /\ Blocks[j].InUse
             /\ j # i => Blocks'[j] = Blocks[j]
             /\ j = i => Blocks'[i] = c /\ Blocks[i].Size # n
  BY <1>1, <1>2, <1>4, <1>5 DEF TypeOK, NotInUse
<1>6. Blocks[i].Size # n =>
        /\ Sized(c) /\ End(c) = End(Blocks[i]) /\ Blocks[i].Base < c.Base /\ c.Size > 0
  BY <1>1 DEF Whole, Sized, End
<1>7. UNCHANGED <<HighestUsedBlockIndex, Lock, arg, scan>>  BY DEF AllocateTake
<1> HIDE DEF c
<1> QED BY <1>1, <1>3, <1>5, <1>6, <1>7, TableShrinks

\* ExtendToLargest takes a whole free block out of the table.
LEMMA TableAbsorb ==
  ASSUME TableInv, NEW t \in Allocators, NEW r \in held, NEW i \in FreeSlots,
         Lock = NoThread, Absorb(t, r, i)
  PROVE  TableOK'
<1>1. i \in Slots /\ TypeOK  BY DEF FreeSlots, TableInv, OverlapInv
<1>2. \A j \in Slots : Blocks'[j].InUse => j # i /\ Blocks[j].InUse /\ Blocks'[j] = Blocks[j]
  BY <1>1 DEF Absorb, NotInUse, TypeOK
<1>3. UNCHANGED <<HighestUsedBlockIndex, Lock, arg, scan, pc>>  BY DEF Absorb
<1> QED BY <1>1, <1>2, <1>3, TableShrinks

\* Free starts its scan from block 0, whatever it read before the mutex.
LEMMA TableFreeEnter ==
  ASSUME TableInv, NEW t \in Freers, NEW r \in held, NEW kept \in 0 .. r.Size - 1,
         FreeEnter(t, r, kept)
  PROVE  TableOK'
<1>1. t \in Threads /\ TypeOK  BY DEF Threads, TableInv, OverlapInv
<1>2. pc'[t] = "freelock" /\ scan'[t].i = 0
  BY <1>1 DEF FreeEnter, TypeOK
<1>3. \A u \in Threads : u # t => pc'[u] = pc[u] /\ scan'[u] = scan[u] /\ arg'[u] = arg[u]
  BY <1>1 DEF FreeEnter, TypeOK
<1>4. UNCHANGED <<Blocks, HighestUsedBlockIndex, Lock>>  BY DEF FreeEnter, table
<1> QED BY <1>2, <1>3, <1>4
     DEF TableInv, TableOK, ScansLocked, AllVisible, Joined, Scanned

\* A scan starts when nobody else scans: the mutex was free.
LEMMA TableFreeLock ==
  ASSUME TableInv, NEW t \in Freers, FreeLock(t)
  PROVE  TableOK'
<1>1. t \in Threads /\ TypeOK  BY DEF Threads, TableInv, OverlapInv
<1>2. pc[t] = "freelock" /\ pc'[t] = "freescan" /\ Lock = NoThread /\ Lock' = t
  BY <1>1 DEF FreeLock, TypeOK
<1>3. \A u \in Threads : u # t => pc'[u] = pc[u]
  BY <1>1 DEF FreeLock, TypeOK
<1>4. UNCHANGED <<Blocks, HighestUsedBlockIndex, arg, scan>>  BY DEF FreeLock, table
<1>5. \A u \in Threads : pc[u] # "freescan"
  BY <1>2, SizesAssumption DEF TableInv, TableOK, ScansLocked
<1>6. scan[t].i = 0 /\ HighestUsedBlockIndex \in Nat
  BY <1>1, <1>2 DEF TableInv, TableOK, Scanned, TypeOK, Slots
<1>7. ScansLocked' /\ AllVisible' /\ Joined'
  BY <1>2, <1>3, <1>4, <1>5 DEF TableInv, TableOK, ScansLocked, AllVisible, Joined
<1>8. Scanned'
  <2>1. \A j \in Slots : ~(j < scan[t].i)  BY <1>6 DEF Slots
  <2> QED BY <1>2, <1>3, <1>4, <1>5, <1>6, <2>1 DEF TableInv, TableOK, Scanned
<1> QED BY <1>7, <1>8 DEF TableOK

\* One block of Free's scan.
LEMMA TableFreeScan ==
  ASSUME TableInv, NEW t \in Freers, FreeScan(t)
  PROVE  TableOK'
<1> DEFINE i == scan[t].i
           b == Blocks[i]
           a == arg[t]
           joins == JoinsAbove(a, b) \/ JoinsBelow(a, b)
           join  == Region(Least(a.Base, b.Base), a.Size + b.Size)
<1>1. /\ t \in Threads /\ pc[t] = "freescan" /\ t \in Freeing
      /\ i <= HighestUsedBlockIndex /\ HighestUsedBlockIndex \in Slots
      /\ i \in Nat /\ scan[t].NextHighest \in Nat
      /\ UNCHANGED <<HighestUsedBlockIndex, Lock, pc>>
  BY DEF FreeScan, Threads, Freeing, TableInv, OverlapInv, TypeOK, Slots
<1>2. i \in Slots  BY <1>1, SizesAssumption DEF Slots
<1>3. \A u \in Threads : pc[u] = "freescan" => u = t
  BY <1>1 DEF TableInv, TableOK, ScansLocked
<1>4. \A u \in Threads : u # t => scan'[u] = scan[u]
  BY <1>1 DEF FreeScan, TableInv, OverlapInv, TypeOK
<1>5. /\ scan'[t].i = i + 1
      /\ scan'[t].NextHighest = IF b.InUse /\ ~joins THEN i ELSE scan[t].NextHighest
      /\ arg'[t] = IF joins THEN join ELSE a
      /\ Blocks' = IF joins THEN [Blocks EXCEPT ![i] = NotInUse] ELSE Blocks
  BY <1>1 DEF FreeScan, TableInv, OverlapInv, TypeOK
<1>6. Whole(a)  BY <1>1 DEF TableInv, OverlapInv, WholeUnits
<1>7. \A j \in Slots : j < i /\ Blocks[j].InUse =>
        j <= scan[t].NextHighest /\ ~Touch(Blocks[j], a) /\ ~Touch(a, Blocks[j])
  BY <1>1 DEF TableInv, TableOK, Scanned
<1>8. ScansLocked'  BY <1>1 DEF TableInv, TableOK, ScansLocked
<1>9. SUFFICES /\ AllVisible' /\ Joined'
               /\ \A j \in Slots : j < i + 1 /\ Blocks'[j].InUse =>
                    /\ j <= scan'[t].NextHighest
                    /\ ~Touch(Blocks'[j], arg'[t]) /\ ~Touch(arg'[t], Blocks'[j])
  <2>1. i + 1 <= HighestUsedBlockIndex + 1  BY <1>1 DEF Slots
  <2> QED BY <1>1, <1>3, <1>4, <1>5, <1>8, <1>9, <2>1
          DEF TableInv, TableOK, Scanned
<1>10. CASE ~joins
  <2>1. Blocks' = Blocks /\ arg'[t] = a  BY <1>5, <1>10
  <2>2. AllVisible' /\ Joined'
    BY <1>1, <2>1 DEF TableInv, TableOK, AllVisible, Joined
  <2>3. b.InUse => ~Touch(a, b) /\ ~Touch(b, a)
    BY <1>10 DEF JoinsAbove, JoinsBelow, Touch
  <2> HIDE DEF i, b, a, joins
  <2>4. \A j \in Slots : j < i + 1 => j < i \/ j = i  BY <1>2 DEF Slots
  <2> QED BY <1>1, <1>2, <1>5, <1>7, <1>10, <2>1, <2>2, <2>3, <2>4 DEF Slots, b
<1>11. CASE joins
  <2>1. b.InUse /\ Whole(b)
    BY <1>2, <1>11 DEF JoinsAbove, JoinsBelow, TableInv, OverlapInv, WholeUnits
  <2>2. \/ End(a) = b.Base /\ join.Base = a.Base /\ End(join) = End(b)
        \/ End(b) = a.Base /\ join.Base = b.Base /\ End(join) = End(a)
    BY <1>6, <1>11, <2>1
       DEF JoinsAbove, JoinsBelow, Whole, Sized, Region, End, Least
  <2>3. ASSUME NEW j \in Slots, Blocks'[j].InUse
        PROVE  j # i /\ Blocks[j].InUse /\ Blocks'[j] = Blocks[j]
    BY <1>2, <1>5, <1>11, <2>3 DEF NotInUse, TableInv, OverlapInv, TypeOK
  <2>4. \A j \in Slots : Blocks[j].InUse => ~Touch(Blocks[j], b) /\ ~Touch(b, Blocks[j])
    BY <1>2, <2>1 DEF TableInv, TableOK, Joined
  <2>5. arg'[t] = join /\ scan'[t].NextHighest = scan[t].NextHighest  BY <1>5, <1>11
  <2> HIDE DEF i, b, a, joins, join
  <2>6. AllVisible' /\ Joined'
    BY <1>1, <2>3 DEF TableInv, TableOK, AllVisible, Joined
  <2>7. ASSUME NEW j \in Slots, j < i + 1, Blocks'[j].InUse
        PROVE  /\ j <= scan'[t].NextHighest
               /\ ~Touch(Blocks'[j], join) /\ ~Touch(join, Blocks'[j])
    <3>1. j # i /\ Blocks[j].InUse /\ Blocks'[j] = Blocks[j]  BY <2>3, <2>7
    <3>2. j < i  BY <1>2, <2>7, <3>1 DEF Slots
    <3>3. j <= scan[t].NextHighest /\ ~Touch(Blocks[j], a) /\ ~Touch(a, Blocks[j])
      BY <1>7, <3>1, <3>2
    <3>4. ~Touch(Blocks[j], b) /\ ~Touch(b, Blocks[j])  BY <2>4, <3>1
    <3> QED BY <2>2, <2>5, <3>1, <3>3, <3>4 DEF Touch
  <2> QED BY <2>5, <2>6, <2>7
<1> QED BY <1>10, <1>11

\* The end of Free: the region takes a slot, whatever the slot held, or none.
LEMMA TableFreeReturn ==
  ASSUME TableInv, NEW t \in Freers, pc[t] = "freescan", scan[t].i > HighestUsedBlockIndex,
         FreeReturn(t), NEW l \in Slots,
         \/ UNCHANGED table
         \/ /\ Blocks' = [Blocks EXCEPT ![l] =
                 [InUse |-> TRUE, Base |-> arg[t].Base, Size |-> arg[t].Size]]
            /\ HighestUsedBlockIndex' = Greatest(l, scan[t].NextHighest)
  PROVE  TableOK'
<1> DEFINE a == arg[t]
           c == [InUse |-> TRUE, Base |-> a.Base, Size |-> a.Size]
<1>1. t \in Threads /\ t \in Freeing /\ TypeOK
  BY DEF Threads, Freeing, TableInv, OverlapInv
<1>2. Whole(a)  BY <1>1 DEF TableInv, OverlapInv, WholeUnits
<1>3. \A u \in Threads : pc[u] = "freescan" => u = t
  BY <1>1 DEF TableInv, TableOK, ScansLocked
<1>4. /\ pc'[t] = "idle"
      /\ \A u \in Threads : u # t => pc'[u] = pc[u] /\ scan'[u] = scan[u]
  BY <1>1 DEF FreeReturn, TypeOK
<1>5. ScansLocked' /\ Scanned'
  BY <1>3, <1>4 DEF TableInv, TableOK, ScansLocked, Scanned
<1>6. CASE UNCHANGED table
  BY <1>5, <1>6 DEF TableInv, TableOK, AllVisible, Joined, table
<1>7. CASE /\ Blocks' = [Blocks EXCEPT ![l] = c]
           /\ HighestUsedBlockIndex' = Greatest(l, scan[t].NextHighest)
  <2>1. \A j \in Slots : Blocks[j].InUse =>
          j <= scan[t].NextHighest /\ ~Touch(Blocks[j], a) /\ ~Touch(a, Blocks[j])
    <3>1. \A j \in Slots : Blocks[j].InUse => j < scan[t].i
      BY <1>1 DEF TableInv, TableOK, AllVisible, TypeOK, Slots
    <3> QED BY <1>1, <3>1 DEF TableInv, TableOK, Scanned
  <2>2. Blocks'[l] = c /\ \A j \in Slots : j # l => Blocks'[j] = Blocks[j]
    BY <1>1, <1>7 DEF TypeOK
  <2>3. AllVisible'
    <3>1. scan[t].NextHighest \in Nat /\ \A j \in Slots : j \in Nat
      BY <1>1 DEF TypeOK, Slots
    <3> QED BY <1>7, <2>1, <2>2, <3>1 DEF AllVisible, Greatest
  <2>4. /\ ~Touch(c, c)
        /\ \A x : (~Touch(x, a) => ~Touch(x, c)) /\ (~Touch(a, x) => ~Touch(c, x))
    BY <1>2 DEF Touch, Whole, Sized, End
  <2> HIDE DEF c, a
  <2>5. Joined'
    BY <2>1, <2>2, <2>4 DEF TableInv, TableOK, Joined
  <2> QED BY <1>5, <2>3, <2>5 DEF TableOK
<1> QED BY <1>6, <1>7

\* Every step keeps the table as TableOK has it: one case per action.
LEMMA TableStep ==
  ASSUME TableInv, [Next]_vars
  PROVE  TableOK'
<1>0. TypeOK /\ WholeUnits /\ Allocators \subseteq Threads /\ Freers \subseteq Threads
  BY DEF TableInv, OverlapInv, Threads
<1>1. ASSUME NEW t \in Allocators, NEW n \in Requests,
             NEW largest \in BOOLEAN, NEW nonblocking \in BOOLEAN,
             AllocateEnter(t, n, largest, nonblocking)
      PROVE  TableOK'
  BY <1>0, <1>1, TableElsewhere DEF AllocateEnter, TypeOK
<1>2. ASSUME NEW t \in Allocators, AllocateAborted(t) PROVE TableOK'
  BY <1>0, <1>2, TableElsewhere DEF AllocateAborted, AllocateReturn, TypeOK
<1>3. ASSUME NEW t \in Allocators, AllocateFirstFit(t) PROVE TableOK'
  <2>1. want[t].Size \in Nat /\ want[t].Size > 0
    BY <1>0, <1>3 DEF AllocateFirstFit, TypeOK, WholeUnits
  <2>2. PICK i \in FittingSlots(want[t].Size) : AllocateTake(t, i, want[t].Size)
    BY <1>3 DEF AllocateFirstFit
  <2>3. i \in FreeSlots /\ Blocks[i].Size \in Nat /\ want[t].Size <= Blocks[i].Size
    BY <1>0 DEF FittingSlots, FreeSlots, TypeOK
  <2> QED BY <1>3, <2>1, <2>2, <2>3, TableTake DEF AllocateFirstFit
<1>4. ASSUME NEW t \in Allocators, AllocateLargest(t) PROVE TableOK'
  <2>1. PICK i \in LargestFreeBlock : AllocateTake(t, i, Blocks[i].Size)
    BY <1>4 DEF AllocateLargest
  <2>2. i \in FreeSlots /\ Whole(Blocks[i])
    BY <1>0 DEF LargestFreeBlock, FreeSlots, WholeUnits
  <2>3. Blocks[i].Size \in Nat /\ 0 < Blocks[i].Size /\ Blocks[i].Size <= Blocks[i].Size
    BY <2>2 DEF Whole, Sized
  <2> QED BY <1>4, <2>1, <2>2, <2>3, TableTake DEF AllocateLargest
<1>5. ASSUME NEW t \in Allocators, AllocateNoFit(t) \/ AllocateWake(t) PROVE TableOK'
  <2>1. UNCHANGED <<table, arg, scan, Lock>>  BY <1>5 DEF AllocateNoFit, AllocateWake
  <2>2. \E at \in {"idle", "wait", "allocate"} : pc' = [pc EXCEPT ![t] = at]
    BY <1>5 DEF AllocateNoFit, AllocateWake, AllocateReturn
  <2> QED BY <1>0, <2>1, <2>2, TableElsewhere DEF TypeOK
<1>6. ASSUME NEW t \in Allocators, NEW r \in held,
             ExtendUpwards(t, r) \/ ExtendDownwards(t, r)
      PROVE  TableOK'
  BY <1>6, TableAbsorb DEF ExtendUpwards, ExtendDownwards
<1>7. ASSUME NEW t \in Freers, NEW r \in held, NEW kept \in 0 .. r.Size - 1,
             FreeEnter(t, r, kept)
      PROVE  TableOK'
  BY <1>7, TableFreeEnter
<1>8. ASSUME NEW t \in Freers, FreeLock(t) \/ FreeScan(t) PROVE TableOK'
  BY <1>8, TableFreeLock, TableFreeScan
<1>9. ASSUME NEW t \in Freers, FreeStore(t) PROVE TableOK'
  <2>1. scan[t].Lowest \in Slots
    BY <1>0, <1>9, SizesAssumption DEF FreeStore, FreeStoreAt, TypeOK, Slots
  <2> QED BY <1>9, <2>1, TableFreeReturn DEF FreeStore, FreeStoreAt
<1>10. ASSUME NEW t \in Freers, FreeTooMany(t) PROVE TableOK'
  <2>1. 0 \in Slots  BY SizesAssumption DEF Slots
  <2> QED BY <1>10, <2>1, TableFreeReturn DEF FreeTooMany
<1>11. CASE DestroyBegin \/ DestroySignal \/ DestroyEnd \/ Destroyed \/ UNCHANGED vars
  <2>1. UNCHANGED <<table, arg, scan, Lock, pc>>
    BY <1>11 DEF DestroyBegin, DestroySignal, DestroyEnd, Destroyed, vars
  <2> QED BY <2>1, TableElsewhere
<1> QED BY <1>1, <1>2, <1>3, <1>4, <1>5, <1>6, <1>7, <1>8, <1>9, <1>10, <1>11
     DEF Next, AllocateStep, FreeStep

\* The invariant of the table holds in every behaviour.
LEMMA TableInvariant == Spec => []TableInv
<1>1. TypeOK' /\ TableInv /\ [Next]_vars => TableInv'
  BY TableStep, OverlapStep DEF TableInv, OverlapInv
<1> QED BY <1>1, TableInit, TypeCorrect, PTL DEF Spec

---------------------------------------------------------------------------
(* Joined as far as the banks go, and no further.                          *)

\* No bank starts inside the region.
InBank(r) == \A a \in r.Base + 1 .. End(r) - 1 : ~On64MBBoundary(a)

\* It holds of the regions on their way back too: Free only joins inside a bank.
InBanks ==
  /\ \A i \in Slots : Blocks[i].InUse => InBank(Blocks[i])
  /\ \A r \in held : InBank(r)
  /\ \A t \in Freeing : InBank(arg[t])

\* A part of what is inside a bank is inside a bank.
LEMMA PartInBank ==
  ASSUME NEW r, NEW part, Sized(r), Sized(part), InBank(r),
         r.Base <= part.Base, End(part) <= End(r)
  PROVE  InBank(part)
BY DEF Sized, End, InBank

\* Free joins two regions inside a bank, as it looks for the boundary first.
LEMMA JoinInBank ==
  ASSUME NEW r, NEW s, NEW join, Sized(r), Sized(s), Sized(join), InBank(r), InBank(s),
         Touch(r, s), join.Base = r.Base, End(join) = End(s)
  PROVE  InBank(join)
<1> SUFFICES ASSUME NEW a \in join.Base + 1 .. End(join) - 1 PROVE ~On64MBBoundary(a)
  BY DEF InBank
<1>1. /\ a \in Nat /\ End(r) \in Nat /\ End(s) \in Nat /\ End(r) = s.Base
      /\ r.Base < a /\ a < End(s) /\ r.Base \in Nat
  BY DEF Sized, End, Touch
<1>2. CASE a < s.Base  BY <1>1, <1>2 DEF InBank
<1>3. CASE a = s.Base  BY <1>3 DEF Touch
<1>4. CASE s.Base < a  BY <1>1, <1>4 DEF InBank
<1> QED BY <1>1, <1>2, <1>3, <1>4

\* The constructor cuts the pool at the boundaries of the banks.
LEMMA BanksInit == Init => InBanks
<1> SUFFICES ASSUME Init PROVE InBanks  OBVIOUS
<1>1. ASSUME NEW i \in Slots, FreeAll[i].InUse PROVE InBank(FreeAll[i])
  <2>1. /\ i \in Nat /\ FreeAll[i].Base = BankStart(i) /\ BankStart(i) \in Nat
        /\ End(FreeAll[i]) \in Nat /\ End(FreeAll[i]) <= BankStart(i + 1)
        /\ BankStart(i + 1) \in Nat
    <3>1. i \in Nat /\ i + 1 \in Nat  BY DEF Slots
    <3>2. BankStart(i) \in Nat /\ BankStart(i + 1) \in Nat  BY <3>1, BankStarts
    <3> QED BY <1>1, <3>1, <3>2, BlocksOfBanks, SizesAssumption DEF Least
  <2>2. \A a \in Nat : BankStart(i) < a /\ a < BankStart(i + 1) => ~On64MBBoundary(a)
    BY <2>1, BoundariesOfBanks
  <2> QED BY <2>1, <2>2 DEF InBank
<1> QED BY <1>1 DEF Init, InBanks, Freeing

\* No step makes a block, or a region of a client, that crosses a boundary.
LEMMA BanksStep ==
  ASSUME OverlapInv, InBanks, [Next]_vars
  PROVE  InBanks'
<1>0. /\ TypeOK /\ WholeUnits /\ Allocators \subseteq Threads /\ Freers \subseteq Threads
      /\ Freeing \subseteq Threads
  BY DEF OverlapInv, Threads, Freeing
<1>1. ASSUME NEW t \in Allocators, NEW i \in FreeSlots, NEW n \in Nat, 0 < n,
             n <= Blocks[i].Size, AllocateTake(t, i, n)
      PROVE  InBanks'
  <2> DEFINE b == Blocks[i]
             r == Region(b.Base, n)
             c == [InUse |-> TRUE, Base |-> b.Base + n, Size |-> b.Size - n]
  <2>1. i \in Slots /\ b.InUse /\ Whole(b) /\ InBank(b)
    BY <1>0 DEF FreeSlots, WholeUnits, InBanks
  <2>2. Freeing' \subseteq Freeing /\ UNCHANGED arg /\ held' = held \cup {r}
    BY <1>0, <1>1 DEF AllocateTake, AllocateReturn, Freeing, TypeOK
  <2>3. ASSUME NEW j \in Slots, Blocks'[j].InUse
        PROVE  \/ Blocks[j].InUse /\ Blocks'[j] = Blocks[j]
               \/ Blocks'[j] = c /\ b.Size # n
    BY <1>0, <1>1, <2>1, <2>3 DEF AllocateTake, TypeOK, NotInUse
  <2>4. InBank(r)
    BY <1>1, <2>1, PartInBank DEF Whole, Sized, Region, End
  <2>5. b.Size # n => InBank(c)
    BY <1>1, <2>1, PartInBank DEF Whole, Sized, End
  <2> QED BY <2>2, <2>3, <2>4, <2>5 DEF InBanks
<1>2. ASSUME NEW t \in Allocators, NEW r \in held,
             ExtendUpwards(t, r) \/ ExtendDownwards(t, r)
      PROVE  InBanks'
  <2>1. PICK i \in FreeSlots : Absorb(t, r, i) /\ (Touch(r, Blocks[i]) \/ Touch(Blocks[i], r))
    BY <1>2 DEF ExtendUpwards, ExtendDownwards, Touch
  <2> DEFINE b == Blocks[i]
             join == Region(Least(r.Base, b.Base), r.Size + b.Size)
  <2>2. i \in Slots /\ Whole(b) /\ InBank(b) /\ Whole(r) /\ InBank(r)
    BY <1>0 DEF FreeSlots, WholeUnits, InBanks
  <2>3. held' = (held \ {r}) \cup {join} /\ UNCHANGED arg /\ Freeing' = Freeing
        /\ \A j \in Slots : Blocks'[j].InUse => Blocks[j].InUse /\ Blocks'[j] = Blocks[j]
    BY <1>0, <2>1, <2>2 DEF Absorb, Freeing, TypeOK, NotInUse
  <2>4. Sized(join) /\ \/ Touch(r, b) /\ join.Base = r.Base /\ End(join) = End(b)
                       \/ Touch(b, r) /\ join.Base = b.Base /\ End(join) = End(r)
    BY <2>1, <2>2 DEF Touch, Whole, Sized, Region, Least, End
  <2>5. InBank(join)
    <3> HIDE DEF join, b
    <3> QED BY <2>2, <2>4, JoinInBank DEF Whole
  <2> QED BY <2>3, <2>5 DEF InBanks
<1>3. ASSUME NEW t \in Freers, NEW r \in held, NEW kept \in 0 .. r.Size - 1,
             FreeEnter(t, r, kept)
      PROVE  InBanks'
  <2> DEFINE head == Region(r.Base, kept)
             tail == Region(r.Base + kept, r.Size - kept)
  <2>1. Whole(r) /\ InBank(r) /\ kept \in Nat /\ kept < r.Size
    BY <1>0 DEF WholeUnits, Whole, Sized, InBanks
  <2>2. RoundUp(r.Size - kept) = r.Size - kept /\ r.Size - kept \in Nat
    <3>1. Aligned(kept)  BY <1>3, <2>1, RoundUpAligned DEF FreeEnter
    <3> QED BY <2>1, <3>1, AlignedDifference, RoundUpOfAligned DEF Whole, Sized
  <2>3. /\ held' \subseteq held \cup {head} /\ UNCHANGED Blocks
        /\ Freeing' = Freeing \cup {t}
        /\ arg'[t] = tail /\ \A u \in Threads : u # t => arg'[u] = arg[u]
    BY <1>0, <1>3, <2>2 DEF FreeEnter, table, Freeing, TypeOK
  <2>4. InBank(head) /\ InBank(tail)
    BY <2>1, <2>2, PartInBank DEF Whole, Sized, Region, End
  <2> QED BY <1>0, <2>3, <2>4 DEF InBanks
<1>4. ASSUME NEW t \in Freers, FreeScan(t) PROVE InBanks'
  <2> DEFINE i == scan[t].i
             b == Blocks[i]
             a == arg[t]
             joins == JoinsAbove(a, b) \/ JoinsBelow(a, b)
             join  == Region(Least(a.Base, b.Base), a.Size + b.Size)
  <2>1. t \in Freeing /\ Freeing' = Freeing /\ UNCHANGED held /\ Whole(a) /\ InBank(a)
    BY <1>0, <1>4 DEF FreeScan, Freeing, WholeUnits, InBanks
  <2>2. i \in Slots
    <3>1. i \in 0 .. MaxBlocks /\ HighestUsedBlockIndex \in Slots /\ i <= HighestUsedBlockIndex
      BY <1>0, <1>4 DEF FreeScan, TypeOK
    <3> QED BY <3>1, SizesAssumption DEF Slots
  <2>3. /\ arg'[t] = IF joins THEN join ELSE a
        /\ \A u \in Threads : u # t => arg'[u] = arg[u]
        /\ \A j \in Slots : Blocks'[j].InUse => Blocks[j].InUse /\ Blocks'[j] = Blocks[j]
    BY <1>0, <1>4, <2>2 DEF FreeScan, TypeOK, NotInUse
  <2>4. CASE ~joins  BY <1>0, <2>1, <2>3, <2>4 DEF InBanks
  <2>5. CASE joins
    <3>1. Whole(b) /\ InBank(b)
      BY <1>0, <2>2, <2>5 DEF JoinsAbove, JoinsBelow, WholeUnits, InBanks
    <3>2. Sized(join) /\ \/ Touch(a, b) /\ join.Base = a.Base /\ End(join) = End(b)
                         \/ Touch(b, a) /\ join.Base = b.Base /\ End(join) = End(a)
      BY <2>1, <2>5, <3>1
         DEF JoinsAbove, JoinsBelow, Touch, Whole, Sized, Region, Least, End
    <3>3. InBank(join)
      <4> HIDE DEF join, b, a
      <4> QED BY <2>1, <3>1, <3>2, JoinInBank DEF Whole
    <3> QED BY <1>0, <2>1, <2>3, <2>5, <3>3 DEF InBanks
  <2> QED BY <2>4, <2>5
<1>5. ASSUME NEW t \in Freers, FreeStore(t) \/ FreeTooMany(t) PROVE InBanks'
  <2> DEFINE c == [InUse |-> TRUE, Base |-> arg[t].Base, Size |-> arg[t].Size]
  <2>1. /\ t \in Freeing /\ Freeing' \subseteq Freeing /\ UNCHANGED held
        /\ \A u \in Freeing' : arg'[u] = arg[u]
    BY <1>0, <1>5
       DEF FreeStore, FreeStoreAt, FreeTooMany, FreeReturn, Freeing, TypeOK
  <2>2. \A j \in Slots : Blocks'[j] = c \/ Blocks'[j] = Blocks[j]
    BY <1>0, <1>5 DEF FreeStore, FreeStoreAt, FreeTooMany, table, TypeOK
  <2>3. InBank(c)  BY <2>1 DEF InBanks, InBank, End
  <2> QED BY <2>1, <2>2, <2>3 DEF InBanks
<1>6. ASSUME UNCHANGED <<Blocks, held, arg>>, Freeing' \subseteq Freeing PROVE InBanks'
  BY <1>6 DEF InBanks
<1>7. ASSUME NEW t \in Allocators, AllocateFirstFit(t) PROVE InBanks'
  <2>1. PICK i \in FittingSlots(want[t].Size) : AllocateTake(t, i, want[t].Size)
    BY <1>7 DEF AllocateFirstFit
  <2>2. i \in FreeSlots /\ want[t].Size <= Blocks[i].Size
        /\ want[t].Size \in Nat /\ want[t].Size > 0
    BY <1>0, <1>7 DEF AllocateFirstFit, FittingSlots, FreeSlots, TypeOK, WholeUnits
  <2> QED BY <1>1, <2>1, <2>2
<1>8. ASSUME NEW t \in Allocators, AllocateLargest(t) PROVE InBanks'
  <2>1. PICK i \in LargestFreeBlock : AllocateTake(t, i, Blocks[i].Size)
    BY <1>8 DEF AllocateLargest
  <2>2. i \in FreeSlots /\ Whole(Blocks[i])
    BY <1>0 DEF LargestFreeBlock, FreeSlots, WholeUnits
  <2> QED BY <1>1, <2>1, <2>2 DEF Whole, Sized
<1>9. ASSUME NEW t \in Allocators, NEW n \in Requests,
             NEW largest \in BOOLEAN, NEW nonblocking \in BOOLEAN,
             AllocateEnter(t, n, largest, nonblocking)
      PROVE  InBanks'
  BY <1>0, <1>6, <1>9 DEF AllocateEnter, table, Freeing, TypeOK
<1>10. ASSUME NEW t \in Allocators, AllocateAborted(t) \/ AllocateNoFit(t) \/ AllocateWake(t)
       PROVE  InBanks'
  <2>1. UNCHANGED <<Blocks, held, arg>>
    BY <1>10 DEF AllocateAborted, AllocateNoFit, AllocateWake, table
  <2>2. \E at \in {"idle", "wait", "allocate"} : pc' = [pc EXCEPT ![t] = at]
    BY <1>10 DEF AllocateAborted, AllocateNoFit, AllocateWake, AllocateReturn
  <2> QED BY <1>0, <1>6, <2>1, <2>2 DEF Freeing, TypeOK
<1>11. ASSUME NEW t \in Freers, FreeLock(t) PROVE InBanks'
  BY <1>0, <1>6, <1>11 DEF FreeLock, table, Freeing, TypeOK
<1>12. CASE DestroyBegin \/ DestroySignal \/ DestroyEnd \/ Destroyed \/ UNCHANGED vars
  BY <1>6, <1>12 DEF DestroyBegin, DestroySignal, DestroyEnd, Destroyed, vars, table, Freeing
<1> QED BY <1>2, <1>3, <1>4, <1>5, <1>7, <1>8, <1>9, <1>10, <1>11, <1>12
     DEF Next, AllocateStep, FreeStep

\* Whatever is allocated, extended and freed, by however many threads: between
\* two critical sections no two free blocks of a bank touch, and no block, free
\* or handed out, crosses a 64MB boundary.
THEOREM AlwaysWholeInBank == Spec => []WholeInBank
<1>1. TableInv /\ InBanks => WholeInBank
  <2> SUFFICES ASSUME TableInv, InBanks PROVE WholeInBank  OBVIOUS
  <2>1. Coalesced
    BY DEF TableInv, TableOK, Joined, Touch, Coalesced, FreeSlots
  <2>2. WithinBank  BY DEF InBanks, InBank, WithinBank, FreeSlots
  <2> QED BY <2>1, <2>2 DEF WholeInBank
<1>2. TableInv /\ InBanks /\ [Next]_vars => InBanks'
  BY BanksStep DEF TableInv
<1> QED BY <1>1, <1>2, BanksInit, TableInvariant, PTL DEF Spec

---------------------------------------------------------------------------
(* No byte lost, with one thread that frees.                               *)

\* Two concurrent frees do lose memory: the second stores at an index the first
\* has made stale.  An allocation and an extension never move the index.
OneFreer == \A t, u \in Freers : t = u

\* The table has a block for every bank of the pool (256 of 64MB in the code).
TableHoldsPool == BufferSize <= BankStart(MaxBlocks)

\* The slot the region would go into, as far as the scan has come, is in use by
\* no other block.
SlotFree == \A t \in Freers :
  /\ pc[t] \in {"freelock", "freescan"} => scan[t].Lowest <= HighestUsedBlockIndex + 1
  /\ pc[t] = "freelock" => scan[t].Lowest = HighestUsedBlockIndex + 1
  /\ pc[t] = "freescan" /\ scan[t].Lowest # MaxBlocks => ~Blocks[scan[t].Lowest].InUse

In(a, r) == r.Base <= a /\ a < End(r)

\* The byte is in a block, with a client, on its way back, or reported.
Somewhere(a) ==
  \/ \E i \in Slots : Blocks[i].InUse /\ In(a, Blocks[i])
  \/ \E r \in held \cup tooMany : In(a, r)
  \/ \E t \in Freeing : In(a, arg[t])

Kept == \A a \in 0 .. BufferSize - 1 : Somewhere(a)

LostInv == TableInv /\ SlotFree /\ Kept

\* What the prover needs to know of quotient and remainder.
LEMMA WholeBanks ==
  ASSUME NEW x \in Nat, NEW d \in Nat \ {0}
  PROVE  x \div d \in Nat /\ x = (x \div d) * d + (x % d) /\ x % d \in 0 .. d - 1
OBVIOUS

\* The bank an address is in.
LEMMA BankOf ==
  ASSUME NEW a \in Nat
  PROVE  \E i \in Nat : BankStart(i) <= a /\ a < BankStart(i + 1)
<1> DEFINE i == (a + Offset) \div BankSize
<1>1. BankSize \in Nat \ {0} /\ Offset \in Nat /\ Offset < BankSize
  BY AlignedConstants, SizesAssumption DEF Offset
<1>2. i \in Nat /\ i * BankSize <= a + Offset /\ a + Offset < (i + 1) * BankSize
  <2> DEFINE x == a + Offset
  <2>1. x \in Nat  BY <1>1
  <2>2. i \in Nat /\ x = i * BankSize + (x % BankSize) /\ x % BankSize \in 0 .. BankSize - 1
    BY <1>1, <2>1, WholeBanks
  <2> HIDE DEF i, x
  <2>3. (i + 1) * BankSize = i * BankSize + BankSize /\ i * BankSize \in Nat
    BY <1>1, <2>2
  <2> QED BY <1>1, <2>1, <2>2, <2>3 DEF x
<1> HIDE DEF i
<1>3. BankStart(i + 1) = (i + 1) * BankSize - Offset  BY <1>2 DEF BankStart, Offset
<1>4. BankStart(i) = IF i = 0 THEN 0 ELSE i * BankSize - Offset  BY DEF BankStart, Offset
<1>5. i * BankSize \in Nat /\ (i + 1) * BankSize \in Nat  BY <1>1, <1>2
<1> QED BY <1>1, <1>2, <1>3, <1>4, <1>5

\* The constructor puts every byte of the pool into the table, if the table can hold
\* as many banks as the pool has.
LEMMA LostInit ==
  ASSUME TableHoldsPool, Init PROVE LostInv
<1>1. ASSUME NEW a \in 0 .. BufferSize - 1
      PROVE  \E i \in Slots : Blocks[i].InUse /\ In(a, Blocks[i])
  <2>1. a \in Nat /\ a < BufferSize /\ BufferSize \in Nat  BY SizesAssumption
  <2>2. PICK i \in Nat : BankStart(i) <= a /\ a < BankStart(i + 1)  BY <2>1, BankOf
  <2>3. BankStart(i) \in Nat /\ BankStart(i + 1) \in Nat /\ BankStart(MaxBlocks) \in Nat
    BY BankStarts, SizesAssumption
  <2>4. i \in Slots
    <3>1. SUFFICES ASSUME MaxBlocks <= i PROVE FALSE  BY SizesAssumption DEF Slots
    <3>2. BankStart(MaxBlocks) <= BankStart(i)
      <4>1. CASE MaxBlocks = i  BY <2>3, <4>1
      <4>2. CASE MaxBlocks < i
        <5>1. MaxBlocks \in Nat /\ MaxBlocks + 1 \in Nat  BY SizesAssumption
        <5>2. BankStart(MaxBlocks + 1) \in Nat  BY <5>1, BankStarts
        <5>3. BankStart(MaxBlocks) < BankStart(MaxBlocks + 1)  BY <5>1, BankStarts
        <5>4. BankStart(MaxBlocks + 1) <= BankStart(i)  BY <4>2, <5>1, BankStarts
        <5> QED BY <2>3, <5>2, <5>3, <5>4
      <4> QED BY <3>1, <4>1, <4>2, SizesAssumption
    <3> QED BY <2>1, <2>2, <2>3, <3>2 DEF TableHoldsPool
  <2>5. FreeAll[i].InUse  BY <2>1, <2>2, <2>3, <2>4 DEF FreeAll
  <2>6. FreeAll[i].Base = BankStart(i) /\ End(FreeAll[i]) = Least(BufferSize, BankStart(i + 1))
    BY <2>4, <2>5, BlocksOfBanks
  <2> QED BY <2>1, <2>2, <2>3, <2>4, <2>5, <2>6 DEF Init, In, Least
<1>2. SlotFree  BY DEF Init, SlotFree, Threads
<1> QED BY <1>1, <1>2, TableInit DEF LostInv, Kept, Somewhere

\* A step loses nothing when each region that held a byte leaves it somewhere.
LEMMA KeptAcross ==
  ASSUME Kept, NEW a \in 0 .. BufferSize - 1,
         \A i \in Slots : Blocks[i].InUse /\ In(a, Blocks[i]) => Somewhere(a)',
         \A r \in held \cup tooMany : In(a, r) => Somewhere(a)',
         \A t \in Freeing : In(a, arg[t]) => Somewhere(a)'
  PROVE  Somewhere(a)'
BY DEF Kept, Somewhere

\* Where the regions are after a step.
LEMMA SomewhereNow ==
  ASSUME NEW a
  PROVE  /\ \A i \in Slots : Blocks'[i].InUse /\ In(a, Blocks'[i]) => Somewhere(a)'
         /\ \A r \in held' \cup tooMany' : In(a, r) => Somewhere(a)'
         /\ \A t \in Freeing' : In(a, arg'[t]) => Somewhere(a)'
BY DEF Somewhere, In, End

\* No step but those of Free moves the index or a scan, or fills a slot.
LEMMA SlotElsewhere ==
  ASSUME SlotFree, UNCHANGED <<HighestUsedBlockIndex, scan>>, TypeOK,
         \A t \in Freers : pc'[t] \in {"freelock", "freescan"} => pc[t] = pc'[t],
         \A j \in Slots : Blocks'[j].InUse => Blocks[j].InUse
  PROVE  SlotFree'
<1> SUFFICES ASSUME NEW t \in Freers, pc'[t] = "freescan", scan[t].Lowest # MaxBlocks
             PROVE  ~Blocks'[scan[t].Lowest].InUse
  BY DEF SlotFree
<1>1. scan[t].Lowest \in 0 .. MaxBlocks  BY DEF TypeOK, Threads
<1>2. scan[t].Lowest \in Slots  BY <1>1, SizesAssumption DEF Slots
<1> QED BY <1>2 DEF SlotFree

\* Allocate hands out the front of a block and keeps the rest in the table.
LEMMA LostTake ==
  ASSUME LostInv, NEW t \in Allocators, NEW i \in FreeSlots, NEW n \in Nat,
         n <= Blocks[i].Size, pc[t] = "allocate", AllocateTake(t, i, n)
  PROVE  (SlotFree /\ Kept)'
<1> DEFINE b == Blocks[i]
           r == Region(b.Base, n)
           c == [InUse |-> TRUE, Base |-> b.Base + n, Size |-> b.Size - n]
<1>1. i \in Slots /\ b.InUse /\ Whole(b) /\ t \in Threads /\ TypeOK
  BY DEF FreeSlots, LostInv, TableInv, OverlapInv, WholeUnits, Threads
<1>2. /\ held' = held \cup {r} /\ UNCHANGED <<arg, tooMany, HighestUsedBlockIndex, scan>>
      /\ \A u \in Threads : pc'[u] \in {"freelock", "freescan"} => pc[u] = pc'[u]
      /\ Freeing' = Freeing
  BY <1>1 DEF AllocateTake, AllocateReturn, TypeOK, Freeing
<1>3. /\ \A j \in Slots : j # i => Blocks'[j] = Blocks[j]
      /\ Blocks'[i] = IF b.Size = n THEN NotInUse ELSE c
  BY <1>1 DEF AllocateTake, TypeOK
<1>4. SlotFree'
  <2>1. \A j \in Slots : Blocks'[j].InUse => Blocks[j].InUse  BY <1>1, <1>3
  <2> QED BY <1>1, <1>2, <2>1, SlotElsewhere DEF LostInv, Threads
<1>5. ASSUME NEW a \in 0 .. BufferSize - 1 PROVE Somewhere(a)'
  <2>1. ASSUME In(a, b) PROVE In(a, r) \/ (b.Size # n /\ In(a, c))
    <3>1. /\ a \in Nat /\ b.Base \in Nat /\ b.Size \in Nat
          /\ b.Base <= a /\ a < b.Base + b.Size
      BY <1>1, <2>1, SizesAssumption DEF In, End, Whole, Sized
    <3>2. (b.Base <= a /\ a < b.Base + n) => In(a, r)  BY <3>1 DEF In, End, Region
    <3>3. (b.Base + n <= a /\ a < b.Base + n + (b.Size - n)) => In(a, c)
      BY <3>1 DEF In, End
    <3> QED BY <3>1, <3>2, <3>3
  <2>2. In(a, b) => Somewhere(a)'
    <3> HIDE DEF b, r
    <3>1. In(a, c) /\ b.Size # n => Blocks'[i].InUse /\ In(a, Blocks'[i])  BY <1>3
    <3> HIDE DEF c
    <3> QED BY <1>1, <1>2, <2>1, <3>1, SomewhereNow
  <2> HIDE DEF b, c, r
  <2>3. \A j \in Slots : Blocks[j].InUse /\ In(a, Blocks[j]) => Somewhere(a)'
    BY <1>3, <2>2, SomewhereNow DEF b
  <2>4. /\ \A x \in held \cup tooMany : In(a, x) => Somewhere(a)'
        /\ \A u \in Freeing : In(a, arg[u]) => Somewhere(a)'
    BY <1>2, SomewhereNow
  <2> QED BY <2>3, <2>4, KeptAcross DEF LostInv
<1> QED BY <1>4, <1>5 DEF Kept

\* ExtendToLargest hands the block it takes to the caller.
LEMMA LostAbsorb ==
  ASSUME LostInv, NEW t \in Allocators, NEW r \in held, NEW i \in FreeSlots,
         Blocks[i].Base = End(r) \/ End(Blocks[i]) = r.Base, Absorb(t, r, i)
  PROVE  (SlotFree /\ Kept)'
<1> DEFINE b == Blocks[i]
           join == Region(Least(r.Base, b.Base), r.Size + b.Size)
<1>1. i \in Slots /\ b.InUse /\ Whole(b) /\ Whole(r) /\ TypeOK
  BY DEF FreeSlots, LostInv, TableInv, OverlapInv, WholeUnits
<1>2. /\ held' = (held \ {r}) \cup {join} /\ Freeing' = Freeing
      /\ UNCHANGED <<arg, tooMany, HighestUsedBlockIndex, scan, pc>>
  BY DEF Absorb, Freeing
<1>3. \A j \in Slots : j # i => Blocks'[j] = Blocks[j]
  BY <1>1 DEF Absorb, TypeOK
<1>4. SlotFree'
  <2>1. \A j \in Slots : Blocks'[j].InUse => Blocks[j].InUse  BY <1>1, <1>3
  <2> QED BY <1>1, <1>2, <2>1, SlotElsewhere DEF LostInv
<1>5. ASSUME NEW a \in 0 .. BufferSize - 1 PROVE Somewhere(a)'
  <2>1. In(a, b) \/ In(a, r) => In(a, join)
    BY <1>1, SizesAssumption DEF In, End, Region, Least, Whole, Sized
  <2> HIDE DEF b, join
  <2>2. In(a, b) \/ In(a, r) => Somewhere(a)'  BY <1>2, <2>1, SomewhereNow
  <2>3. \A j \in Slots : Blocks[j].InUse /\ In(a, Blocks[j]) => Somewhere(a)'
    BY <1>3, <2>2, SomewhereNow DEF b
  <2>4. /\ \A x \in held \cup tooMany : In(a, x) => Somewhere(a)'
        /\ \A u \in Freeing : In(a, arg[u]) => Somewhere(a)'
    BY <1>2, <2>2, SomewhereNow
  <2> QED BY <2>3, <2>4, KeptAcross DEF LostInv
<1> QED BY <1>4, <1>5 DEF Kept

\* Free splits a region into what the caller keeps and what is on its way back.
LEMMA LostFreeEnter ==
  ASSUME LostInv, NEW t \in Freers, NEW r \in held, NEW kept \in 0 .. r.Size - 1,
         FreeEnter(t, r, kept)
  PROVE  (SlotFree /\ Kept)'
<1> DEFINE head == Region(r.Base, kept)
           tail == Region(r.Base + kept, RoundUp(r.Size - kept))
<1>1. /\ Whole(r) /\ t \in Threads /\ TypeOK /\ t \notin Freeing
      /\ kept \in Nat /\ kept < r.Size /\ r.Size - kept \in Nat
  BY DEF LostInv, TableInv, OverlapInv, WholeUnits, Threads, Whole, Sized, Freeing, FreeEnter
<1>2. /\ held' = (held \ {r}) \cup (IF kept = 0 THEN {} ELSE {head})
      /\ Freeing' = Freeing \cup {t} /\ arg'[t] = tail
      /\ \A u \in Threads : u # t => arg'[u] = arg[u] /\ pc'[u] = pc[u] /\ scan'[u] = scan[u]
      /\ pc'[t] = "freelock" /\ scan'[t].Lowest = HighestUsedBlockIndex + 1
      /\ UNCHANGED <<Blocks, tooMany, HighestUsedBlockIndex>>
  BY <1>1 DEF FreeEnter, Freeing, TypeOK, table
<1>3. SlotFree'
  <2>1. HighestUsedBlockIndex \in Nat /\ Freers \subseteq Threads  BY <1>1 DEF TypeOK, Slots, Threads
  <2> QED BY <1>2, <2>1 DEF LostInv, SlotFree
<1>4. ASSUME NEW a \in 0 .. BufferSize - 1 PROVE Somewhere(a)'
  <2>1. ASSUME In(a, r) PROVE (kept # 0 /\ In(a, head)) \/ In(a, tail)
    <3>1. RoundUp(r.Size - kept) \in Nat /\ r.Size - kept <= RoundUp(r.Size - kept)
      BY <1>1, RoundUpAligned
    <3> QED BY <1>1, <2>1, <3>1, SizesAssumption DEF In, End, Region, Whole, Sized
  <2> HIDE DEF head, tail
  <2>2. In(a, r) => Somewhere(a)'  BY <1>2, <2>1, SomewhereNow
  <2>3. /\ \A j \in Slots : Blocks[j].InUse /\ In(a, Blocks[j]) => Somewhere(a)'
        /\ \A x \in held \cup tooMany : In(a, x) => Somewhere(a)'
    BY <1>2, <2>2, SomewhereNow
  <2>4. \A u \in Freeing : In(a, arg[u]) => Somewhere(a)'
    BY <1>1, <1>2, SomewhereNow DEF Freeing
  <2> QED BY <2>3, <2>4, KeptAcross DEF LostInv
<1> QED BY <1>3, <1>4 DEF Kept

\* A block that the scan takes out of the table is joined to what is on its way back;
\* a slot the scan has found to be the lowest unused one stays unused.
LEMMA LostFreeScan ==
  ASSUME LostInv, NEW t \in Freers, FreeScan(t)
  PROVE  (SlotFree /\ Kept)'
<1> DEFINE i == scan[t].i
           b == Blocks[i]
           g == arg[t]
           joins == JoinsAbove(g, b) \/ JoinsBelow(g, b)
           join  == Region(Least(g.Base, b.Base), g.Size + b.Size)
<1>1. /\ t \in Threads /\ TypeOK /\ WholeUnits /\ pc[t] = "freescan" /\ t \in Freeing
      /\ Whole(g) /\ i \in Nat /\ HighestUsedBlockIndex \in Slots /\ i <= HighestUsedBlockIndex
      /\ UNCHANGED <<held, tooMany, pc, HighestUsedBlockIndex>> /\ Freeing' = Freeing
  BY DEF LostInv, TableInv, OverlapInv, WholeUnits, TypeOK, Threads, Freeing, FreeScan
<1>2. i \in Slots  BY <1>1, SizesAssumption DEF Slots
<1>3. /\ \A u \in Threads : u # t => arg'[u] = arg[u] /\ scan'[u] = scan[u]
      /\ arg'[t] = IF joins THEN join ELSE g
      /\ scan'[t].Lowest = IF b.InUse /\ ~joins THEN scan[t].Lowest
                           ELSE Least(scan[t].Lowest, i)
      /\ \A j \in Slots : j # i => Blocks'[j] = Blocks[j]
      /\ Blocks'[i] = IF joins THEN NotInUse ELSE b
  BY <1>1, <1>2 DEF FreeScan, TypeOK
<1>4. joins => b.InUse /\ Whole(b) /\ (End(g) = b.Base \/ End(b) = g.Base)
  BY <1>1, <1>2 DEF JoinsAbove, JoinsBelow, WholeUnits
<1>5. SlotFree'
  <2>1. \A u \in Freers : u # t => pc[u] # "freescan"
    BY <1>1 DEF LostInv, TableInv, TableOK, ScansLocked, Threads
  <2>2. /\ scan[t].Lowest <= HighestUsedBlockIndex + 1
        /\ scan[t].Lowest # MaxBlocks => ~Blocks[scan[t].Lowest].InUse
        /\ scan[t].Lowest \in 0 .. MaxBlocks
    BY <1>1 DEF LostInv, SlotFree, TypeOK
  <2>3. ~(b.InUse /\ ~joins) => ~Blocks'[i].InUse  BY <1>3 DEF NotInUse
  <2> HIDE DEF i, b, g, joins, join
  <2>4. /\ scan'[t].Lowest <= HighestUsedBlockIndex + 1
        /\ scan'[t].Lowest # MaxBlocks => ~Blocks'[scan'[t].Lowest].InUse
    <3>1. scan[t].Lowest # MaxBlocks => ~Blocks'[scan[t].Lowest].InUse
      <4> SUFFICES ASSUME scan[t].Lowest # MaxBlocks PROVE ~Blocks'[scan[t].Lowest].InUse
        OBVIOUS
      <4>1. scan[t].Lowest \in Slots  BY <2>2, SizesAssumption DEF Slots
      <4> QED BY <1>3, <2>2, <4>1 DEF NotInUse, b
    <3> QED BY <1>1, <1>3, <2>2, <2>3, <3>1 DEF Least, Slots
  <2> QED BY <1>1, <1>3, <2>1, <2>4 DEF LostInv, SlotFree, Threads
<1>6. ASSUME NEW a \in 0 .. BufferSize - 1 PROVE Somewhere(a)'
  <2>1. joins /\ (In(a, b) \/ In(a, g)) => In(a, join)
    BY <1>1, <1>4, SizesAssumption DEF In, End, Region, Least, Whole, Sized
  <2> HIDE DEF i, b, g, joins, join
  <2>2. In(a, g) => Somewhere(a)'  BY <1>1, <1>3, <2>1, SomewhereNow
  <2>3. b.InUse /\ In(a, b) => Somewhere(a)'  BY <1>1, <1>2, <1>3, <2>1, SomewhereNow
  <2>4. /\ \A j \in Slots : Blocks[j].InUse /\ In(a, Blocks[j]) => Somewhere(a)'
        /\ \A x \in held \cup tooMany : In(a, x) => Somewhere(a)'
    BY <1>1, <1>3, <2>3, SomewhereNow DEF b
  <2>5. \A u \in Freeing : In(a, arg[u]) => Somewhere(a)'
    BY <1>1, <1>3, <2>2, SomewhereNow DEF Freeing, g
  <2> QED BY <2>4, <2>5, KeptAcross DEF LostInv
<1> QED BY <1>5, <1>6 DEF Kept

\* With one thread that frees, the slot Free has found is still out of use.
LEMMA LostFreeReturn ==
  ASSUME OneFreer, LostInv, NEW t \in Freers, FreeStore(t) \/ FreeTooMany(t)
  PROVE  (SlotFree /\ Kept)'
<1> DEFINE l == scan[t].Lowest
           c == [InUse |-> TRUE, Base |-> arg[t].Base, Size |-> arg[t].Size]
<1>1. /\ t \in Threads /\ TypeOK /\ t \in Freeing /\ pc[t] = "freescan" /\ FreeReturn(t)
  BY DEF FreeStore, FreeStoreAt, FreeTooMany, LostInv, TableInv, OverlapInv, Threads, Freeing
<1>2. /\ pc'[t] = "idle" /\ held' = held /\ Freeing' = Freeing \ {t}
      /\ \A u \in Freeing : u # t => arg'[u] = arg[u]
  BY <1>1 DEF FreeReturn, TypeOK, Freeing
<1>3. SlotFree'  BY <1>2 DEF SlotFree, OneFreer
<1>4. \/ Blocks' = Blocks /\ tooMany' = tooMany \cup {arg[t]}
      \/ /\ l \in Slots /\ ~Blocks[l].InUse /\ UNCHANGED tooMany
         /\ Blocks' = [Blocks EXCEPT ![l] = c]
  <2>1. CASE FreeTooMany(t)  BY <2>1 DEF FreeTooMany, table
  <2>2. CASE FreeStore(t)
    <3>1. l \in Slots
      BY <1>1, <2>2, SizesAssumption DEF FreeStore, FreeStoreAt, TypeOK, Slots
    <3>2. ~Blocks[l].InUse
      BY <1>1, <2>2 DEF FreeStore, FreeStoreAt, LostInv, SlotFree
    <3> QED BY <2>2, <3>1, <3>2 DEF FreeStore, FreeStoreAt
  <2> QED BY <2>1, <2>2
<1>5. ASSUME NEW a \in 0 .. BufferSize - 1 PROVE Somewhere(a)'
  <2>1. \A j \in Slots : Blocks[j].InUse => Blocks'[j] = Blocks[j]
    BY <1>1, <1>4 DEF TypeOK
  <2>2. In(a, arg[t]) => Somewhere(a)'
    <3>1. CASE Blocks' = Blocks /\ tooMany' = tooMany \cup {arg[t]}
      BY <3>1, SomewhereNow
    <3>2. CASE l \in Slots /\ Blocks' = [Blocks EXCEPT ![l] = c]
      <4>1. Blocks'[l] = c /\ Blocks'[l].InUse  BY <1>1, <3>2 DEF TypeOK
      <4>2. In(a, arg[t]) => In(a, c)  BY DEF In, End
      <4> QED BY <3>2, <4>1, <4>2, SomewhereNow
    <3> QED BY <1>4, <3>1, <3>2
  <2>3. /\ \A j \in Slots : Blocks[j].InUse /\ In(a, Blocks[j]) => Somewhere(a)'
        /\ \A x \in held \cup tooMany : In(a, x) => Somewhere(a)'
    BY <1>2, <1>4, <2>1, SomewhereNow
  <2>4. \A u \in Freeing : In(a, arg[u]) => Somewhere(a)'
    BY <1>2, <2>2, SomewhereNow
  <2> QED BY <2>3, <2>4, KeptAcross DEF LostInv
<1> QED BY <1>3, <1>5 DEF Kept

\* A step that moves no memory and starts no scan with a stale index loses nothing.
LEMMA LostElsewhere ==
  ASSUME LostInv, UNCHANGED <<table, held, arg, scan, tooMany>>,
         \A u \in Threads : (pc'[u] \in {"freelock", "freescan"}) <=>
                            (pc[u] \in {"freelock", "freescan"}),
         \A u \in Threads : pc'[u] = "freelock" => pc[u] = "freelock",
         \A u \in Threads : pc[u] = "freelock" /\ pc'[u] = "freescan" =>
           scan[u].Lowest = HighestUsedBlockIndex + 1
  PROVE  (SlotFree /\ Kept)'
<1>1. TypeOK /\ AllVisible  BY DEF LostInv, TableInv, OverlapInv, TableOK
<1>2. SlotFree'
  <2> SUFFICES ASSUME NEW t \in Freers, pc'[t] = "freescan", scan[t].Lowest # MaxBlocks
               PROVE  ~Blocks[scan[t].Lowest].InUse
    BY DEF LostInv, SlotFree, table, Threads
  <2>1. scan[t].Lowest \in Slots /\ HighestUsedBlockIndex \in Nat /\ t \in Threads
    <3>1. t \in Threads /\ scan[t].Lowest \in 0 .. MaxBlocks /\ HighestUsedBlockIndex \in Slots
      BY <1>1 DEF TypeOK, Threads
    <3> QED BY <3>1, SizesAssumption DEF Slots
  <2>2. CASE pc[t] = "freescan"  BY <2>2 DEF LostInv, SlotFree
  <2>3. CASE pc[t] # "freescan"
    <3>1. scan[t].Lowest = HighestUsedBlockIndex + 1  BY <2>1, <2>3
    <3> QED BY <1>1, <2>1, <3>1 DEF AllVisible
  <2> QED BY <2>2, <2>3
<1>3. Freeing' = Freeing  BY DEF Freeing
<1> QED BY <1>2, <1>3 DEF LostInv, Kept, Somewhere, table

\* With one thread that frees, no step loses a byte: one case per action.
LEMMA LostStep ==
  ASSUME OneFreer, LostInv, [Next]_vars
  PROVE  (SlotFree /\ Kept)'
<1>0. TypeOK /\ WholeUnits /\ Allocators \subseteq Threads /\ Freers \subseteq Threads
  BY DEF LostInv, TableInv, OverlapInv, Threads
<1>1. ASSUME NEW t \in Allocators, NEW n \in Requests,
             NEW largest \in BOOLEAN, NEW nonblocking \in BOOLEAN,
             AllocateEnter(t, n, largest, nonblocking)
      PROVE  (SlotFree /\ Kept)'
  BY <1>0, <1>1, LostElsewhere DEF AllocateEnter, TypeOK
<1>2. ASSUME NEW t \in Allocators, AllocateFirstFit(t) PROVE (SlotFree /\ Kept)'
  <2>1. PICK i \in FittingSlots(want[t].Size) : AllocateTake(t, i, want[t].Size)
    BY <1>2 DEF AllocateFirstFit
  <2>2. i \in FreeSlots /\ want[t].Size <= Blocks[i].Size /\ want[t].Size \in Nat
    BY <1>0 DEF FittingSlots, FreeSlots, TypeOK
  <2> QED BY <1>2, <2>1, <2>2, LostTake DEF AllocateFirstFit
<1>3. ASSUME NEW t \in Allocators, AllocateLargest(t) PROVE (SlotFree /\ Kept)'
  <2>1. PICK i \in LargestFreeBlock : AllocateTake(t, i, Blocks[i].Size)
    BY <1>3 DEF AllocateLargest
  <2>2. i \in FreeSlots /\ Whole(Blocks[i])
    BY <1>0 DEF LargestFreeBlock, FreeSlots, WholeUnits
  <2>3. Blocks[i].Size \in Nat /\ Blocks[i].Size <= Blocks[i].Size
    BY <2>2 DEF Whole, Sized
  <2> QED BY <1>3, <2>1, <2>2, <2>3, LostTake DEF AllocateLargest
<1>4. ASSUME NEW t \in Allocators, AllocateAborted(t) \/ AllocateNoFit(t) \/ AllocateWake(t)
      PROVE  (SlotFree /\ Kept)'
  <2>1. UNCHANGED <<table, held, arg, scan, tooMany>> /\ pc[t] \in {"allocate", "wait"}
    BY <1>4 DEF AllocateAborted, AllocateNoFit, AllocateWake
  <2>2. \E at \in {"idle", "wait", "allocate"} : pc' = [pc EXCEPT ![t] = at]
    BY <1>4 DEF AllocateAborted, AllocateNoFit, AllocateWake, AllocateReturn
  <2> QED BY <1>0, <2>1, <2>2, LostElsewhere DEF TypeOK
<1>5. ASSUME NEW t \in Allocators, NEW r \in held,
             ExtendUpwards(t, r) \/ ExtendDownwards(t, r)
      PROVE  (SlotFree /\ Kept)'
  BY <1>5, LostAbsorb DEF ExtendUpwards, ExtendDownwards
<1>6. ASSUME NEW t \in Freers, NEW r \in held, NEW kept \in 0 .. r.Size - 1,
             FreeEnter(t, r, kept)
      PROVE  (SlotFree /\ Kept)'
  BY <1>6, LostFreeEnter
<1>7. ASSUME NEW t \in Freers, FreeLock(t) PROVE (SlotFree /\ Kept)'
  <2>1. scan[t].Lowest = HighestUsedBlockIndex + 1
    BY <1>7 DEF FreeLock, LostInv, SlotFree
  <2> QED BY <1>0, <1>7, <2>1, LostElsewhere DEF FreeLock, TypeOK
<1>8. ASSUME NEW t \in Freers, FreeScan(t) PROVE (SlotFree /\ Kept)'
  BY <1>8, LostFreeScan
<1>9. ASSUME NEW t \in Freers, FreeStore(t) \/ FreeTooMany(t) PROVE (SlotFree /\ Kept)'
  BY <1>9, LostFreeReturn
<1>10. CASE DestroyBegin \/ DestroySignal \/ DestroyEnd \/ Destroyed \/ UNCHANGED vars
  <2>1. UNCHANGED <<table, held, arg, scan, tooMany, pc>>
    BY <1>10 DEF DestroyBegin, DestroySignal, DestroyEnd, Destroyed, vars
  <2> QED BY <2>1, LostElsewhere
<1> QED BY <1>1, <1>2, <1>3, <1>4, <1>5, <1>6, <1>7, <1>8, <1>9, <1>10
     DEF Next, AllocateStep, FreeStep

\* With one thread that frees, and a table that holds the pool to begin with,
\* every byte of the pool is for ever in a free block the scans can see, with a
\* client, on its way back, or in a region Free has reported as one too many.
THEOREM NeverLost ==
  ASSUME OneFreer, TableHoldsPool
  PROVE  Spec => []NothingLost
<1>1. Init => LostInv  BY LostInit
<1>2. TableInv' /\ LostInv /\ [Next]_vars => LostInv'  BY LostStep DEF LostInv
<1>3. LostInv => NothingLost
  BY DEF LostInv, Kept, Somewhere, In, NothingLost, FreeSlots, TableInv, TableOK, AllVisible
<1> QED BY <1>1, <1>2, <1>3, TableInvariant, PTL DEF Spec

---------------------------------------------------------------------------
(* A blocked allocation sleeps for a reason.                               *)

\* One InAllocate flag and one event: the code is written for one thread that
\* allocates.  A second would reset the event the first is waiting for.
OneAllocator == \A t, u \in Allocators : t = u

\* The event is reset and the table searched in one critical section, and only
\* the end of Free puts a block in use; so a thread asleep with the event clear
\* has no block that would fit, however many threads free.
THEOREM NeverAsleepForNothing ==
  ASSUME OneAllocator
  PROVE  Spec => []NoLostWakeup
<1>1. Init => NoLostWakeup  BY DEF Init, NoLostWakeup
<1>2. TypeOK /\ NoLostWakeup /\ [Next]_vars => NoLostWakeup'
  <2> SUFFICES ASSUME TypeOK, NoLostWakeup, [Next]_vars,
                      NEW t \in Allocators, pc'[t] = "wait", ~EntryFreed'
               PROVE  FittingSlots(want[t].Size)' = {}
    BY DEF NoLostWakeup
  <2>0. t \in Threads /\ \A u \in Allocators : u = t  BY DEF Threads, OneAllocator
  <2>1. ASSUME UNCHANGED <<want, HighestUsedBlockIndex>>, pc[t] = "wait", ~EntryFreed,
               \A i \in Slots : Blocks'[i].InUse => Blocks'[i] = Blocks[i]
        PROVE  FittingSlots(want[t].Size)' = {}
    BY <2>1 DEF NoLostWakeup, FittingSlots, FreeSlots
  <2>2. ASSUME NEW n \in Requests, NEW largest \in BOOLEAN, NEW nonblocking \in BOOLEAN,
               AllocateEnter(t, n, largest, nonblocking)
        PROVE  FALSE
    BY <2>0, <2>2 DEF AllocateEnter, TypeOK
  <2>3. ASSUME AllocateAborted(t) \/ AllocateFirstFit(t) \/ AllocateLargest(t)
               \/ AllocateWake(t)
        PROVE  FALSE
    BY <2>0, <2>3
       DEF AllocateAborted, AllocateFirstFit, AllocateLargest, AllocateWake, AllocateTake,
           AllocateReturn, TypeOK
  <2>4. CASE AllocateNoFit(t)
    BY <2>0, <2>4
       DEF AllocateNoFit, AllocateReturn, FittingSlots, FreeSlots, table, TypeOK
  <2>5. ASSUME NEW r \in held, ExtendUpwards(t, r) \/ ExtendDownwards(t, r)
        PROVE  FALSE
    BY <2>5 DEF ExtendUpwards, ExtendDownwards, Absorb
  <2>6. ASSUME NEW u \in Freers, NEW r \in held, NEW kept \in 0 .. r.Size - 1,
               FreeEnter(u, r, kept)
        PROVE  FittingSlots(want[t].Size)' = {}
    <3>1. u \in Threads  BY DEF Threads
    <3> QED BY <2>0, <2>1, <2>6, <3>1 DEF FreeEnter, table, TypeOK
  <2>7. ASSUME NEW u \in Freers, FreeLock(u) \/ FreeScan(u)
        PROVE  FittingSlots(want[t].Size)' = {}
    <3>1. u \in Threads  BY DEF Threads
    <3>2. pc[t] = "wait" /\ UNCHANGED <<want, HighestUsedBlockIndex, EntryFreed>>
      BY <2>0, <2>7, <3>1 DEF FreeLock, FreeScan, table, TypeOK
    <3>3. \A i \in Slots : Blocks'[i].InUse => Blocks'[i] = Blocks[i]
      BY <2>7 DEF FreeLock, FreeScan, table, TypeOK, NotInUse
    <3> QED BY <2>1, <3>2, <3>3
  <2>8. ASSUME NEW u \in Freers, FreeStore(u) \/ FreeTooMany(u) PROVE FALSE
    BY <2>8 DEF FreeStore, FreeStoreAt, FreeTooMany, FreeReturn
  <2>9. CASE DestroyBegin \/ DestroySignal \/ DestroyEnd \/ Destroyed \/ UNCHANGED vars
    <3>1. UNCHANGED <<want, table, pc>> /\ (EntryFreed = EntryFreed' \/ EntryFreed')
      BY <2>9 DEF DestroyBegin, DestroySignal, DestroyEnd, Destroyed, vars
    <3> QED BY <2>1, <3>1 DEF table
  <2> QED BY <2>0, <2>2, <2>3, <2>4, <2>5, <2>6, <2>7, <2>8, <2>9
       DEF Next, AllocateStep, FreeStep
<1> QED BY <1>1, <1>2, TypeCorrect, PTL DEF Spec
=============================================================================
