------------------------------ MODULE PMMProofs ------------------------------
(***************************************************************************)
(* For every page size, memory map and request size: the type invariant,   *)
(* the ownership invariants of PMM and the refinement of FrameAllocator.   *)
(***************************************************************************)
EXTENDS PMM, TLAPS, FiniteSetTheorems, FunctionTheorems, WellFoundedInduction

-------------------------------------------------------------------------------
(***************************************************************************)
(* Arithmetic: division, and multiples of the page size.                   *)
(***************************************************************************)

\* n lies in the p-sized unit numbered n \div p.
LEMMA Division ==
    ASSUME NEW n \in Nat, NEW p \in Nat \ {0}
    PROVE  /\ n \div p \in Nat
           /\ (n \div p) * p <= n
           /\ n < (n \div p + 1) * p
  BY SMT

\* Multiplying by a positive number keeps the order.
LEMMA Monotone ==
    ASSUME NEW a \in Nat, NEW b \in Nat, NEW p \in Nat \ {0}
    PROVE  /\ a * p <= b * p <=> a <= b
           /\ a * p < b * p <=> a < b
           /\ a * p \in Nat
           /\ (a + 1) * p = a * p + p
           /\ (a + b) * p = a * p + b * p
  BY SMT

\* The rounded-up quotient of naturals is a natural.
LEMMA CeilDivNat ==
    ASSUME NEW n \in Nat, NEW p \in Nat \ {0}
    PROVE  CeilDiv(n, p) \in Nat
  BY Division DEF CeilDiv

-------------------------------------------------------------------------------
(***************************************************************************)
(* Extrema: Min and Max of module FiniteSetsExt are what their names say.  *)
(***************************************************************************)

\* A non-empty set of naturals has a least element, which Min returns.
LEMMA MinProperty ==
    ASSUME NEW S \in SUBSET Nat, S # {}
    PROVE  /\ Min(S) \in S
           /\ \A y \in S : Min(S) <= y
<1> DEFINE R == {ss \in Nat \X Nat : ss[1] < ss[2]}
<1>1. IsWellFoundedOn(R, Nat)
  BY NatLessThanWellFounded DEF OpToRel
<1>2. PICK x \in S : \A y \in S : <<y, x>> \notin R
  <2> HIDE DEF R
  <2> QED BY <1>1, WFMin
<1>3. \A y \in S : x <= y
  <2>1. ASSUME NEW y \in S, y < x
        PROVE  <<y, x>> \in R
    <3>1. <<y, x>> \in Nat \X Nat /\ <<y, x>>[1] = y /\ <<y, x>>[2] = x
      OBVIOUS
    <3> QED BY <2>1, <3>1
  <2>2. \A y \in S : ~(y < x)
    <3> HIDE DEF R
    <3> QED BY <1>2, <2>1
  <2> QED BY <2>2
<1> QED
  BY <1>3 DEF Min

\* A finite non-empty set of naturals has a greatest element, which Max
\* returns: the element with the fewest elements above it.
LEMMA MaxProperty ==
    ASSUME NEW S \in SUBSET Nat, S # {}, IsFiniteSet(S)
    PROVE  /\ Max(S) \in S
           /\ \A y \in S : Max(S) >= y
<1> DEFINE Above(x) == {y \in S : y > x}
           Counts == {Cardinality(Above(x)) : x \in S}
<1>1. \A x \in S : IsFiniteSet(Above(x)) /\ Cardinality(Above(x)) \in Nat
  <2> TAKE x \in S
  <2>1. Above(x) \in SUBSET S
    OBVIOUS
  <2> HIDE DEF Above
  <2> QED BY <2>1, FS_Subset, FS_CardinalityType
<1>2. Counts \in SUBSET Nat /\ Counts # {}
  <2> HIDE DEF Above
  <2> QED BY <1>1
<1>3. PICK x \in S : Cardinality(Above(x)) = Min(Counts)
  <2>1. Min(Counts) \in Counts
    <3> HIDE DEF Counts
    <3> QED BY <1>2, MinProperty
  <2> HIDE DEF Above
  <2> QED BY <2>1
<1>4. ASSUME NEW y \in S, y > x
      PROVE  FALSE
  <2>1. /\ Above(y) \in SUBSET Above(x)
        /\ y \in Above(x)
        /\ y \notin Above(y)
    <3>1. \A z \in S : z > y => z > x
      BY <1>4
    <3>2. ~(y > y)
      OBVIOUS
    <3> QED BY <1>4, <3>1, <3>2
  <2>2. Cardinality(Above(y)) < Cardinality(Above(x))
    <3> HIDE DEF Above
    <3>1. Cardinality(Above(y)) <= Cardinality(Above(x))
          /\ (Cardinality(Above(y)) = Cardinality(Above(x)) => Above(y) = Above(x))
      BY <1>1, <2>1, FS_Subset
    <3> QED BY <1>1, <2>1, <3>1
  <2>3. Cardinality(Above(y)) >= Min(Counts)
    <3>1. Cardinality(Above(y)) \in Counts
      OBVIOUS
    <3> HIDE DEF Counts, Above
    <3> QED BY <1>2, <3>1, MinProperty
  <2> HIDE DEF Above, Counts
  <2> QED BY <1>1, <1>3, <2>2, <2>3
<1>5. \A y \in S : x >= y
  BY <1>4
<1> QED
  BY <1>5 DEF Max

-------------------------------------------------------------------------------
(***************************************************************************)
(* The memory map: what the bitmap is sized and placed by.                 *)
(***************************************************************************)

\* The fields of the machine of a boot have their types.
LEMMA MachineType ==
    ASSUME NEW m \in Machines
    PROVE  /\ m.map \in Seq(Entry)
           /\ m.kernelSize \in Nat /\ m.imageBase \in Nat /\ m.imageSize \in Nat
           /\ Usable(m) \in SUBSET Nat /\ IsFiniteSet(Usable(m))
           /\ \A i \in Usable(m) :
                /\ m.map[i].base \in Nat /\ m.map[i].length \in Nat
                /\ EntryEnd(m.map[i]) \in Nat
<1>1. /\ m.map \in Seq(Entry)
      /\ m.kernelSize \in Nat /\ m.imageBase \in Nat /\ m.imageSize \in Nat
  BY MachinesAssumption DEF Machine
<1>2. Len(m.map) \in Nat /\ DOMAIN m.map = 1 .. Len(m.map)
  BY <1>1
<1>3. IsFiniteSet(DOMAIN m.map)
  BY <1>2, FS_Interval
<1>4. Usable(m) \in SUBSET DOMAIN m.map
  BY DEF Usable
<1>5. IsFiniteSet(Usable(m))
  BY <1>3, <1>4, FS_Subset
<1>6. \A i \in Usable(m) : m.map[i] \in Entry
  BY <1>1, <1>2, <1>4
<1>7. \A i \in Usable(m) : /\ m.map[i].base \in Nat /\ m.map[i].length \in Nat
                           /\ EntryEnd(m.map[i]) \in Nat
  BY <1>6 DEF Entry, EntryEnd
<1> QED
  BY <1>1, <1>2, <1>4, <1>5, <1>7

\* getTotalPageNum returns a number of frames, also for a map without usable
\* memory.
LEMMA TotalPagesNat ==
    ASSUME NEW m \in Machines
    PROVE  TotalPages(m) \in Nat
<1> DEFINE F == [i \in Usable(m) |-> EntryEnd(m.map[i])]
           Ends == {EntryEnd(m.map[i]) : i \in Usable(m)}
<1>1. F \in Surjection(Usable(m), Ends)
  <2>1. F \in [Usable(m) -> Ends] /\ \A t \in Ends : \E s \in Usable(m) : F[s] = t
    OBVIOUS
  <2> HIDE DEF F, Ends
  <2> QED BY <2>1, Fun_IsSurj
<1>2. IsFiniteSet(Ends)
  <2> HIDE DEF F, Ends
  <2> QED BY <1>1, MachineType, FS_Surjection
<1>3. {0} \cup Ends \in SUBSET Nat /\ {0} \cup Ends # {}
  BY MachineType
<1>4. IsFiniteSet({0} \cup Ends)
  <2>1. {0} \cup Ends = Ends \cup {0}
    OBVIOUS
  <2> HIDE DEF Ends
  <2> QED BY <1>2, <2>1, FS_AddElement
<1>5. Max({0} \cup Ends) \in Nat
  <2> HIDE DEF Ends
  <2> QED BY <1>3, <1>4, MaxProperty
<1> HIDE DEF Ends
<1>6. CeilDiv(Max({0} \cup Ends), PageSize) \in Nat
  BY <1>5, CeilDivNat, SizesAssumption
<1> QED
  BY <1>6 DEF TotalPages, Ends

\* Where the bitmap goes: address 0 when no region has room, or a whole place
\* inside a usable entry past the kernel.
LEMMA BitmapSpotProperty ==
    ASSUME NEW m \in Machines
    PROVE  /\ BitmapSpot(m) \in Nat
           /\ RoomyRegions(m) # {} =>
                /\ BitmapSpot(m) >= KernelEnd(m)
                /\ \E i \in Usable(m) :
                     /\ m.map[i].base <= BitmapSpot(m)
                     /\ BitmapSpot(m) + BitmapSize(TotalPages(m)) <= EntryEnd(m.map[i])
<1>1. KernelEnd(m) \in Nat /\ BitmapSize(TotalPages(m)) \in Nat
  <2>1. KernelEnd(m) \in Nat
    BY MachineType, SizesAssumption DEF KernelEnd
  <2>2. BitmapSize(TotalPages(m)) \in Nat
    BY TotalPagesNat, CeilDivNat, SizesAssumption DEF BitmapSize
  <2> QED BY <2>1, <2>2
<1>2. \A i \in Usable(m) : /\ Candidate(m, i) \in Nat
                           /\ Candidate(m, i) >= KernelEnd(m)
                           /\ Candidate(m, i) >= m.map[i].base
  BY <1>1, MachineType DEF Candidate
<1>3. CASE RoomyRegions(m) = {}
  BY <1>3 DEF BitmapSpot
<1>4. CASE RoomyRegions(m) # {}
  <2>1. RoomyRegions(m) \in SUBSET Usable(m) /\ RoomyRegions(m) \in SUBSET Nat
    BY MachineType DEF RoomyRegions
  <2>2. PICK i \in RoomyRegions(m) : i = Min(RoomyRegions(m))
    BY <1>4, <2>1, MinProperty
  <2>3. BitmapSpot(m) = Candidate(m, i)
    BY <1>4, <2>2 DEF BitmapSpot
  <2>4. HasRoom(m, i) /\ i \in Usable(m)
    BY <2>1 DEF RoomyRegions
  <2>5. BitmapSpot(m) + BitmapSize(TotalPages(m)) <= EntryEnd(m.map[i])
    BY <1>1, <1>2, <2>3, <2>4, MachineType DEF HasRoom
  <2> QED
    BY <1>2, <2>3, <2>4, <2>5
<1> QED
  BY <1>3, <1>4

-------------------------------------------------------------------------------
(***************************************************************************)
(* The frames that Alloc marks and that Free clears.                       *)
(***************************************************************************)

\* MarkRangeUsed over the bytes of a block sets the bits of the block.
LEMMA AllocMarksItsBlock ==
    ASSUME NEW i \in Nat, NEW n \in Nat \ {0}, NEW total \in Nat, i + n <= total
    PROVE  FramesTouching(i * PageSize, i * PageSize + n * PageSize, total)
             = i .. (i + n - 1)
<1>1. PageSize \in Nat \ {0} /\ i + n \in Nat
  BY SizesAssumption
<1>2. i * PageSize + n * PageSize = (i + n) * PageSize
  BY <1>1, Monotone
<1>3. ASSUME NEW f \in Nat
      PROVE  /\ i * PageSize < (f + 1) * PageSize <=> i < f + 1
             /\ f * PageSize < (i + n) * PageSize <=> f < i + n
  BY <1>1, Monotone
<1>4. \A f \in Nat : i < f + 1 /\ f < i + n <=> f \in i .. (i + n - 1)
  BY <1>1
<1>5. i .. (i + n - 1) \in SUBSET (0 .. (total - 1))
  BY <1>1
<1>6. ASSUME NEW f \in 0 .. (total - 1)
      PROVE  f \in FramesTouching(i * PageSize, i * PageSize + n * PageSize, total)
               <=> f \in i .. (i + n - 1)
  <2>1. f \in Nat
    OBVIOUS
  <2> QED BY <1>2, <1>3, <1>4, <2>1 DEF FramesTouching
<1> QED
  BY <1>5, <1>6 DEF FramesTouching

\* MarkRangeFree over the page of a freed address clears the first frame only.
LEMMA FreeClearsOneFrame ==
    ASSUME NEW i \in Nat, NEW total \in Nat, i < total
    PROVE  FramesWithin(i * PageSize, PageSize, total) = {i}
<1>1. PageSize \in Nat \ {0}
  BY SizesAssumption
<1>2. i * PageSize + PageSize = (i + 1) * PageSize
  BY <1>1, Monotone
<1>3. ASSUME NEW f \in Nat
      PROVE  /\ i * PageSize <= f * PageSize <=> i <= f
             /\ (f + 1) * PageSize <= (i + 1) * PageSize <=> f <= i
  BY <1>1, Monotone
<1>4. i \in 0 .. (total - 1)
  OBVIOUS
<1>5. ASSUME NEW f \in 0 .. (total - 1)
      PROVE  f \in FramesWithin(i * PageSize, PageSize, total) <=> f = i
  <2>1. f \in Nat
    OBVIOUS
  <2>2. i <= f /\ f <= i <=> f = i
    OBVIOUS
  <2> QED BY <1>2, <1>3, <2>1, <2>2 DEF FramesWithin
<1> QED
  BY <1>4, <1>5 DEF FramesWithin

\* Whatever is marked at boot lies inside the bitmap.
LEMMA CleanBitMapType ==
    ASSUME NEW m, NEW total, NEW bitmap
    PROVE  CleanBitMap(m, total, bitmap) \in SUBSET (0 .. (total - 1))
  BY DEF CleanBitMap, OwnMemory, FramesTouching

-------------------------------------------------------------------------------
(***************************************************************************)
(* The inductive invariant: the types, both PMM objects agreeing on the    *)
(* bitmap, and every set bit owned by exactly one of the boot-time marks,  *)
(* a lent block and the lost tails.                                        *)
(***************************************************************************)

Agreed ==
    /\ phase = "off" => totalPages = 0 /\ used = {} /\ lent = {} /\ lost = {}
    /\ phase # "off" => /\ totalPages = TotalPages(machine)
                       /\ bitmapBase = BitmapSpot(machine)
                       /\ bitmapSlot = BitmapSpot(machine)

LentInside == \A b \in lent : Span(b) \subseteq 0 .. (totalPages - 1)

IInv ==
    /\ TypeOK
    /\ Agreed
    /\ LentInside
    /\ LentBlocksDisjoint
    /\ UsedIsAccountedFor

\* Before the bootloader's Init nothing is lent and no bit is set.
LEMMA InitIInv == Init => IInv
  BY SizesAssumption
  DEF Init, IInv, TypeOK, Agreed, LentInside, LentBlocksDisjoint, UsedIsAccountedFor

\* A held block is a run of frame numbers that contains its first.
LEMMA BlockType ==
    ASSUME NEW b \in [base : Nat, count : 1 .. MaxBlock]
    PROVE  /\ b.base \in Nat /\ b.count \in Nat \ {0}
           /\ b.base \in Span(b)
           /\ Span(b) \in SUBSET Nat
  BY SizesAssumption DEF Span

\* The bootloader builds the bitmap: nothing is lent, every set bit is a mark.
LEMMA BootInitStep == IInv /\ BootInit => IInv'
<1> SUFFICES ASSUME IInv, BootInit
             PROVE  IInv'
  OBVIOUS
<1> DEFINE total == TotalPages(machine)
<1>1. machine \in Machines /\ machine' = machine
  BY DEF IInv, TypeOK, BootInit
<1>2. total \in Nat /\ BitmapSpot(machine) \in Nat
  BY <1>1, TotalPagesNat, BitmapSpotProperty
<1>3. /\ phase' = "boot" /\ phase = "off"
      /\ totalPages' = total
      /\ bitmapBase' = BitmapSpot(machine)
      /\ bitmapSlot' = BitmapSpot(machine)
      /\ used' = CleanBitMap(machine, total, BitmapSpot(machine))
      /\ lent' = {} /\ lost' = {}
  BY DEF BootInit, IInv, Agreed
<1>4. used' \in SUBSET (0 .. (totalPages' - 1))
  BY <1>3, CleanBitMapType
<1>5. TypeOK'
  BY <1>1, <1>2, <1>3, <1>4 DEF TypeOK
<1>6. UsedIsAccountedFor'
  BY <1>1, <1>3 DEF UsedIsAccountedFor
<1> QED
  BY <1>1, <1>3, <1>5, <1>6 DEF IInv, Agreed, LentInside, LentBlocksDisjoint

\* The kernel finds the bitmap the bootloader left, of the same size.
LEMMA KernelInitStep == IInv /\ KernelInit => IInv'
<1> SUFFICES ASSUME IInv, KernelInit
             PROVE  IInv'
  OBVIOUS
<1>1. /\ machine' = machine /\ totalPages' = totalPages /\ bitmapBase' = bitmapBase
      /\ bitmapSlot' = bitmapSlot /\ used' = used /\ lent' = lent /\ lost' = lost
      /\ phase = "boot" /\ phase' = "kernel"
  BY DEF IInv, Agreed, KernelInit
<1>2. TypeOK' /\ Agreed'
  BY <1>1 DEF IInv, TypeOK, Agreed
<1> QED
  BY <1>1, <1>2 DEF IInv, LentInside, LentBlocksDisjoint, UsedIsAccountedFor

\* First fit finds frames that are clear and inside the bitmap.
LEMMA FitsAreFree ==
    ASSUME TypeOK, NEW n \in 1 .. MaxBlock, NEW i \in Fits(n)
    PROVE  /\ i \in Nat /\ i + n <= totalPages
           /\ \A f \in i .. (i + n - 1) : f \in 0 .. (totalPages - 1) /\ f \notin used
<1>1. totalPages \in Nat /\ n \in Nat \ {0} /\ i \in Nat
  BY SizesAssumption DEF TypeOK, Fits
<1>2. \A j \in 0 .. (n - 1) : i + j < totalPages /\ i + j \notin used
  BY <1>1 DEF Fits, TestBit
<1>3. i + (n - 1) < totalPages
  BY <1>1, <1>2
<1>4. ASSUME NEW f \in i .. (i + n - 1)
      PROVE  f \in 0 .. (totalPages - 1) /\ f \notin used
  <2>1. f - i \in 0 .. (n - 1) /\ i + (f - i) = f /\ f \in Nat
    BY <1>1
  <2> QED BY <1>1, <1>2, <2>1
<1> QED
  BY <1>1, <1>3, <1>4

\* A new block takes clear frames: they belong to no mark, no block, no tail.
LEMMA AllocStep ==
    ASSUME IInv, NEW n \in 1 .. MaxBlock, Alloc(n)
    PROVE  IInv'
<1> DEFINE b == [base |-> Min(Fits(n)), count |-> n]
           Held == UNION {Span(c) : c \in lent}
<1>1. TypeOK /\ totalPages \in Nat /\ n \in Nat \ {0}
  BY SizesAssumption DEF IInv, TypeOK
<1>2. b.base \in Fits(n) /\ b.count = n
  <2>1. Fits(n) \in SUBSET Nat /\ Fits(n) # {}
    BY <1>1 DEF Fits, Alloc
  <2> QED BY <2>1, MinProperty
<1>3. /\ b.base \in Nat /\ b.base + n <= totalPages
      /\ \A f \in Span(b) : f \in 0 .. (totalPages - 1) /\ f \notin used
  BY <1>1, <1>2, FitsAreFree DEF Span
<1>4. /\ used' = used \cup Span(b)
      /\ lent' = lent \cup {b}
      /\ UNCHANGED <<machine, phase, totalPages, bitmapBase, bitmapSlot, lost>>
  <2>1. FramesTouching(b.base * PageSize, b.base * PageSize + n * PageSize, totalPages)
          = Span(b)
    BY <1>1, <1>2, <1>3, AllocMarksItsBlock DEF Span
  <2> QED BY <2>1 DEF Alloc
<1>5. b \in [base : Nat, count : 1 .. MaxBlock]
  BY <1>3
<1> HIDE DEF b
<1>6. TypeOK'
  <2>1. used' \in SUBSET (0 .. (totalPages' - 1))
    BY <1>1, <1>3, <1>4 DEF TypeOK
  <2> QED BY <1>1, <1>4, <1>5, <2>1 DEF TypeOK
<1>7. Agreed'
  BY <1>4 DEF IInv, Agreed, Alloc
<1>8. LentInside'
  BY <1>3, <1>4 DEF IInv, LentInside
<1>9. phase # "off" /\ phase' # "off"
  BY <1>4 DEF Alloc
<1>10. Held \subseteq used
  BY <1>9 DEF IInv, UsedIsAccountedFor
<1>11. Span(b) \cap used = {}
  BY <1>3
<1>12. LentBlocksDisjoint'
  <2>1. \A c \in lent : Span(c) \cap Span(b) = {}
    BY <1>10, <1>11
  <2> QED BY <1>4, <2>1 DEF IInv, LentBlocksDisjoint
<1>13. UsedIsAccountedFor'
  <2> DEFINE own == CleanBitMap(machine, TotalPages(machine), bitmapSlot)
  <2>1. /\ used = own \cup Held \cup lost
        /\ own \cap (Held \cup lost) = {}
        /\ Held \cap lost = {}
    BY <1>9 DEF IInv, UsedIsAccountedFor
  <2>2. UNION {Span(c) : c \in lent'} = Held \cup Span(b)
    BY <1>4
  <2> HIDE DEF own, Held
  <2>3. /\ used' = own \cup (Held \cup Span(b)) \cup lost
        /\ own \cap ((Held \cup Span(b)) \cup lost) = {}
        /\ (Held \cup Span(b)) \cap lost = {}
    BY <1>4, <1>11, <2>1
  <2> QED BY <1>4, <2>2, <2>3 DEF UsedIsAccountedFor, own
<1> QED
  BY <1>6, <1>7, <1>8, <1>12, <1>13 DEF IInv

\* Free clears the first frame of the block; the rest of it changes from held
\* to lost, its bits still set.
LEMMA FreeStep ==
    ASSUME IInv, NEW b \in lent, Free(b)
    PROVE  IInv'
<1> DEFINE Held == UNION {Span(c) : c \in lent}
           own == CleanBitMap(machine, TotalPages(machine), bitmapSlot)
<1>1. /\ TypeOK /\ totalPages \in Nat
      /\ b \in [base : Nat, count : 1 .. MaxBlock]
  BY DEF IInv, TypeOK
<1>2. /\ b.base \in Nat /\ b.base \in Span(b) /\ Span(b) \in SUBSET Nat
      /\ Span(b) \subseteq 0 .. (totalPages - 1)
  BY <1>1, BlockType DEF IInv, LentInside
<1>3. /\ used' = used \ {b.base}
      /\ lent' = lent \ {b}
      /\ lost' = lost \cup (Span(b) \ {b.base})
      /\ phase # "off" /\ phase' # "off"
      /\ UNCHANGED <<machine, phase, totalPages, bitmapBase, bitmapSlot>>
  <2>1. FramesWithin(b.base * PageSize, PageSize, totalPages) = {b.base}
    <3>1. b.base < totalPages
      BY <1>1, <1>2
    <3> QED BY <1>1, <1>2, <3>1, FreeClearsOneFrame
  <2> QED BY <2>1 DEF Free
<1>4. TypeOK'
  BY <1>1, <1>2, <1>3 DEF TypeOK
<1>5. Agreed'
  BY <1>3 DEF IInv, Agreed
<1>6. LentInside' /\ LentBlocksDisjoint'
  BY <1>3 DEF IInv, LentInside, LentBlocksDisjoint
<1>7. UsedIsAccountedFor'
  <2>1. /\ used = own \cup Held \cup lost
        /\ own \cap (Held \cup lost) = {}
        /\ Held \cap lost = {}
    BY <1>3 DEF IInv, UsedIsAccountedFor
  <2>2. \A c \in lent : c # b => Span(c) \cap Span(b) = {}
    BY DEF IInv, LentBlocksDisjoint
  <2>3. UNION {Span(c) : c \in lent'} = Held \ Span(b)
    BY <1>3, <2>2
  <2>4. Span(b) \subseteq Held
    OBVIOUS
  <2> HIDE DEF own, Held
  <2>5. /\ used' = own \cup (Held \ Span(b)) \cup lost'
        /\ own \cap ((Held \ Span(b)) \cup lost') = {}
        /\ (Held \ Span(b)) \cap lost' = {}
    BY <1>2, <1>3, <2>1, <2>4
  <2> QED BY <1>3, <2>3, <2>5 DEF UsedIsAccountedFor, own
<1> QED
  BY <1>4, <1>5, <1>6, <1>7 DEF IInv

\* A step that changes nothing keeps the invariant.
LEMMA StutterStep == IInv /\ UNCHANGED vars => IInv'
  BY DEF IInv, TypeOK, Agreed, LentInside, LentBlocksDisjoint, UsedIsAccountedFor, vars

\* Every step of the two PMM objects keeps the invariant.
LEMMA NextIInv == IInv /\ [Next]_vars => IInv'
  BY BootInitStep, KernelInitStep, AllocStep, FreeStep, StutterStep DEF Next

\* IInv, the inductive strengthening, holds in every state: the fields agree with
\* the machine, blocks lie in the bitmap, are disjoint and are accounted for.
THEOREM Invariance == Spec => []IInv
  BY InitIInv, NextIInv, PTL DEF Spec

-------------------------------------------------------------------------------
(***************************************************************************)
(* What the invariant gives.                                               *)
(***************************************************************************)

\* TypeOK of PMM, for every machine: the fields of the PMM object and the
\* bitmap keep their types through Init, Alloc and Free.
THEOREM TypeCorrect == Spec => []TypeOK
<1>1. IInv => TypeOK
  BY DEF IInv
<1> QED
  BY <1>1, Invariance, PTL

\* LentBlocksDisjoint of PMM: Alloc never hands out a frame that is held.
THEOREM Exclusive == Spec => []LentBlocksDisjoint
<1>1. IInv => LentBlocksDisjoint
  BY DEF IInv
<1> QED
  BY <1>1, Invariance, PTL

\* UsedIsAccountedFor of PMM: every set bit is a boot mark, a held frame or a
\* tail that Free left, and only one of them.
THEOREM Accounting == Spec => []UsedIsAccountedFor
<1>1. IInv => UsedIsAccountedFor
  BY DEF IInv
<1> QED
  BY <1>1, Invariance, PTL

\* A held frame is inside the bitmap and carries no mark of the boot.
LEMMA HeldFrame ==
    ASSUME IInv, NEW b \in lent, NEW f \in Span(b)
    PROVE  /\ phase # "off" /\ machine \in Machines /\ totalPages = TotalPages(machine)
           /\ bitmapBase = BitmapSpot(machine)
           /\ f \in Nat /\ f \in 0 .. (totalPages - 1)
           /\ f \in FreeMemory(machine, totalPages)
           /\ f \notin OwnMemory(machine, totalPages, bitmapBase)
<1>1. phase # "off" /\ machine \in Machines
  BY DEF IInv, TypeOK, Agreed
<1>2. /\ totalPages = TotalPages(machine)
      /\ bitmapBase = BitmapSpot(machine) /\ bitmapSlot = bitmapBase
  BY <1>1 DEF IInv, Agreed
<1>3. f \notin CleanBitMap(machine, totalPages, bitmapBase)
  BY <1>1, <1>2 DEF IInv, UsedIsAccountedFor
<1>4. f \in 0 .. (totalPages - 1)
  BY DEF IInv, LentInside
<1>5. f \in Nat
  BY <1>4 DEF IInv, TypeOK
<1> QED
  BY <1>1, <1>2, <1>3, <1>4, <1>5 DEF CleanBitMap

\* LentMemoryIsUsable of PMM: MarkRangeFree cleared no frame that a usable
\* entry covers only in part.
THEOREM LentIsUsable == Spec => []LentMemoryIsUsable
<1>1. ASSUME IInv, NEW b \in lent, NEW f \in Span(b)
      PROVE  \E i \in Usable(machine) :
                /\ machine.map[i].base <= f * PageSize
                /\ (f + 1) * PageSize <= EntryEnd(machine.map[i])
  <2>1. f \in FreeMemory(machine, totalPages)
    BY <1>1, HeldFrame
  <2> QED BY <2>1 DEF FreeMemory, FramesWithin, EntryEnd
<1>2. IInv => LentMemoryIsUsable
  BY <1>1 DEF LentMemoryIsUsable
<1> QED
  BY <1>2, Invariance, PTL

\* A byte of a held block lies in one of the block's frames.
LEMMA ByteOfBlock ==
    ASSUME IInv, NEW b \in lent, NEW y \in Nat,
           BlockStart(b) <= y, y < BlockStart(b) + BlockBytes(b)
    PROVE  \E f \in Span(b) : f * PageSize <= y /\ y < (f + 1) * PageSize
<1> DEFINE f == y \div PageSize
<1>1. PageSize \in Nat \ {0} /\ b.base \in Nat /\ b.count \in Nat \ {0}
  BY SizesAssumption, BlockType DEF IInv, TypeOK
<1>2. f \in Nat /\ f * PageSize <= y /\ y < (f + 1) * PageSize
  BY <1>1, Division
<1> HIDE DEF f
<1>3. /\ BlockStart(b) = b.base * PageSize
      /\ BlockStart(b) + BlockBytes(b) = (b.base + b.count) * PageSize
  BY <1>1, Monotone DEF BlockStart, BlockBytes
<1>4. /\ b.base * PageSize < (f + 1) * PageSize
      /\ f * PageSize < (b.base + b.count) * PageSize
  <2>1. /\ b.base * PageSize \in Nat /\ (f + 1) * PageSize \in Nat
        /\ f * PageSize \in Nat /\ (b.base + b.count) * PageSize \in Nat
    BY <1>1, <1>2, Monotone
  <2> QED BY <1>2, <1>3, <2>1
<1>5. b.base < f + 1 /\ f < b.base + b.count
  <2>1. f + 1 \in Nat /\ b.base + b.count \in Nat
    BY <1>1, <1>2
  <2> QED BY <1>1, <1>2, <1>4, <2>1, Monotone
<1> QED
  BY <1>1, <1>2, <1>5 DEF Span

\* A held block shares no byte with a range whose frames MarkUsedPages marked.
LEMMA MarkedRangeIsNobodys ==
    ASSUME IInv, NEW b \in lent, NEW x \in Nat, NEW n \in Nat,
           FramesTouching(x, x + n, totalPages)
             \subseteq OwnMemory(machine, totalPages, bitmapBase)
    PROVE  ~Overlap(BlockStart(b), BlockBytes(b), x, n)
<1> SUFFICES ASSUME Overlap(BlockStart(b), BlockBytes(b), x, n)
             PROVE  FALSE
  OBVIOUS
<1> DEFINE y == IF BlockStart(b) > x THEN BlockStart(b) ELSE x
<1>1. PageSize \in Nat \ {0} /\ b.base \in Nat /\ b.count \in Nat \ {0}
  BY SizesAssumption, BlockType DEF IInv, TypeOK
<1>2. BlockStart(b) \in Nat /\ BlockBytes(b) \in Nat
  BY <1>1, Monotone DEF BlockStart, BlockBytes
<1>3. /\ y \in Nat /\ BlockStart(b) <= y /\ y < BlockStart(b) + BlockBytes(b)
      /\ x <= y /\ y < x + n
  BY <1>2 DEF Overlap
<1> HIDE DEF y
<1>4. PICK f \in Span(b) : f * PageSize <= y /\ y < (f + 1) * PageSize
  BY <1>3, ByteOfBlock
<1>5. /\ f \in Nat /\ f \in 0 .. (totalPages - 1)
      /\ f \notin OwnMemory(machine, totalPages, bitmapBase)
  BY HeldFrame
<1>6. f * PageSize \in Nat /\ (f + 1) * PageSize \in Nat
  BY <1>1, <1>5, Monotone
<1>7. f \in FramesTouching(x, x + n, totalPages)
  BY <1>3, <1>4, <1>5, <1>6 DEF FramesTouching
<1> QED
  BY <1>5, <1>7

\* LentMemoryIsNobodys of PMM: nothing lent reaches into the low memory, the
\* kernel and its stack, the loader's image or the bitmap, at any alignment.
THEOREM LentIsNobodys == Spec => []LentMemoryIsNobodys
<1>1. ASSUME IInv, NEW b \in lent
      PROVE  /\ BlockStart(b) >= KernelEnd(machine)
             /\ ~Overlap(BlockStart(b), BlockBytes(b),
                         machine.imageBase, machine.imageSize)
             /\ ~Overlap(BlockStart(b), BlockBytes(b),
                         bitmapBase, BitmapSize(totalPages))
  <2>1. b.base \in Span(b) /\ b.base \in Nat /\ b.count \in Nat \ {0}
    BY <1>1, BlockType DEF IInv, TypeOK
  <2>2. machine \in Machines /\ totalPages = TotalPages(machine) /\ bitmapBase \in Nat
    BY <1>1, <2>1, HeldFrame DEF IInv, TypeOK
  <2>3. /\ machine.imageBase \in Nat /\ machine.imageSize \in Nat
        /\ KernelEnd(machine) \in Nat
    BY <2>2, MachineType, SizesAssumption DEF KernelEnd
  <2>4. BitmapSize(totalPages) \in Nat
    BY <2>2, TotalPagesNat, CeilDivNat, SizesAssumption DEF BitmapSize
  <2>5. ~Overlap(BlockStart(b), BlockBytes(b), machine.imageBase, machine.imageSize)
    BY <1>1, <2>3, MarkedRangeIsNobodys DEF OwnMemory
  <2>6. ~Overlap(BlockStart(b), BlockBytes(b), bitmapBase, BitmapSize(totalPages))
    BY <1>1, <2>2, <2>4, MarkedRangeIsNobodys DEF OwnMemory
  <2>7. /\ b.base \in 0 .. (totalPages - 1)
        /\ b.base \notin FramesTouching(0, KernelEnd(machine), totalPages)
    BY <1>1, <2>1, HeldFrame DEF OwnMemory
  <2>8. PageSize \in Nat \ {0} /\ b.base * PageSize \in Nat
        /\ (b.base + 1) * PageSize \in Nat
        /\ 0 * PageSize = 0 /\ 0 * PageSize < (b.base + 1) * PageSize
    BY <2>1, SizesAssumption, Monotone
  <2>9. BlockStart(b) >= KernelEnd(machine)
    BY <2>3, <2>7, <2>8 DEF FramesTouching, BlockStart
  <2> QED BY <2>5, <2>6, <2>9
<1>2. IInv => LentMemoryIsNobodys
  BY <1>1 DEF LentMemoryIsNobodys
<1> QED
  BY <1>2, Invariance, PTL

\* BitmapIsPlaced of PMM: InitBitMap compares with the kernel's end alone, and
\* that is enough to keep the bitmap off the loader's image.
THEOREM BitmapPlaced == Spec => []BitmapIsPlaced
<1>1. ASSUME IInv, phase # "off", RoomyRegions(machine) # {}
      PROVE  /\ bitmapBase >= KernelEnd(machine)
             /\ ~Overlap(bitmapBase, BitmapSize(totalPages),
                         machine.imageBase, machine.imageSize)
             /\ \E i \in Usable(machine) :
                  /\ machine.map[i].base <= bitmapBase
                  /\ bitmapBase + BitmapSize(totalPages) <= EntryEnd(machine.map[i])
  <2>1. /\ machine \in Machines /\ totalPages = TotalPages(machine)
        /\ bitmapBase = BitmapSpot(machine) /\ bitmapBase \in Nat
    BY <1>1 DEF IInv, TypeOK, Agreed
  <2>2. bitmapBase >= KernelEnd(machine)
    BY <1>1, <2>1, BitmapSpotProperty
  <2>3. PICK i \in Usable(machine) :
          /\ machine.map[i].base <= bitmapBase
          /\ bitmapBase + BitmapSize(totalPages) <= EntryEnd(machine.map[i])
    BY <1>1, <2>1, BitmapSpotProperty
  <2>4. ~Overlap(machine.imageBase, machine.imageSize,
                 machine.map[i].base, machine.map[i].length)
    BY <2>1, LoadedAssumption DEF Usable
  <2>5. /\ machine.imageBase \in Nat /\ machine.imageSize \in Nat
        /\ machine.map[i].base \in Nat /\ machine.map[i].length \in Nat
    BY <2>1, MachineType
  <2>6. BitmapSize(totalPages) \in Nat
    BY <2>1, TotalPagesNat, CeilDivNat, SizesAssumption DEF BitmapSize
  <2>7. ~Overlap(bitmapBase, BitmapSize(totalPages),
                 machine.imageBase, machine.imageSize)
    BY <2>1, <2>3, <2>4, <2>5, <2>6 DEF Overlap, EntryEnd
  <2> QED BY <2>2, <2>3, <2>7
<1>2. IInv => BitmapIsPlaced
  BY <1>1 DEF BitmapIsPlaced
<1> QED
  BY <1>2, Invariance, PTL

-------------------------------------------------------------------------------
(***************************************************************************)
(* Refinement.                                                             *)
(***************************************************************************)

Available == IF phase = "off" THEN {} ELSE (0 .. (totalPages - 1)) \ used

\* Nothing is available and nothing lent before the bitmap is built.
LEMMA InitRefines == Init => Promise!Init
  BY DEF Init, Promise!Init

\* Building the bitmap opens the allocator.
LEMMA BootInitRefines ==
    ASSUME IInv, IInv', BootInit
    PROVE  Promise!Open
<1>1. phase = "off" /\ phase' = "boot" /\ lent = {} /\ lent' = {}
  BY DEF BootInit, IInv, Agreed
<1>2. Available' \in SUBSET Nat
  <2>1. totalPages' \in Nat
    BY DEF IInv, TypeOK
  <2>2. Available' \subseteq 0 .. (totalPages' - 1)
    BY <1>1 DEF Available
  <2>3. \A f \in 0 .. (totalPages' - 1) : f \in Nat
    BY <2>1
  <2> QED BY <2>2, <2>3
<1> QED
  BY <1>1, <1>2 DEF Promise!Open, Available

\* The kernel's Init is a stutter.
LEMMA KernelInitRefines ==
    ASSUME IInv, KernelInit
    PROVE  UNCHANGED <<Available, lent>>
  BY DEF KernelInit, IInv, Agreed, Available

\* First fit lends a run of available frames.
LEMMA AllocRefines ==
    ASSUME IInv, NEW n \in 1 .. MaxBlock, Alloc(n)
    PROVE  \E b \in lent' \ lent : Promise!Lend(b)
<1> DEFINE b == [base |-> Min(Fits(n)), count |-> n]
<1>1. TypeOK /\ totalPages \in Nat /\ n \in Nat \ {0} /\ phase # "off"
  BY SizesAssumption DEF IInv, TypeOK, Alloc
<1>2. b.base \in Fits(n) /\ b.count = n
  <2>1. Fits(n) \in SUBSET Nat /\ Fits(n) # {}
    BY <1>1 DEF Fits, Alloc
  <2> QED BY <2>1, MinProperty
<1>3. /\ b.base \in Nat /\ b.base + n <= totalPages
      /\ \A f \in Span(b) : f \in 0 .. (totalPages - 1) /\ f \notin used
  BY <1>1, <1>2, FitsAreFree DEF Span
<1>4. /\ used' = used \cup Span(b) /\ lent' = lent \cup {b}
      /\ totalPages' = totalPages /\ phase' = phase
  <2>1. FramesTouching(b.base * PageSize, b.base * PageSize + n * PageSize, totalPages)
          = Span(b)
    BY <1>1, <1>2, <1>3, AllocMarksItsBlock DEF Span
  <2> QED BY <2>1 DEF Alloc
<1>5. b.base \in Span(b) /\ b.count > 0
  BY <1>1, <1>2, <1>3 DEF Span
<1> HIDE DEF b
<1>6. b \notin lent
  <2>1. \A c \in lent : Span(c) \subseteq used
    BY <1>1 DEF IInv, UsedIsAccountedFor
  <2> QED BY <1>3, <1>5, <2>1
<1>7. /\ Span(b) \subseteq Available
      /\ Available' = Available \ Span(b)
  BY <1>1, <1>3, <1>4 DEF Available
<1>8. Promise!Lend(b)
  BY <1>4, <1>5, <1>7 DEF Promise!Lend, Promise!Span, Span, Available
<1> QED
  BY <1>4, <1>6, <1>8

\* Free gives the first frame back and no frame the block did not have.
LEMMA FreeRefines ==
    ASSUME IInv, NEW b \in lent, Free(b)
    PROVE  \E c \in lent \ lent' : Promise!TakeBack(c)
<1>1. /\ totalPages \in Nat /\ b.base \in Nat /\ b.base \in Span(b)
      /\ Span(b) \subseteq 0 .. (totalPages - 1)
  BY BlockType DEF IInv, TypeOK, LentInside
<1>2. /\ used' = used \ {b.base} /\ lent' = lent \ {b}
      /\ phase # "off" /\ phase' = phase /\ totalPages' = totalPages
  <2>1. FramesWithin(b.base * PageSize, PageSize, totalPages) = {b.base}
    <3>1. b.base < totalPages
      BY <1>1
    <3> QED BY <1>1, <3>1, FreeClearsOneFrame
  <2> QED BY <2>1 DEF Free
<1>3. /\ Available \cup {b.base} \subseteq Available'
      /\ Available' \subseteq Available \cup Span(b)
  BY <1>1, <1>2 DEF Available
<1>4. Promise!TakeBack(b)
  BY <1>2, <1>3 DEF Promise!TakeBack, Promise!Span, Span, Available
<1> QED
  BY <1>2, <1>4

\* Every step of the PMM is a step of the abstract allocator or a stutter.
LEMMA NextRefines == IInv /\ IInv' /\ [Next]_vars => [Promise!Next]_(Promise!vars)
<1> SUFFICES ASSUME IInv, IInv', [Next]_vars
             PROVE  [Promise!Next]_(Promise!vars)
  OBVIOUS
<1>1. CASE BootInit
  BY <1>1, BootInitRefines DEF Promise!Next
<1>2. CASE KernelInit
  BY <1>2, KernelInitRefines DEF Promise!vars, Available
<1>3. CASE \E n \in 1 .. MaxBlock : Alloc(n)
  BY <1>3, AllocRefines DEF Promise!Next
<1>4. CASE \E b \in lent : Free(b)
  BY <1>4, FreeRefines DEF Promise!Next
<1>5. CASE UNCHANGED vars
  BY <1>5 DEF vars, Promise!vars, Available
<1> QED
  BY <1>1, <1>2, <1>3, <1>4, <1>5 DEF Next

\* ImplementsFrameAllocator of PMM: the bitmap, first fit, the one-frame Free
\* and the handoff to the kernel implement the abstract allocator.
THEOREM Refinement == Spec => ImplementsFrameAllocator
<1>1. Spec => Promise!Init /\ [][Promise!Next]_(Promise!vars)
  BY InitRefines, NextRefines, Invariance, PTL DEF Spec
<1> QED
  BY <1>1 DEF ImplementsFrameAllocator, Promise!Spec

===============================================================================
