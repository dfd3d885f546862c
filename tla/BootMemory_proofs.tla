-------------------------- MODULE BootMemory_proofs --------------------------
(***************************************************************************)
(* That initialisation never places two things at one page, and that all   *)
(* of it can be reached once the processor uses the kernel's tables, for   *)
(* every machine whose kernel, framebuffer and memory map are placed as    *)
(* the bootloader and the firmware are to place them.                      *)
(***************************************************************************)
EXTENDS BootMemory, FiniteSetTheorems, SequenceTheorems, NaturalsInduction, TLAPS

Descriptors == [conventional : BOOLEAN, start : Nat, pages : Nat]

Trees == INSTANCE PageTable_proofs WITH
  Root <- 1, Frames <- {}, VirtualPages <- {}, PhysicalPages <- {}, MaxRun <- 0,
  run <- [first |-> 0, ptr |-> 0, stop |-> 0]

-----------------------------------------------------------------------------
(* The allocator object.                                                   *)

\* A record with a size and a bitmap.
Object(a) ==
  /\ a = [x \in DOMAIN a |-> a[x]] /\ {"Size", "bits"} \subseteq DOMAIN a
  /\ a.Size \in Nat

\* What the operations do to the bitmap; the counters do not matter here.
LEMMA BitsAfter ==
  ASSUME NEW a, Object(a), NEW S
  PROVE  /\ Object(Allocator!LockPages(a, S))
         /\ Allocator!LockPages(a, S).Size = a.Size
         /\ Allocator!LockPages(a, S).bits = a.bits \cup (S \cap Allocator!Indices(a.Size))
         /\ Object(Allocator!ReservePages(a, S))
         /\ Allocator!ReservePages(a, S).Size = a.Size
         /\ Allocator!ReservePages(a, S).bits = a.bits \cup (S \cap Allocator!Indices(a.Size))
         /\ Object(Allocator!UnreservePages(a, S))
         /\ Allocator!UnreservePages(a, S).Size = a.Size
         /\ Allocator!UnreservePages(a, S).bits =
              a.bits \ (S \cap Allocator!Indices(a.Size))
  <1>1. /\ Object(Allocator!LockPages(a, S))
        /\ Allocator!LockPages(a, S).Size = a.Size
        /\ Allocator!LockPages(a, S).bits = a.bits \cup Allocator!Clear(a, S)
    BY DEF Allocator!LockPages, Object
  <1>2. /\ Object(Allocator!ReservePages(a, S))
        /\ Allocator!ReservePages(a, S).Size = a.Size
        /\ Allocator!ReservePages(a, S).bits = a.bits \cup Allocator!Clear(a, S)
    BY DEF Allocator!ReservePages, Object
  <1>3. /\ Object(Allocator!UnreservePages(a, S))
        /\ Allocator!UnreservePages(a, S).Size = a.Size
        /\ Allocator!UnreservePages(a, S).bits = a.bits \ Allocator!Marked(a, S)
    BY DEF Allocator!UnreservePages, Object
  <1>4. /\ a.bits \cup Allocator!Clear(a, S) = a.bits \cup (S \cap Allocator!Indices(a.Size))
        /\ a.bits \ Allocator!Marked(a, S) = a.bits \ (S \cap Allocator!Indices(a.Size))
    BY DEF Allocator!Clear, Allocator!Marked
  <1>. QED  BY <1>1, <1>2, <1>3, <1>4

\* Locked pages are no longer free, and no others were freed.
LEMMA FreeAfterLock ==
  ASSUME NEW a, Object(a), NEW S
  PROVE  Allocator!FreeBits(Allocator!LockPages(a, S)) = Allocator!FreeBits(a) \ S
  <1>1. Allocator!Scanned(a.Size) \subseteq Allocator!Indices(a.Size)
    BY DEF Object, Allocator!Scanned, Allocator!Indices
  <1>. QED  BY <1>1, BitsAfter DEF Allocator!FreeBits

\* The descriptors of a map say of finitely many pages.
LEMMA MemoryIsFinite ==
  ASSUME NEW m \in Seq(Descriptors)
  PROVE  IsFiniteSet(UNION {{i} \X Allocator!Run(0, m[i].pages) : i \in DOMAIN m})
  <1>. DEFINE Parts == {{i} \X Allocator!Run(0, m[i].pages) : i \in DOMAIN m}
              f == [i \in DOMAIN m |-> {i} \X Allocator!Run(0, m[i].pages)]
  <1>1. /\ DOMAIN m = 1 .. Len(m) /\ Len(m) \in Nat
        /\ \A i \in DOMAIN m : m[i] \in Descriptors
    BY LenProperties
  <1>2. IsFiniteSet(DOMAIN m)
    BY <1>1, FS_Interval
  <1>3. f \in Surjection(DOMAIN m, Parts)
    BY DEF Surjection
  <1>4. IsFiniteSet(Parts)
    BY <1>2, <1>3, FS_Surjection
  <1>5. ASSUME NEW i \in DOMAIN m PROVE IsFiniteSet({i} \X Allocator!Run(0, m[i].pages))
    <2>1. IsFiniteSet(Allocator!Run(0, m[i].pages))
      BY <1>1, FS_Interval DEF Allocator!Run, Descriptors
    <2>. QED  BY <2>1, FS_Singleton, FS_Product
  <1>6. IsFiniteSet(UNION Parts)
    BY <1>4, <1>5, FS_UNION
  <1>. QED  BY <1>6

\* The size of a memory map is a natural number.
LEMMA MemorySizeType ==
  ASSUME NEW m \in Seq(Descriptors)
  PROVE  Allocator!GetMemorySize(m) \in Nat /\ Allocator!BitmapBytes(m) \in Nat
  <1>. DEFINE all == UNION {{i} \X Allocator!Run(0, m[i].pages) : i \in DOMAIN m}
  <1>1. Allocator!GetMemorySize(m) = Cardinality(all)
    BY DEF Allocator!GetMemorySize, Allocator!Cardinality, Cardinality
  <1>2. Allocator!GetMemorySize(m) \in Nat
    BY <1>1, MemoryIsFinite, FS_CardinalityType
  <1>. QED  BY <1>2 DEF Allocator!BitmapBytes

\* What is free once the map is read may be served.
LEMMA MapReadServes ==
  ASSUME NEW m \in Seq(Descriptors), NEW stray \in {0, 1}
  PROVE  /\ Object(Allocator!MapRead(m, stray))
         /\ Allocator!FreeBits(Allocator!MapRead(m, stray)) \subseteq Allocator!ServablePages(m)
  <1>. DEFINE zero == Allocator!InitBitmap(m, stray)
              P    == Allocator!GetMemorySize(m)
              n    == Allocator!BitmapBytes(m)
              conv == Allocator!ConventionalPages(m)
              lowS == Allocator!Run(0, LowPages)
              bmS  == Allocator!BitmapPages(m)
              A    == Allocator!ReservePages(zero, 0 .. P)
              B    == Allocator!UnreservePages(A, conv)
              C    == Allocator!ReservePages(B, lowS)
              D    == Allocator!LockPages(C, bmS)
  <1>1. P \in Nat /\ n \in Nat
    BY MemorySizeType
  <1>2. Object(zero) /\ zero.Size = n
    BY <1>1 DEF Allocator!InitBitmap, Object
  <1>3. D = Allocator!MapRead(m, stray)
    BY DEF Allocator!MapRead
  <1>. HIDE DEF zero, P, n, conv, lowS, bmS
  <1>4. Object(A) /\ A.Size = n /\ (0 .. P) \cap Allocator!Indices(n) \subseteq A.bits
    <2>1. A.bits = zero.bits \cup ((0 .. P) \cap Allocator!Indices(n))
      BY <1>2, BitsAfter
    <2>2. Object(A) /\ A.Size = n
      BY <1>2, BitsAfter
    <2>. HIDE DEF A
    <2>. QED  BY <2>1, <2>2
  <1>. HIDE DEF A
  <1>5. Object(B) /\ B.Size = n /\ B.bits = A.bits \ (conv \cap Allocator!Indices(n))
    BY <1>4, BitsAfter
  <1>. HIDE DEF B
  <1>6. Object(C) /\ C.Size = n /\ C.bits = B.bits \cup (lowS \cap Allocator!Indices(n))
    BY <1>5, BitsAfter
  <1>. HIDE DEF C
  <1>7. Object(D) /\ D.Size = n /\ D.bits = C.bits \cup (bmS \cap Allocator!Indices(n))
    BY <1>6, BitsAfter
  <1>. HIDE DEF D
  <1>8. ASSUME NEW i \in Allocator!FreeBits(D)
        PROVE  i \in Allocator!ServablePages(m)
    <2>1. i \in 0 .. n * 8 - 1 /\ i \in Allocator!Indices(n) /\ i \notin D.bits
      BY <1>1, <1>7 DEF Allocator!FreeBits, Allocator!Scanned, Allocator!Indices
    <2>2. i \notin bmS /\ i \notin lowS /\ i \notin B.bits
      BY <2>1, <1>6, <1>7
    <2>3. CASE i \in conv
      BY <2>2, <2>3 DEF Allocator!ServablePages, Allocator!UsablePages, conv, lowS, bmS
    <2>4. CASE i \notin conv
      <3>1. i \notin 0 .. P
        BY <2>1, <2>2, <2>4, <1>4, <1>5
      <3>2. i \in Allocator!TailPages(m)
        BY <3>1, <2>1, <1>1 DEF Allocator!TailPages, P, n
      <3>. QED  BY <3>2, <2>2 DEF Allocator!ServablePages, lowS, bmS
    <2>. QED  BY <2>3, <2>4
  <1>. QED  BY <1>3, <1>7, <1>8

-----------------------------------------------------------------------------
(* The frames the page tables take.                                        *)

LEMMA HasLeast ==
  ASSUME NEW S \in SUBSET Nat, S # {}
  PROVE  \E p \in S : \A q \in S : p <= q
  <1>1. PICK p \in S : \A q \in S : <<q, p>> \notin OpToRel(<, Nat)
    BY WFMin, NatLessThanWellFounded
  <1>2. ASSUME NEW q \in S PROVE p <= q
    <2>1. <<q, p>> \in Nat \X Nat /\ p \in Nat /\ q \in Nat
      OBVIOUS
    <2>2. ~(q < p)
      BY <1>1, <2>1 DEF OpToRel
    <2>. QED  BY <2>1, <2>2
  <1>. QED  BY <1>2

\* A request takes a page of the pool, unless that is empty.
LEMMA LowestTaken ==
  ASSUME NEW S \in SUBSET Nat, S # {}
  PROVE  Tables!RequestPage(S) \in S
  BY HasLeast DEF Tables!RequestPage, Tables!Lowest

IsTree(tree) ==
  /\ tree = [mem |-> tree.mem, free |-> tree.free, refused |-> tree.refused]
  /\ tree.free \subseteq Nat \ {0}

\* A tree that took the frames it grew by, NULL apart, and forgot no refusal.
Grows(tree, tree2) ==
  /\ IsTree(tree2)
  /\ tree.refused \in Nat => tree2.refused \in Nat /\ tree.refused <= tree2.refused
  /\ tree2.free \subseteq tree.free
  /\ DOMAIN tree2.mem \ {0} = (DOMAIN tree.mem \ {0}) \cup (tree.free \ tree2.free)

\* WithTable takes a frame exactly when it adds one.
LEMMA TableGrows ==
  ASSUME NEW tree, IsTree(tree), NEW t, NEW i
  PROVE  Grows(tree, Tables!WithTable(tree, t, i))
  <1>. DEFINE f == Tables!RequestPage(tree.free)
              cleared == [x \in DOMAIN tree.mem \cup {f} |->
                            IF x = f THEN Tables!ZeroTable ELSE tree.mem[x]]
              mem2 == [cleared EXCEPT ![t][i] = Tables!Entry(f)]
  <1>1. CASE tree.mem[t][i].present
    BY <1>1 DEF Tables!WithTable, Grows
  <1>2. CASE ~tree.mem[t][i].present
    <2>. DEFINE tree2 == Tables!WithTable(tree, t, i)
    <2>1. /\ tree2 = [mem |-> tree2.mem, free |-> tree2.free, refused |-> tree2.refused]
          /\ Tables!WithTable(tree, t, i).mem = mem2
          /\ Tables!WithTable(tree, t, i).free = tree.free \ {f}
          /\ tree2.refused \in {tree.refused, tree.refused + 1}
      BY <1>2 DEF Tables!WithTable
    <2>2. DOMAIN mem2 = DOMAIN tree.mem \cup {f}
      <3>. HIDE DEF f
      <3>. QED  OBVIOUS
    <2>3. f \in tree.free \/ (tree.free = {} /\ f = 0)
      <3>1. CASE tree.free = {}
        BY <3>1 DEF Tables!RequestPage
      <3>2. CASE tree.free # {}
        <4>1. tree.free \in SUBSET Nat
          BY DEF IsTree
        <4>. QED  BY <3>2, <4>1, LowestTaken DEF f
      <3>. QED  BY <3>1, <3>2
    <2>. HIDE DEF f, mem2, tree2
    <2>. QED  BY <2>1, <2>2, <2>3 DEF Grows, IsTree, tree2
  <1>. QED  BY <1>1, <1>2

\* So does Mapped, for the three tables it may need.
LEMMA MappedGrows ==
  ASSUME NEW tree, IsTree(tree), NEW v, NEW p
  PROVE  Grows(tree, Tables!Mapped(tree, v, p))
  <1>. DEFINE tree1 == Tables!WithTable(tree, PML4, Tables!Index(v, 3))
              PDP   == Tables!Child(tree1, PML4, Tables!Index(v, 3))
              tree2 == Tables!WithTable(tree1, PDP, Tables!Index(v, 2))
              PD    == Tables!Child(tree2, PDP, Tables!Index(v, 2))
              tree3 == Tables!WithTable(tree2, PD, Tables!Index(v, 1))
              PT    == Tables!Child(tree3, PD, Tables!Index(v, 1))
              last  == Tables!Mapped(tree, v, p)
  <1>1. last = [tree3 EXCEPT !.mem[PT][Tables!Index(v, 0)] = Tables!Entry(p)]
    BY DEF Tables!Mapped
  <1>2. Grows(tree, tree1)
    BY TableGrows
  <1>. HIDE DEF tree1
  <1>3. Grows(tree1, tree2)
    BY <1>2, TableGrows DEF Grows
  <1>. HIDE DEF tree2
  <1>4. Grows(tree2, tree3)
    BY <1>3, TableGrows DEF Grows
  <1>. HIDE DEF tree3, PT, last
  <1>5. /\ last = [mem |-> last.mem, free |-> last.free, refused |-> last.refused]
        /\ DOMAIN last.mem = DOMAIN tree3.mem /\ last.free = tree3.free
        /\ last.refused = tree3.refused
    BY <1>1, <1>4 DEF Grows, IsTree
  <1>6. Grows(tree, tree2)
    BY <1>2, <1>3 DEF Grows
  <1>7. Grows(tree, tree3)
    BY <1>4, <1>6 DEF Grows
  <1>. QED  BY <1>5, <1>7 DEF Grows, IsTree, last

-----------------------------------------------------------------------------
(* The inductive invariant: what is placed was free, and free memory is    *)
(* neither the kernel nor anything placed.                                 *)

Free == Allocator!FreeBits(g_Allocator)

Placed == TableFrames \cup heapFrames

Servable == Allocator!ServablePages(machine.mMap)

MapKnown ==
  /\ Object(g_Allocator)
  /\ Free \cup Placed \subseteq Servable
  /\ Free \cap Placed = {} /\ TableFrames \cap heapFrames = {}

BootInv ==
  /\ machine \in Machines
  /\ pc \in {"ReadEFIMemoryMap", "LockKernel", "RequestPML4"} => Placed = {}
  /\ pc \notin {"ReadEFIMemoryMap", "Panic"} => MapKnown
  /\ pc \notin {"ReadEFIMemoryMap", "Panic", "LockKernel"} => (Free \cup Placed) \cap Kernel = {}

\* Nothing is placed before the map is read.
LEMMA BootInitially == Init => BootInv
  BY DEF Init, BootInv, Placed, TableFrames

\* NULL is never free.
LEMMA NullNotServable == 0 \notin Servable
  <1>1. 0 \in Allocator!Run(0, LowPages)
    BY MachinesAssumption DEF Allocator!Run
  <1>. QED  BY <1>1 DEF Servable, Allocator!ServablePages, Allocator!UsablePages

\* What may be requested is free; all of it is a number.
LEMMA FreeIsNatural ==
  ASSUME MapKnown
  PROVE  free \subseteq Free /\ Free \subseteq Nat \ {0}
  <1>1. free \subseteq Free
    BY DEF free, Free, Allocator!Candidates, Allocator!FreeBits
  <1>2. Free \subseteq Nat
    BY DEF MapKnown, Object, Free, Allocator!FreeBits, Allocator!Scanned
  <1>. QED  BY <1>1, <1>2, NullNotServable DEF MapKnown

\* The allocator has served the frames of S: they are free no longer.
LEMMA ServedTakes ==
  ASSUME MapKnown, NEW S, NEW b, Served(S, b)
  PROVE  Object(g_Allocator)' /\ Free' = Free \ S
  <1>. DEFINE a == Allocator!LockPages(g_Allocator, S)
  <1>1. Object(a) /\ Allocator!FreeBits(a) = Free \ S
    BY BitsAfter, FreeAfterLock DEF MapKnown, Free
  <1>2. \E c : g_Allocator' = [a EXCEPT !.pageBitmapIndex = c]
    BY DEF Served
  <1>. HIDE DEF a
  <1>3. Object(g_Allocator') /\ g_Allocator'.Size = a.Size /\ g_Allocator'.bits = a.bits
    BY <1>1, <1>2 DEF Object
  <1>4. Allocator!FreeBits(g_Allocator') = Allocator!FreeBits(a)
    BY <1>3 DEF Allocator!FreeBits
  <1>. QED  BY <1>1, <1>3, <1>4 DEF Free, Object

\* A page is mapped: new tables were free, and nothing else changes hands.
LEMMA MapMemoryTakes ==
  ASSUME MapKnown, NEW v, NEW p, NEW own \in SUBSET free, MapMemory(v, p, own)
  PROVE  \E new \in SUBSET (free \ own) :
           /\ Object(g_Allocator)'
           /\ Free' = Free \ (own \cup new)
           /\ TableFrames' = TableFrames \cup new
  <1>. DEFINE tree == [mem |-> mem, free |-> free \ own, refused |-> refused]
              tree2 == Tables!Mapped(tree, v, p)
              new == (free \ own) \ tree2.free
  <1>1. IsTree(tree)
    BY FreeIsNatural DEF IsTree
  <1>2. Grows(tree, tree2)
    BY <1>1, MappedGrows
  <1>3. mem' = tree2.mem /\ Served(free \ tree2.free, tree2.refused > refused)
    BY DEF MapMemory
  <1>4. tree.free = free \ own /\ tree.mem = mem
    OBVIOUS
  <1>. HIDE DEF tree, tree2
  <1>5. /\ tree2.free \subseteq free \ own
        /\ DOMAIN mem' \ {0} = (DOMAIN mem \ {0}) \cup new
    BY <1>2, <1>3, <1>4 DEF Grows
  <1>6. free \ tree2.free = own \cup new
    BY <1>5
  <1>7. Object(g_Allocator)' /\ Free' = Free \ (own \cup new)
    BY <1>3, <1>6, ServedTakes
  <1>. QED  BY <1>5, <1>7 DEF TableFrames

-----------------------------------------------------------------------------
(* The steps.                                                              *)

\* The map of a machine.
LEMMA MapOfMachine ==
  ASSUME machine \in Machines
  PROVE  machine.mMap \in Seq(Descriptors)
  BY MachinesAssumption DEF Descriptors

\* What is free once the map is read may be served.
LEMMA ReadKeeps == BootInv /\ ReadEFIMemoryMap => BootInv'
  <1>. SUFFICES ASSUME BootInv, ReadEFIMemoryMap PROVE BootInv'
    OBVIOUS
  <1>1. /\ machine' = machine /\ machine \in Machines
        /\ Placed = {} /\ Placed' = {} /\ TableFrames' \cap heapFrames' = {}
        /\ pc' \in {"Panic", "LockKernel"}
    BY DEF BootInv, ReadEFIMemoryMap, At, Placed, TableFrames
  <1>2. CASE Allocator!Rejected(machine.mMap)
    <2>1. pc' = "Panic"
      BY <1>2 DEF ReadEFIMemoryMap, At
    <2>. QED  BY <1>1, <2>1 DEF BootInv
  <1>3. CASE ~Allocator!Rejected(machine.mMap)
    <2>1. PICK stray \in {0, 1} : g_Allocator' = Allocator!MapRead(machine.mMap, stray)
      BY <1>3 DEF ReadEFIMemoryMap, Allocator!ReadEFIMemoryMap
    <2>2. Object(g_Allocator') /\ Allocator!FreeBits(g_Allocator') \subseteq Servable
      BY <1>1, <2>1, MapOfMachine, MapReadServes DEF Servable
    <2>3. MapKnown'
      BY <1>1, <2>2 DEF MapKnown, Object, Free, Servable, Placed
    <2>4. pc' = "LockKernel"
      BY <1>3 DEF ReadEFIMemoryMap, At
    <2>. QED  BY <1>1, <2>3, <2>4 DEF BootInv
  <1>. QED  BY <1>2, <1>3

\* Locking takes from what is free only.
LEMMA LockTakes ==
  ASSUME MapKnown, NEW S, Allocator!Lock(S), UNCHANGED <<machine, mem, heapFrames>>
  PROVE  /\ MapKnown' /\ Free' = Free \ S
         /\ Placed' = Placed /\ Kernel' = Kernel
  <1>1. g_Allocator' = Allocator!LockPages(g_Allocator, S)
    BY DEF Allocator!Lock
  <1>2. Object(g_Allocator') /\ Allocator!FreeBits(g_Allocator') = Free \ S
    BY <1>1, BitsAfter, FreeAfterLock DEF MapKnown, Free
  <1>. QED  BY <1>2 DEF MapKnown, Object, Free, Servable, Placed, TableFrames, Kernel

\* Nothing was placed before; the kernel's pages are not free from now on.
LEMMA LockKernelKeeps == BootInv /\ LockKernel => BootInv'
  <1>. SUFFICES ASSUME BootInv, LockKernel PROVE BootInv'
    OBVIOUS
  <1>1. /\ pc = "LockKernel" /\ pc' = "RequestPML4"
        /\ machine \in Machines /\ machine' = machine /\ Placed = {} /\ MapKnown
    BY DEF BootInv, LockKernel, At
  <1>2. /\ MapKnown' /\ Placed' = Placed /\ Kernel' = Kernel
        /\ Free' = Free \ (Kernel \cup {machine.kernel.first + machine.kernel.pages})
    BY <1>1, LockTakes DEF LockKernel
  <1>. QED  BY <1>1, <1>2 DEF BootInv

\* RequestPage answers with a free page.
LEMMA FoundIsFree ==
  ASSUME MapKnown, Allocator!PageFound
  PROVE  returned' \in Free /\ held' = held \cup {returned'}
  <1>1. /\ free # {} /\ free \in SUBSET Nat /\ free \subseteq Free
        /\ returned' = Allocator!LowestOf(free) /\ held' = held \cup {returned'}
    BY FreeIsNatural DEF Allocator!PageFound, free
  <1>2. Tables!RequestPage(free) \in free
    BY <1>1, LowestTaken
  <1>3. Tables!RequestPage(free) = Allocator!LowestOf(free)
    BY <1>1 DEF Tables!RequestPage, Tables!Lowest, Allocator!LowestOf
  <1>. QED  BY <1>1, <1>2, <1>3

\* The root table is put into a free page.
LEMMA RequestKeeps == BootInv /\ RequestPML4 => BootInv'
  <1>. SUFFICES ASSUME BootInv, RequestPML4 PROVE BootInv'
    OBVIOUS
  <1>1. /\ pc = "RequestPML4" /\ machine \in Machines /\ machine' = machine
        /\ Placed = {} /\ MapKnown /\ (Free \cup Placed) \cap Kernel = {}
        /\ heapFrames' = heapFrames /\ mem' = [f \in {PML4'} |-> Tables!ZeroTable]
    BY DEF BootInv, RequestPML4, At
  <1>2. CASE free = {}
    <2>1. pc' = "Panic"
      BY <1>2 DEF RequestPML4, At
    <2>. QED  BY <1>1, <2>1 DEF BootInv
  <1>3. CASE free # {}
    <2>1. /\ pc' = "MapMemoryMap" /\ PML4' = returned'
          /\ returned' = Allocator!LowestOf(free)
          /\ g_Allocator' = Allocator!LockPages(
                              [g_Allocator EXCEPT !.pageBitmapIndex = returned'], {returned'})
      BY <1>3 DEF RequestPML4, At, Allocator!PageFound, free
    <2>2. returned' \in Free
      <3>1. Allocator!PageFound
        BY <1>3 DEF RequestPML4, At, free
      <3>. QED  BY <1>1, <3>1, FoundIsFree
    <2>. DEFINE a == [g_Allocator EXCEPT !.pageBitmapIndex = returned']
    <2>3. Object(a) /\ Allocator!FreeBits(a) = Free
      <3>1. Object(g_Allocator)
        BY <1>1 DEF MapKnown
      <3>2. Object(a) /\ a.Size = g_Allocator.Size /\ a.bits = g_Allocator.bits
        BY <3>1 DEF Object
      <3>. QED  BY <3>2 DEF Allocator!FreeBits, Free
    <2>. HIDE DEF a
    <2>4. /\ Object(g_Allocator') /\ Allocator!FreeBits(g_Allocator') = Free \ {returned'}
      BY <2>1, <2>3, BitsAfter, FreeAfterLock DEF a
    <2>5. heapFrames' = {} /\ TableFrames' \subseteq {returned'}
      BY <1>1, <2>1 DEF Placed, TableFrames
    <2>6. Free' = Free \ {returned'} /\ Placed' \subseteq {returned'}
      BY <2>4, <2>5 DEF Free, Placed
    <2>7. MapKnown'
      BY <1>1, <2>2, <2>4, <2>5, <2>6 DEF MapKnown, Object, Servable
    <2>8. (Free' \cup Placed') \cap Kernel' = {}
      BY <1>1, <2>2, <2>6 DEF Kernel
    <2>. QED  BY <1>1, <2>1, <2>7, <2>8 DEF BootInv
  <1>. QED  BY <1>2, <1>3

\* What the steps that map a page have in common.
LEMMA MapKeeps ==
  ASSUME BootInv, pc \notin {"ReadEFIMemoryMap", "LockKernel", "RequestPML4", "Panic"},
         NEW v, NEW p, NEW own \in SUBSET free, MapMemory(v, p, own),
         heapFrames' = heapFrames \cup own, machine' = machine,
         pc' \notin {"ReadEFIMemoryMap", "LockKernel", "RequestPML4"}
  PROVE  BootInv'
  <1>1. MapKnown /\ (Free \cup Placed) \cap Kernel = {} /\ machine \in Machines
    BY DEF BootInv
  <1>2. PICK new \in SUBSET (free \ own) :
          /\ Object(g_Allocator)'
          /\ Free' = Free \ (own \cup new)
          /\ TableFrames' = TableFrames \cup new
    BY <1>1, MapMemoryTakes
  <1>3. free \subseteq Free
    BY <1>1, FreeIsNatural
  <1>4. Placed' = Placed \cup own \cup new
    BY <1>2 DEF Placed
  <1>5. MapKnown'
    BY <1>1, <1>2, <1>3, <1>4 DEF MapKnown, Servable, Placed
  <1>6. (Free' \cup Placed') \cap Kernel' = {}
    BY <1>1, <1>2, <1>3, <1>4 DEF Kernel
  <1>. QED  BY <1>1, <1>5, <1>6 DEF BootInv

\* A step that changes nothing of all this.
LEMMA OthersKeep ==
  ASSUME BootInv, pc \notin {"ReadEFIMemoryMap", "LockKernel", "RequestPML4", "Panic"},
         UNCHANGED <<machine, g_Allocator, mem, heapFrames>>,
         pc' \notin {"ReadEFIMemoryMap", "LockKernel", "RequestPML4"}
  PROVE  BootInv'
  BY DEF BootInv, MapKnown, Object, Free, Placed, TableFrames, Servable, Kernel

\* An identity mapping takes tables only.
LEMMA IdentityMapKeeps ==
  ASSUME BootInv, NEW step, NEW next, NEW stop, IdentityMap(step, next, stop),
         step \in {"MapMemoryMap", "MapFramebuffer"},
         next \in {"LockFramebuffer", "LoadCR3"}
  PROVE  BootInv'
  <1>1. /\ pc = step /\ machine' = machine /\ heapFrames' = heapFrames
    BY DEF IdentityMap
  <1>2. CASE ptr < stop
    <2>1. MapMemory(ptr, ptr, {}) /\ pc' = pc
      BY <1>2 DEF IdentityMap
    <2>. QED  BY <1>1, <2>1, MapKeeps
  <1>3. CASE ~(ptr < stop)
    <2>1. pc' = next /\ UNCHANGED <<g_Allocator, mem>>
      BY <1>3 DEF IdentityMap
    <2>. QED  BY <1>1, <2>1, OthersKeep
  <1>. QED  BY <1>2, <1>3

\* Locking the framebuffer places nothing.
LEMMA FramebufferKeeps == BootInv /\ LockFramebuffer => BootInv'
  <1>. SUFFICES ASSUME BootInv, LockFramebuffer PROVE BootInv'
    OBVIOUS
  <1>. DEFINE S == Allocator!Run(machine.framebuffer.first, machine.framebuffer.pages + 2)
  <1>1. /\ pc = "LockFramebuffer" /\ pc' = "MapFramebuffer"
        /\ machine \in Machines /\ machine' = machine
        /\ MapKnown /\ (Free \cup Placed) \cap Kernel = {}
    BY DEF BootInv, LockFramebuffer, At
  <1>2. MapKnown' /\ Placed' = Placed /\ Kernel' = Kernel /\ Free' = Free \ S
    <2>1. Allocator!Lock(S) /\ UNCHANGED <<machine, mem, heapFrames>>
      BY DEF LockFramebuffer
    <2>. HIDE DEF S
    <2>. QED  BY <1>1, <2>1, LockTakes
  <1>. QED  BY <1>1, <1>2 DEF BootInv

\* A page of the heap was free, and is not one of the tables requested for it.
LEMMA CreateHeapKeeps == BootInv /\ CreateHeap => BootInv'
  <1>. SUFFICES ASSUME BootInv, CreateHeap PROVE BootInv'
    OBVIOUS
  <1>1. pc = "CreateHeap" /\ machine' = machine
    BY DEF CreateHeap
  <1>2. CASE HeapPage
    <2>. DEFINE f == Tables!RequestPage(free)
    <2>1. /\ MapMemory(ptr, f, {f}) /\ free # {}
          /\ heapFrames' = heapFrames \cup {f} /\ pc' \in {"CreateHeap", "PageFault"}
      BY <1>2 DEF HeapPage
    <2>2. f \in free
      <3>1. free \in SUBSET Nat
        BY <1>1, FreeIsNatural DEF BootInv
      <3>. QED  BY <2>1, <3>1, LowestTaken
    <2>. HIDE DEF f
    <2>. QED  BY <1>1, <2>1, <2>2, MapKeeps
  <1>3. CASE HeapRefused \/ HeapCreated
    BY <1>1, <1>3, OthersKeep DEF HeapRefused, HeapCreated
  <1>. QED  BY <1>2, <1>3 DEF CreateHeap

\* Every step of the initialisation.
LEMMA BootStep == BootInv /\ [Next]_vars => BootInv'
  <1>. SUFFICES ASSUME BootInv, [Next]_vars PROVE BootInv'
    OBVIOUS
  <1>1. CASE ReadEFIMemoryMap
    BY <1>1, ReadKeeps
  <1>2. CASE LockKernel
    BY <1>2, LockKernelKeeps
  <1>3. CASE RequestPML4
    BY <1>3, RequestKeeps
  <1>4. CASE MapMemoryMap
    BY <1>4, IdentityMapKeeps DEF MapMemoryMap
  <1>5. CASE LockFramebuffer
    BY <1>5, FramebufferKeeps
  <1>6. CASE MapFramebuffer
    BY <1>6, IdentityMapKeeps DEF MapFramebuffer
  <1>7. CASE LoadCR3
    <2>1. /\ pc = "LoadCR3" /\ pc' \in {"CreateHeap", "PageFault"}
          /\ UNCHANGED <<machine, g_Allocator, mem, heapFrames>>
      BY <1>7 DEF LoadCR3, At
    <2>. QED  BY <2>1, OthersKeep
  <1>8. CASE CreateHeap
    BY <1>8, CreateHeapKeeps
  <1>9. CASE UNCHANGED vars
    BY <1>9 DEF vars, BootInv, MapKnown, Object, Free, Placed, TableFrames, Servable, Kernel
  <1>. QED  BY <1>1, <1>2, <1>3, <1>4, <1>5, <1>6, <1>7, <1>8, <1>9 DEF Next

-----------------------------------------------------------------------------
(* What follows.                                                           *)

\* The invariant sets the six parts apart, each from each.
LEMMA BootInvMeans == BootInv => NothingOverlaps
  <1>. SUFFICES ASSUME BootInv, InMemory, WellPlaced
                PROVE  LET parts == <<Kernel, Bitmap, TableFrames, Framebuffer,
                                      heapFrames, free>>
                       IN  \A i, j \in DOMAIN parts : i < j => parts[i] \cap parts[j] = {}
    BY DEF NothingOverlaps
  <1>1. MapKnown /\ (Free \cup Placed) \cap Kernel = {} /\ free \subseteq Free
    BY FreeIsNatural DEF BootInv, InMemory
  <1>. DEFINE conv == Allocator!ConventionalPages(machine.mMap)
              tail == Allocator!TailPages(machine.mMap)
  <1>2. /\ Kernel \cap Framebuffer = {} /\ (Kernel \cup Framebuffer) \cap conv = {}
        /\ Bitmap \subseteq conv /\ Framebuffer \cap tail = {}
    BY DEF WellPlaced
  <1>3. Servable \subseteq (conv \cup tail) \ Bitmap
    BY DEF Servable, Bitmap, Allocator!ServablePages, Allocator!UsablePages
  <1>. HIDE DEF conv, tail
  <1>4. /\ Kernel \cap Bitmap = {} /\ Kernel \cap TableFrames = {}
        /\ Kernel \cap Framebuffer = {} /\ Kernel \cap heapFrames = {} /\ Kernel \cap free = {}
    BY <1>1, <1>2 DEF Placed
  <1>5. /\ Bitmap \cap TableFrames = {} /\ Bitmap \cap Framebuffer = {}
        /\ Bitmap \cap heapFrames = {} /\ Bitmap \cap free = {}
    BY <1>1, <1>2, <1>3 DEF MapKnown, Placed
  <1>6. /\ TableFrames \cap Framebuffer = {} /\ Framebuffer \cap heapFrames = {}
        /\ Framebuffer \cap free = {}
    BY <1>1, <1>2, <1>3 DEF MapKnown, Placed
  <1>7. TableFrames \cap heapFrames = {} /\ TableFrames \cap free = {} /\ heapFrames \cap free = {}
    BY <1>1 DEF MapKnown, Placed
  <1>. DEFINE parts == <<Kernel, Bitmap, TableFrames, Framebuffer, heapFrames, free>>
  <1>8. /\ DOMAIN parts = 1 .. 6
        /\ parts[1] = Kernel /\ parts[2] = Bitmap /\ parts[3] = TableFrames
        /\ parts[4] = Framebuffer /\ parts[5] = heapFrames /\ parts[6] = free
    OBVIOUS
  <1>. HIDE DEF parts
  <1>9. ASSUME NEW i \in 1 .. 6, NEW j \in 1 .. 6, i < j
        PROVE  parts[i] \cap parts[j] = {}
    <2>1. \/ i = 1 /\ j \in 2 .. 6
          \/ i = 2 /\ j \in 3 .. 6
          \/ i = 3 /\ j \in 4 .. 6
          \/ i = 4 /\ j \in 5 .. 6
          \/ i = 5 /\ j = 6
      BY <1>9
    <2>2. CASE i = 1
      BY <2>2, <1>4, <1>8, <1>9
    <2>3. CASE i = 2
      BY <2>3, <1>5, <1>8, <1>9
    <2>4. CASE i = 3
      BY <2>4, <1>6, <1>7, <1>8, <1>9
    <2>5. CASE i = 4
      BY <2>5, <1>6, <1>8, <1>9
    <2>6. CASE i = 5
      BY <2>6, <1>7, <1>8, <1>9
    <2>. QED  BY <2>1, <2>2, <2>3, <2>4, <2>5, <2>6
  <1>. QED  BY <1>8, <1>9 DEF parts

\* Kernel, bitmap, page tables, framebuffer, heap and what is left to be requested
\* never share a page, whatever the memory map and however the requests for tables
\* fall, on a well placed machine.
THEOREM NothingEverOverlaps == Spec => []NothingOverlaps
  <1>1. Spec => []BootInv
    BY BootInitially, BootStep, PTL DEF Spec
  <1>. QED  BY <1>1, BootInvMeans, PTL

-----------------------------------------------------------------------------
(* The tables of PageTable_proofs are those of the kernel.                 *)

\* What PageTable assumes of its constants.
LEMMA TreesAssumed ==
  /\ Entries \in Nat \ {0, 1}
  /\ 1 \in Nat \ {0} /\ {} \subseteq Nat \ {0, 1} /\ Trees!IsFiniteSet({})
  /\ {} \subseteq 0 .. Entries * Entries * Entries * Entries - 1
  /\ {} \subseteq Nat
  /\ 0 \in Nat
  BY MachinesAssumption, FS_EmptySet DEF IsFiniteSet, Trees!IsFiniteSet

LEMMA IndexIs ==
  ASSUME NEW v, NEW k
  PROVE  Tables!Index(v, k) = Trees!Index(v, k)
  BY DEF Tables!Index, Trees!Index

LEMMA EntryIs ==
  /\ \A f : Tables!Entry(f) = Trees!Entry(f)
  /\ Tables!ZeroTable = Trees!ZeroTable
  BY DEF Tables!Entry, Trees!Entry, Tables!ZeroTable, Trees!ZeroTable,
         Tables!Clear, Trees!Clear, Tables!Indexes, Trees!Indexes

LEMMA RequestPageIs ==
  ASSUME NEW S
  PROVE  Tables!RequestPage(S) = Trees!RequestPage(S)
  BY DEF Tables!RequestPage, Trees!RequestPage, Tables!Lowest, Trees!Lowest

LEMMA WithTableIs ==
  ASSUME NEW tree, NEW t, NEW i
  PROVE  Tables!WithTable(tree, t, i) = Trees!WithTable(tree, t, i)
  BY EntryIs, RequestPageIs DEF Tables!WithTable, Trees!WithTable

LEMMA MappedIs ==
  ASSUME NEW tree, NEW v, NEW p
  PROVE  Tables!Mapped(tree, v, p) = Trees!Mapped(tree, v, p)
  BY EntryIs, IndexIs, WithTableIs
     DEF Tables!Mapped, Trees!Mapped, Tables!Child, Trees!Child

LEMMA LeafIs ==
  ASSUME NEW m, NEW v
  PROVE  Tables!HasLeaf(m, v) = Trees!HasLeaf(m, v) /\ Tables!Leaf(m, v) = Trees!Leaf(m, v)
  BY IndexIs DEF Tables!HasLeaf, Trees!HasLeaf, Tables!Leaf, Trees!Leaf,
                 Tables!LeafTable, Trees!LeafTable

LEMMA PagesAre == Tables!AllPages = Trees!AllPages /\ Tables!AllPages \subseteq Nat
  <1>1. Tables!AllPages = Trees!AllPages
    BY DEF Tables!AllPages, Trees!AllPages
  <1>2. \A v \in Trees!AllPages : v \in Nat
    BY TreesAssumed, Trees!PagesIndexed
  <1>. QED  BY <1>1, <1>2

\* The tables m under root are a tree of four levels, none of them at NULL.
WellFormed(m, root) ==
  /\ Trees!TypedTables(m) /\ 0 \notin DOMAIN m
  /\ \E lvl : Trees!Shaped(m, root, lvl)

LEMMA MappedMaps ==
  ASSUME NEW root, PML4 = root, NEW tree, IsTree(tree), tree.refused = 0,
         WellFormed(tree.mem, root), (DOMAIN tree.mem) \cap tree.free = {},
         NEW v \in Tables!AllPages, NEW p \in Nat,
         NEW R, R = Tables!Mapped(tree, v, p), R.refused = 0
  PROVE  /\ WellFormed(R.mem, root)
         /\ Trees!MapsOnly(tree.mem, R.mem, root, v, p)
  <1>1. PICK lvl : Trees!TypedTables(tree.mem) /\ Trees!Shaped(tree.mem, root, lvl)
    BY DEF WellFormed
  <1>2. Trees!Sound(tree, root, lvl)
    BY <1>1 DEF Trees!Sound, IsTree, WellFormed
  <1>3. Trees!IsTree(tree)
    BY DEF IsTree, Trees!IsTree
  <1>4. v \in Trees!AllPages /\ R = Trees!Mapped(tree, v, p)
    BY PagesAre, MappedIs
  <1>5. /\ \E lvl2 : Trees!Sound(R, root, lvl2)
        /\ Trees!MapsOnly(tree.mem, R.mem, root, v, p)
    BY <1>2, <1>3, <1>4, TreesAssumed, Trees!MappedStep
  <1>6. PICK lvl2 : Trees!Sound(R, root, lvl2)
    BY <1>5
  <1>7. WellFormed(R.mem, root)
    BY <1>6 DEF WellFormed, Trees!Sound
  <1>. QED  BY <1>5, <1>7

\* A page the tables translate to itself is one the processor reaches by it.
LEMMA TranslatesIdentity ==
  ASSUME NEW m, WellFormed(m, PML4), NEW v \in Tables!AllPages,
         Trees!Translates(m, PML4, v, v)
  PROVE  Tables!HasLeaf(m, v) /\ Tables!Leaf(m, v) = Tables!Entry(v)
  <1>1. PICK root, lvl :
          /\ PML4 = root /\ Trees!TypedTables(m) /\ Trees!Shaped(m, root, lvl)
    BY DEF WellFormed
  <1>2. v \in Trees!AllPages
    BY PagesAre
  <1>3. /\ Trees!HasLeaf(m, v) /\ Trees!Leaf(m, v).present
        /\ Trees!Leaf(m, v).address = v
    BY <1>1, <1>2, TreesAssumed, Trees!WalkTranslates
  <1>4. PICK a \in DOMAIN m, b \in DOMAIN m, c \in DOMAIN m :
          Trees!Leaf(m, v) = m[c][Trees!Index(v, 0)]
    BY <1>1, <1>2, <1>3, TreesAssumed, Trees!PathOfLeaf
  <1>5. Trees!Index(v, 0) \in Trees!Indexes
    BY <1>2, TreesAssumed, Trees!PagesIndexed DEF Trees!PageIndexes
  <1>6. m[c][Trees!Index(v, 0)] \in Trees!EntryType
    BY <1>1, <1>4, <1>5 DEF Trees!TypedTables
  <1>7. Trees!Leaf(m, v) \in Trees!EntryType
    BY <1>4, <1>6
  <1>8. Trees!Leaf(m, v) = [present |-> TRUE, address |-> v]
    <2>1. PICK e : e = Trees!Leaf(m, v)
      OBVIOUS
    <2>2. e \in Trees!EntryType /\ e.present /\ e.address = v
      BY <1>3, <1>7, <2>1
    <2>3. e = [present |-> TRUE, address |-> v]
      BY <2>2 DEF Trees!EntryType
    <2>. QED  BY <2>1, <2>3
  <1>. QED  BY <1>3, <1>8, LeafIs DEF Tables!Entry

-----------------------------------------------------------------------------
(* Where memory is.                                                        *)

\* A machine whose map the allocator accepted.
Accepted == machine \in Machines /\ ~Allocator!Rejected(machine.mMap)

LEMMA DescriptorTypes ==
  ASSUME NEW m \in Seq(Descriptors), NEW i \in DOMAIN m
  PROVE  m[i].start \in Nat /\ m[i].pages \in Nat
  <1>1. m[i] \in Descriptors
    BY LenProperties
  <1>. QED  BY <1>1 DEF Descriptors

\* A descriptor has no more pages than memory has.
LEMMA NoLargerThanMemory ==
  ASSUME NEW m \in Seq(Descriptors), NEW i \in DOMAIN m
  PROVE  m[i].pages \in Nat /\ m[i].pages <= Allocator!GetMemorySize(m)
  <1>. DEFINE part(j) == {j} \X Allocator!Run(0, m[j].pages)
              all == UNION {part(j) : j \in DOMAIN m}
  <1>1. m[i].pages \in Nat
    BY DescriptorTypes
  <1>2. IsFiniteSet(all) /\ Allocator!GetMemorySize(m) = Cardinality(all)
    <2>1. IsFiniteSet(all)
      BY MemoryIsFinite
    <2>. QED  BY <2>1 DEF Allocator!GetMemorySize, Allocator!Cardinality, Cardinality
  <1>3. part(i) \subseteq all
    OBVIOUS
  <1>4. Cardinality(part(i)) = m[i].pages
    <2>1. /\ IsFiniteSet(Allocator!Run(0, m[i].pages))
          /\ Cardinality(Allocator!Run(0, m[i].pages)) = m[i].pages
      <3>1. PICK n \in Nat : n = m[i].pages
        BY <1>1
      <3>2. Allocator!Run(0, n) = 0 .. n - 1
        BY DEF Allocator!Run
      <3>3. /\ IsFiniteSet(0 .. n - 1)
            /\ Cardinality(0 .. n - 1) = IF 0 <= n - 1 THEN (n - 1) - 0 + 1 ELSE 0
        BY FS_Interval
      <3>. QED  BY <3>1, <3>2, <3>3
    <2>2. IsFiniteSet({i}) /\ Cardinality({i}) = 1
      BY FS_Singleton
    <2>3. Cardinality(part(i)) = Cardinality({i}) * Cardinality(Allocator!Run(0, m[i].pages))
      BY <2>1, <2>2, FS_Product
    <2>. QED  BY <1>1, <2>1, <2>2, <2>3
  <1>. HIDE DEF part, all
  <1>. QED  BY <1>1, <1>2, <1>3, <1>4, FS_Subset

\* The largest part of an accepted map is one of its descriptors.
LEMMA LargestIs ==
  ASSUME NEW m \in Seq(Descriptors), ~Allocator!Rejected(m)
  PROVE  /\ m # <<>> /\ 1 \in DOMAIN m
         /\ Allocator!Largest(m) \in DOMAIN m
  <1>. DEFINE C == Allocator!Conventional(m)
              P == Allocator!GetMemorySize(m)
  <1>1. /\ C \subseteq DOMAIN m /\ DOMAIN m = 1 .. Len(m) /\ Len(m) \in Nat
        /\ P \in Nat /\ m # <<>>
    BY LenProperties, MemorySizeType DEF Allocator!Conventional, Allocator!Rejected
  <1>2. \E i \in C : m[i].pages > 0
    BY DEF Allocator!Rejected, Allocator!Largest
  <1>3. \A i \in C : m[i].pages \in Nat /\ m[i].pages <= P
    BY <1>1, NoLargerThanMemory
  <1>. HIDE DEF C, P
  <1>4. PICK i \in C : \A j \in C : m[j].pages <= m[i].pages
    <2>. DEFINE S == {P - m[j].pages : j \in C}
    <2>1. S \in SUBSET Nat /\ S # {}
      BY <1>1, <1>2, <1>3
    <2>. HIDE DEF S
    <2>2. PICK p \in S : \A q \in S : p <= q
      BY <2>1, HasLeast
    <2>3. PICK j \in C : p = P - m[j].pages
      BY DEF S
    <2>4. ASSUME NEW k \in C PROVE m[k].pages <= m[j].pages
      <3>1. P - m[k].pages \in S
        BY DEF S
      <3>2. P - m[j].pages <= P - m[k].pages
        BY <2>2, <2>3, <3>1
      <3>. QED  BY <1>1, <1>3, <3>2
    <2>. QED  BY <2>4
  <1>5. PICK l \in C : /\ \A j \in C : m[j].pages <= m[l].pages
                       /\ \A j \in C : m[j].pages = m[l].pages => l <= j
    <2>. DEFINE S == {j \in C : m[j].pages = m[i].pages}
    <2>1. S \in SUBSET Nat /\ S # {}
      BY <1>1
    <2>. HIDE DEF S
    <2>2. PICK l \in S : \A q \in S : l <= q
      BY <2>1, HasLeast
    <2>. QED  BY <1>4, <2>2 DEF S
  <1>6. ASSUME NEW j \in C
        PROVE  \/ m[j].pages < m[l].pages
               \/ m[j].pages = m[l].pages /\ l <= j
    <2>1. m[j].pages \in Nat /\ m[l].pages \in Nat /\ m[j].pages <= m[l].pages
      BY <1>3, <1>5
    <2>2. CASE m[j].pages = m[l].pages
      BY <1>5, <2>2
    <2>3. CASE m[j].pages # m[l].pages
      BY <2>1, <2>3
    <2>. QED  BY <2>2, <2>3
  <1>7. Allocator!Largest(m) \in C
    <2>1. Allocator!Largest(m) =
            CHOOSE k \in C :
              \A j \in C :
                \/ m[j].pages < m[k].pages
                \/ m[j].pages = m[k].pages /\ k <= j
      BY <1>2 DEF Allocator!Largest, C
    <2>. QED  BY <1>6, <2>1
  <1>8. 1 \in DOMAIN m
    BY <1>1, EmptySeq
  <1>. QED  BY <1>1, <1>7, <1>8

\* The map, the kernel and the framebuffer are where naturals can say.
LEMMA MachineTypes ==
  ASSUME Accepted
  PROVE  /\ MapStart \in Nat /\ MemorySize \in Nat
         /\ machine.kernel.first \in Nat /\ machine.kernel.pages \in Nat
         /\ machine.framebuffer.first \in Nat /\ machine.framebuffer.pages \in Nat
         /\ HeapStart \in Nat /\ HeapPages \in Nat
  <1>1. /\ machine.mMap \in Seq(Descriptors)
        /\ {machine.kernel, machine.framebuffer} \subseteq [first : Nat, pages : Nat]
        /\ HeapStart \in Nat /\ HeapPages \in Nat
    BY MapOfMachine, MachinesAssumption DEF Accepted
  <1>2. 1 \in DOMAIN machine.mMap
    BY <1>1, LargestIs DEF Accepted
  <1>3. MapStart \in Nat /\ MemorySize \in Nat
    BY <1>1, <1>2, MemorySizeType, DescriptorTypes DEF MapStart, MemorySize
  <1>. QED  BY <1>1, <1>3

\* All the pages initialisation uses are naturals, and at or above the first one of
\* an ordered map.
LEMMA UsedAbove ==
  ASSUME Accepted
  PROVE  /\ Kernel \cup Bitmap \cup Servable \subseteq Nat
         /\ Ordered /\ Addressable =>
              \A p \in Kernel \cup Bitmap \cup Servable : MapStart <= p
  <1>. DEFINE m == machine.mMap
              n == Allocator!BitmapBytes(m)
              L == Allocator!Largest(m)
  <1>1. m \in Seq(Descriptors) /\ ~Allocator!Rejected(m)
    BY MapOfMachine DEF Accepted
  <1>2. /\ MapStart \in Nat /\ MemorySize \in Nat
        /\ machine.kernel.first \in Nat /\ machine.kernel.pages \in Nat
    BY MachineTypes
  <1>3. L \in DOMAIN m /\ \A i \in DOMAIN m : m[i].start \in Nat /\ m[i].pages \in Nat
    BY <1>1, LargestIs, DescriptorTypes
  <1>4. n \in Nat
    BY <1>1, MemorySizeType
  <1>. HIDE DEF L, n
  <1>5. ASSUME NEW p \in Kernel
        PROVE  p \in Nat /\ (Addressable => MapStart <= p)
    BY <1>2 DEF Kernel, Allocator!Run, Addressable
  <1>6. ASSUME NEW p \in Bitmap
        PROVE  p \in Nat /\ (Ordered => MapStart <= p)
    <2>1. PICK k \in Int : p \in m[L].start .. m[L].start + k - 1
      <3>1. n \div PageBytes + 1 \in Int
        BY <1>4, MachinesAssumption
      <3>2. p \in m[L].start .. m[L].start + (n \div PageBytes + 1) - 1
        BY DEF Bitmap, Allocator!BitmapPages, Allocator!Run, L, n
      <3>. QED  BY <3>1, <3>2
    <2>2. p \in Nat /\ m[L].start <= p
      BY <1>3, <2>1
    <2>. QED  BY <1>2, <1>3, <2>2 DEF Ordered
  <1>7. ASSUME NEW p \in Servable
        PROVE  p \in Nat /\ (Ordered /\ Addressable => MapStart <= p)
    <2>1. CASE p \in Allocator!ConventionalPages(m)
      <3>1. PICK i \in DOMAIN m : p \in m[i].start .. m[i].start + m[i].pages - 1
        BY <2>1 DEF Allocator!ConventionalPages, Allocator!Conventional, Allocator!Run
      <3>2. p \in Nat /\ m[i].start <= p
        BY <1>3, <3>1
      <3>. QED  BY <1>2, <1>3, <3>2 DEF Ordered
    <2>2. CASE p \in Allocator!TailPages(m)
      <3>1. p \in MemorySize + 1 .. n * 8 - 1
        BY <2>2 DEF Allocator!TailPages, MemorySize, n
      <3>2. p \in Nat /\ MemorySize <= p
        BY <1>2, <1>4, <3>1
      <3>. QED  BY <1>2, <3>2 DEF Addressable
    <2>. QED  BY <2>1, <2>2 DEF Servable, Allocator!ServablePages, Allocator!UsablePages
  <1>. QED  BY <1>5, <1>6, <1>7

-----------------------------------------------------------------------------
(* A page is mapped while initialisation runs.                             *)

\* The tables m under root translate every page of S to itself.
Reached(m, root, S) == \A v \in S : Trees!Translates(m, root, v, v)

\* No refusal is forgotten, and only what was free is held.
LEMMA MapMemoryCounts ==
  ASSUME MapKnown, refused \in Nat, NEW v, NEW p, NEW own \in SUBSET free,
         MapMemory(v, p, own)
  PROVE  refused' \in Nat /\ refused <= refused' /\ held' \subseteq held \cup free
  <1>. DEFINE tree == [mem |-> mem, free |-> free \ own, refused |-> refused]
              tree2 == Tables!Mapped(tree, v, p)
  <1>1. Grows(tree, tree2)
    <2>1. IsTree(tree)
      BY FreeIsNatural DEF IsTree
    <2>. QED  BY <2>1, MappedGrows
  <1>2. /\ refused' = tree2.refused
        /\ held' = held \cup (free \ tree2.free)
    BY DEF MapMemory, Served
  <1>3. tree.refused = refused
    OBVIOUS
  <1>. HIDE DEF tree, tree2
  <1>. QED  BY <1>1, <1>2, <1>3 DEF Grows

LEMMA MapMemoryMaps ==
  ASSUME MapKnown, WellFormed(mem, PML4), refused = 0, refused' = 0, PML4' = PML4,
         NEW v \in Tables!AllPages, NEW p \in Nat, NEW own \in SUBSET free,
         MapMemory(v, p, own)
  PROVE  WellFormed(mem', PML4') /\ Trees!MapsOnly(mem, mem', PML4, v, p)
  <1>1. PICK tree : tree = [mem |-> mem, free |-> free \ own, refused |-> refused]
    OBVIOUS
  <1>2. PICK R : R = Tables!Mapped(tree, v, p)
    OBVIOUS
  <1>3. PICK root : root = PML4
    OBVIOUS
  <1>4. mem' = R.mem /\ refused' = R.refused
    BY <1>1, <1>2 DEF MapMemory
  <1>5. /\ IsTree(tree) /\ tree.mem = mem /\ tree.free = free \ own
        /\ tree.refused = 0
    BY <1>1, FreeIsNatural DEF IsTree
  <1>6. (DOMAIN mem) \cap (free \ own) = {}
    <2>1. free \subseteq Free /\ 0 \notin Free
      BY FreeIsNatural
    <2>2. Free \cap TableFrames = {}
      BY DEF MapKnown, Placed
    <2>. QED  BY <2>1, <2>2 DEF TableFrames
  <1>7. WellFormed(R.mem, root) /\ Trees!MapsOnly(tree.mem, R.mem, root, v, p)
    BY <1>2, <1>3, <1>4, <1>5, <1>6, MappedMaps
  <1>. QED  BY <1>3, <1>4, <1>5, <1>7

\* What was reached is reached still, unless the page is mapped elsewhere.
LEMMA MapMemoryReaches ==
  ASSUME MapKnown, WellFormed(mem, PML4), refused = 0, refused' = 0, PML4' = PML4,
         NEW v \in Tables!AllPages, NEW p \in Nat, NEW own \in SUBSET free,
         MapMemory(v, p, own),
         NEW S \in SUBSET Tables!AllPages, Reached(mem, PML4, S), p = v \/ v \notin S
  PROVE  Reached(mem', PML4', S) /\ (p = v => Trees!Translates(mem', PML4', v, v))
  <1>1. PICK root : root = PML4
    OBVIOUS
  <1>2. Trees!MapsOnly(mem, mem', root, v, p) /\ PML4' = root
    BY <1>1, MapMemoryMaps
  <1>3. p = v => Trees!Translates(mem', root, v, v)
    BY <1>2 DEF Trees!MapsOnly
  <1>4. ASSUME NEW w \in S PROVE Trees!Translates(mem', root, w, w)
    <2>1. CASE w = v
      BY <1>3, <2>1
    <2>2. CASE w # v
      <3>1. Trees!Translates(mem, root, w, w) /\ w \in Trees!AllPages
        BY <1>1, PagesAre DEF Reached
      <3>. QED  BY <1>2, <2>2, <3>1 DEF Trees!MapsOnly
    <2>. QED  BY <2>1, <2>2
  <1>. QED  BY <1>2, <1>3, <1>4 DEF Reached

\* One more page of an identity mapping, or none left.
LEMMA IdentityMapReaches ==
  ASSUME MapKnown, WellFormed(mem, PML4), refused = 0, refused' = 0,
         NEW step, NEW next, NEW stop \in Nat, IdentityMap(step, next, stop),
         NEW first \in Nat, ptr \in Nat, first <= ptr, ptr <= stop,
         (first .. stop - 1) \subseteq Tables!AllPages,
         Reached(mem, PML4, first .. ptr - 1),
         NEW S \in SUBSET Tables!AllPages, Reached(mem, PML4, S)
  PROVE  /\ WellFormed(mem', PML4') /\ Reached(mem', PML4', S)
         /\ \/ /\ pc' = pc /\ ptr' \in Nat /\ first <= ptr' /\ ptr' <= stop
               /\ Reached(mem', PML4', first .. ptr' - 1)
            \/ /\ pc' = next
               /\ Reached(mem', PML4', first .. stop - 1)
  <1>1. PML4' = PML4
    BY DEF IdentityMap
  <1>2. CASE ptr < stop
    <2>1. MapMemory(ptr, ptr, {}) /\ ptr' = ptr + 1 /\ pc' = pc
      BY <1>2 DEF IdentityMap
    <2>2. PICK v \in Nat : v = ptr
      OBVIOUS
    <2>3. v \in Tables!AllPages /\ (first .. v - 1) \subseteq Tables!AllPages
      BY <1>2, <2>2
    <2>4. WellFormed(mem', PML4')
      BY <1>1, <2>1, <2>2, <2>3, MapMemoryMaps
    <2>5. Reached(mem', PML4', S)
      BY <1>1, <2>1, <2>2, <2>3, MapMemoryReaches
    <2>6. /\ Reached(mem', PML4', first .. v - 1)
          /\ Trees!Translates(mem', PML4', v, v)
      <3>1. PICK T : T = first .. v - 1
        OBVIOUS
      <3>2. T \in SUBSET Tables!AllPages /\ Reached(mem, PML4, T)
        BY <2>2, <2>3, <3>1
      <3>3. Reached(mem', PML4', T) /\ Trees!Translates(mem', PML4', v, v)
        BY <1>1, <2>1, <2>2, <2>3, <3>2, MapMemoryReaches
      <3>. QED  BY <3>1, <3>3
    <2>7. /\ ptr' \in Nat /\ first <= ptr' /\ ptr' <= stop
          /\ \A w \in first .. ptr' - 1 : w = v \/ w \in first .. v - 1
      BY <1>2, <2>1, <2>2
    <2>8. Reached(mem', PML4', first .. ptr' - 1)
      BY <2>6, <2>7 DEF Reached
    <2>. QED  BY <2>1, <2>4, <2>5, <2>7, <2>8
  <1>3. CASE ~(ptr < stop)
    <2>1. pc' = next /\ mem' = mem
      BY <1>3 DEF IdentityMap
    <2>2. ptr = stop
      BY <1>3
    <2>. QED  BY <1>1, <2>1, <2>2
  <1>. QED  BY <1>2, <1>3

-----------------------------------------------------------------------------
(* The inductive invariant, continued: once the tables are there, what has *)
(* been mapped so far is translated to itself.                             *)

Known == pc \notin {"ReadEFIMemoryMap", "Panic"} \/ paging

Basics ==
  /\ refused \in Nat
  /\ paging => pc \in {"CreateHeap", "Done", "Panic", "PageFault"}
  /\ pc = "ReadEFIMemoryMap" => held = {}
  /\ Known => MapKnown /\ Accepted /\ held \subseteq Servable

MemoryPages == Allocator!Run(MapStart, MemorySize)
FramebufferPages ==
  Allocator!Run(machine.framebuffer.first, machine.framebuffer.pages + 1)

Covered ==
  /\ WellFormed(mem, PML4)
  /\ pc = "MapMemoryMap" =>
       /\ ptr \in Nat /\ MapStart <= ptr /\ ptr <= MapStart + MemorySize
       /\ Reached(mem, PML4, MapStart .. ptr - 1)
  /\ pc # "MapMemoryMap" => Reached(mem, PML4, MemoryPages)
  /\ pc = "MapFramebuffer" =>
       /\ ptr \in Nat /\ machine.framebuffer.first <= ptr
       /\ ptr <= machine.framebuffer.first + machine.framebuffer.pages + 1
       /\ Reached(mem, PML4, machine.framebuffer.first .. ptr - 1)
  /\ pc \notin {"MapMemoryMap", "LockFramebuffer", "MapFramebuffer"} =>
       Reached(mem, PML4, FramebufferPages)
  /\ pc = "CreateHeap" =>
       ptr \in Nat /\ HeapStart <= ptr /\ ptr <= HeapStart + HeapPages

Started == Known /\ pc \notin {"LockKernel", "RequestPML4"}

\* No table was put at NULL, on a machine whose addresses are as expected.
Sane == refused = 0 /\ Ordered /\ Addressable

Used == Kernel \cup Bitmap \cup TableFrames \cup held \cup free

NoFault ==
  Sane /\ pc = "PageFault" => \E p \in Used : ~(p < MapStart + MemorySize)

ReachInv == Basics /\ (Started /\ Sane => Covered) /\ NoFault

-----------------------------------------------------------------------------
(* The steps: what is known of memory.                                     *)

LEMMA ReachInitially == Init => ReachInv
  BY DEF Init, ReachInv, Basics, Known, Started, NoFault

\* The machine does not change under the kernel.
LEMMA SameMachine == [Next]_vars => machine' = machine
  BY DEF Next, vars, ReadEFIMemoryMap, LockKernel, RequestPML4, MapMemoryMap, IdentityMap,
         LockFramebuffer, MapFramebuffer, LoadCR3, CreateHeap

LEMMA BasicsStay ==
  ASSUME BootInv', Basics, Known, machine' = machine,
         pc' \notin {"ReadEFIMemoryMap", "Panic"}, refused' \in Nat,
         held' \subseteq held \cup Free,
         paging' => pc' \in {"CreateHeap", "Done", "PageFault"}
  PROVE  Basics'
  <1>1. MapKnown' /\ Accepted' /\ Servable' = Servable
    BY DEF BootInv, Basics, Accepted, Servable
  <1>2. held' \subseteq Servable
    BY DEF Basics, MapKnown
  <1>. QED  BY <1>1, <1>2 DEF Basics

\* What the kernel knows of memory stays so.
LEMMA BasicsStep ==
  BootInv /\ BootInv' /\ Basics /\ [Next]_vars => Basics' /\ refused <= refused'
  <1>. SUFFICES ASSUME BootInv, BootInv', Basics, [Next]_vars
                PROVE  Basics' /\ refused <= refused'
    OBVIOUS
  <1>0. machine' = machine /\ refused \in Nat
    BY SameMachine DEF Basics
  <1>1. CASE ReadEFIMemoryMap
    <2>1. /\ pc = "ReadEFIMemoryMap" /\ UNCHANGED <<refused, held, paging>> /\ ~paging
          /\ held = {}
          /\ pc' = IF Allocator!Rejected(machine.mMap) THEN "Panic" ELSE "LockKernel"
      BY <1>1 DEF ReadEFIMemoryMap, At, Allocator!ReadEFIMemoryMap, Basics
    <2>2. CASE Allocator!Rejected(machine.mMap)
      BY <1>0, <2>1, <2>2 DEF Basics, Known
    <2>3. CASE ~Allocator!Rejected(machine.mMap)
      <3>1. MapKnown' /\ Accepted'
        BY <1>0, <2>1, <2>3 DEF BootInv, Accepted
      <3>. QED  BY <1>0, <2>1, <2>3, <3>1 DEF Basics
    <2>. QED  BY <2>2, <2>3
  <1>2. CASE LockKernel
    <2>1. /\ pc = "LockKernel" /\ pc' = "RequestPML4"
          /\ UNCHANGED <<refused, held, paging>>
      BY <1>2 DEF LockKernel, At, Allocator!Lock
    <2>. QED  BY <1>0, <2>1, BasicsStay DEF Known, Basics
  <1>3. CASE RequestPML4
    <2>1. pc = "RequestPML4" /\ ~paging /\ UNCHANGED <<refused, paging>> /\ MapKnown
      BY <1>3 DEF RequestPML4, At, Basics, Known
    <2>2. CASE free = {}
      <3>1. pc' = "Panic"
        BY <1>3, <2>2 DEF RequestPML4, At
      <3>. QED  BY <1>0, <2>1, <3>1 DEF Basics, Known
    <2>3. CASE free # {}
      <3>1. pc' = "MapMemoryMap" /\ Allocator!PageFound
        BY <1>3, <2>3 DEF RequestPML4, At
      <3>2. held' \subseteq held \cup Free
        BY <2>1, <3>1, FoundIsFree
      <3>. QED  BY <1>0, <2>1, <3>1, <3>2, BasicsStay DEF Known
    <2>. QED  BY <2>2, <2>3
  <1>4. ASSUME NEW step \in {"MapMemoryMap", "MapFramebuffer"},
               NEW next \in {"LockFramebuffer", "LoadCR3"}, NEW stop,
               IdentityMap(step, next, stop)
        PROVE  Basics' /\ refused <= refused'
    <2>1. pc = step /\ ~paging /\ UNCHANGED paging /\ MapKnown /\ Known
      BY <1>4 DEF IdentityMap, Basics, Known
    <2>2. CASE ptr < stop
      <3>1. MapMemory(ptr, ptr, {}) /\ pc' = pc
        BY <1>4, <2>2 DEF IdentityMap
      <3>2. refused' \in Nat /\ refused <= refused' /\ held' \subseteq held \cup free
        BY <1>0, <2>1, <3>1, MapMemoryCounts
      <3>. QED  BY <1>0, <1>4, <2>1, <3>1, <3>2, FreeIsNatural, BasicsStay
    <2>3. CASE ~(ptr < stop)
      <3>1. pc' = next /\ UNCHANGED <<held, refused>>
        BY <1>4, <2>3 DEF IdentityMap
      <3>. QED  BY <1>0, <1>4, <2>1, <3>1, BasicsStay
    <2>. QED  BY <2>2, <2>3
  <1>5. CASE MapMemoryMap
    BY <1>4, <1>5 DEF MapMemoryMap
  <1>6. CASE LockFramebuffer
    <2>1. /\ pc = "LockFramebuffer" /\ pc' = "MapFramebuffer"
          /\ UNCHANGED <<refused, held, paging>>
      BY <1>6 DEF LockFramebuffer, At, Allocator!Lock
    <2>. QED  BY <1>0, <2>1, BasicsStay DEF Known, Basics
  <1>7. CASE MapFramebuffer
    BY <1>4, <1>7 DEF MapFramebuffer
  <1>8. CASE LoadCR3
    <2>1. /\ pc = "LoadCR3" /\ pc' \in {"CreateHeap", "PageFault"}
          /\ UNCHANGED <<refused, held>>
      BY <1>8 DEF LoadCR3, At
    <2>. QED  BY <1>0, <2>1, BasicsStay DEF Known
  <1>9. CASE CreateHeap
    <2>1. pc = "CreateHeap" /\ UNCHANGED paging /\ Known /\ MapKnown
      BY <1>9 DEF CreateHeap, Known, Basics
    <2>2. CASE HeapPage
      <3>1. PICK f : /\ f = Tables!RequestPage(free) /\ MapMemory(ptr, f, {f})
                     /\ free # {} /\ pc' \in {"CreateHeap", "PageFault"}
        BY <2>2 DEF HeapPage
      <3>2. {f} \in SUBSET free
        BY <2>1, <3>1, FreeIsNatural, LowestTaken
      <3>3. refused' \in Nat /\ refused <= refused' /\ held' \subseteq held \cup free
        BY <1>0, <2>1, <3>1, <3>2, MapMemoryCounts
      <3>. QED  BY <1>0, <2>1, <3>1, <3>3, FreeIsNatural, BasicsStay
    <2>3. CASE HeapRefused
      <3>1. pc' = "Panic" /\ UNCHANGED <<g_Allocator, held, mem, refused, heapFrames>>
        BY <2>3 DEF HeapRefused
      <3>2. MapKnown' /\ Accepted' /\ Servable' = Servable
        BY <1>0, <2>1, <3>1
           DEF MapKnown, Object, Free, Placed, TableFrames, Servable, Accepted, Basics
      <3>. QED  BY <1>0, <2>1, <3>1, <3>2 DEF Basics
    <2>4. CASE HeapCreated
      <3>1. pc' = "Done" /\ UNCHANGED <<held, refused>>
        BY <2>4 DEF HeapCreated
      <3>. QED  BY <1>0, <2>1, <3>1, BasicsStay
    <2>. QED  BY <1>9, <2>2, <2>3, <2>4 DEF CreateHeap
  <1>10. CASE UNCHANGED vars
    <2>1. UNCHANGED <<machine, pc, g_Allocator, held, mem, refused, paging, heapFrames>>
      BY <1>10 DEF vars
    <2>2. MapKnown => MapKnown'
      BY <2>1 DEF MapKnown, Object, Free, Placed, TableFrames, Servable
    <2>3. /\ Accepted' <=> Accepted
          /\ Servable' = Servable
          /\ Known' <=> Known
      BY <2>1 DEF Accepted, Servable, Known
    <2>. QED  BY <1>0, <2>1, <2>2, <2>3 DEF Basics
  <1>. QED  BY <1>1, <1>2, <1>3, <1>5, <1>6, <1>7, <1>8, <1>9, <1>10 DEF Next

-----------------------------------------------------------------------------
(* The steps: what is mapped.                                              *)

\* A page that has been reached is one the processor can use.
LEMMA ReachedIsIdentity ==
  ASSUME Addressable, WellFormed(mem, PML4), NEW S \in SUBSET IdentityMapped,
         Reached(mem, PML4, S), NEW t \in S
  PROVE  Identity(t)
  <1>1. t \in Tables!AllPages
    BY DEF Addressable
  <1>2. Trees!Translates(mem, PML4, t, t)
    BY DEF Reached
  <1>. QED  BY <1>1, <1>2, TranslatesIdentity DEF Identity

\* What the kernel uses below the end of the map is in the memory it maps.
LEMMA BelowIsMemory ==
  ASSUME Accepted, Ordered, Addressable, NEW t \in Kernel \cup Bitmap \cup Servable,
         t < MapStart + MemorySize
  PROVE  t \in MemoryPages
  <1>1. t \in Nat /\ MapStart <= t
    BY UsedAbove
  <1>. QED  BY <1>1, MachineTypes DEF MemoryPages, Allocator!Run

\* The parts of the identity mapping.
LEMMA PartsMapped ==
  ASSUME Accepted
  PROVE  /\ MemoryPages = MapStart .. (MapStart + MemorySize) - 1
         /\ FramebufferPages =
              machine.framebuffer.first ..
                (machine.framebuffer.first + machine.framebuffer.pages + 1) - 1
         /\ Framebuffer \subseteq FramebufferPages
         /\ IdentityMapped = MemoryPages \cup FramebufferPages
         /\ Addressable => IdentityMapped \subseteq Tables!AllPages
  <1>1. MemoryPages = MapStart .. (MapStart + MemorySize) - 1
    BY MachineTypes DEF MemoryPages, Allocator!Run
  <1>2. FramebufferPages =
          machine.framebuffer.first ..
            (machine.framebuffer.first + machine.framebuffer.pages + 1) - 1
    BY MachineTypes DEF FramebufferPages, Allocator!Run
  <1>3. Framebuffer \subseteq FramebufferPages
    BY MachineTypes DEF Framebuffer, FramebufferPages, Allocator!Run
  <1>4. IdentityMapped = MemoryPages \cup FramebufferPages
    BY DEF IdentityMapped, MemoryPages, FramebufferPages
  <1>5. Addressable => IdentityMapped \subseteq Tables!AllPages
    BY DEF Addressable
  <1>. QED  BY <1>1, <1>2, <1>3, <1>4, <1>5

\* The tables begin with the root alone.
LEMMA RequestCovers ==
  ASSUME MapKnown, Accepted, machine' = machine, RequestPML4, pc' # "Panic"
  PROVE  Covered'
  <1>1. /\ free # {} /\ pc' = "MapMemoryMap" /\ Allocator!PageFound /\ PML4' = returned'
        /\ ptr' = MapStart /\ mem' = [f \in {PML4'} |-> Tables!ZeroTable]
    BY DEF RequestPML4, At
  <1>2. PICK root \in Nat \ {0} : PML4' = root
    BY <1>1, FoundIsFree, FreeIsNatural
  <1>3. PICK m : m = mem' /\ m = [f \in {root} |-> Trees!ZeroTable]
    BY <1>1, <1>2, EntryIs
  <1>4. DOMAIN m = {root} /\ Trees!TypedTables(m) /\ \E lvl : Trees!Shaped(m, root, lvl)
    BY <1>3, TreesAssumed, Trees!RootAlone
  <1>5. WellFormed(m, root)
    BY <1>2, <1>4 DEF WellFormed
  <1>6. WellFormed(mem', PML4')
    BY <1>2, <1>3, <1>5
  <1>7. MapStart' = MapStart /\ MemorySize' = MemorySize
    BY DEF MapStart, MemorySize
  <1>8. MapStart .. MapStart - 1 = {}
    BY MachineTypes
  <1>9. Reached(mem', PML4', MapStart .. MapStart - 1)
    BY <1>8 DEF Reached
  <1>. QED  BY <1>1, <1>6, <1>7, <1>9, MachineTypes DEF Covered

\* What the machine says stays so.
LEMMA PlacesStay ==
  ASSUME machine' = machine
  PROVE  /\ MapStart' = MapStart /\ MemorySize' = MemorySize
         /\ MemoryPages' = MemoryPages /\ FramebufferPages' = FramebufferPages
         /\ Kernel' = Kernel /\ Bitmap' = Bitmap /\ Servable' = Servable
         /\ Ordered' <=> Ordered
         /\ Addressable' <=> Addressable
  BY DEF MapStart, MemorySize, MemoryPages, FramebufferPages, Kernel, Bitmap, Servable,
         Ordered, Addressable, IdentityMapped

\* A step between mappings.
LEMMA CoveredStays ==
  ASSUME Covered, machine' = machine, UNCHANGED <<PML4, mem>>,
         pc' \notin {"MapMemoryMap", "MapFramebuffer"}, pc # "MapMemoryMap",
         pc' # "LockFramebuffer", pc \notin {"LockFramebuffer", "MapFramebuffer"},
         pc' = "CreateHeap" =>
           ptr' \in Nat /\ HeapStart <= ptr' /\ ptr' <= HeapStart + HeapPages
  PROVE  Covered'
  BY PlacesStay DEF Covered

\* The pages of the memory map, each to itself.
LEMMA MapMemoryMapCovers ==
  ASSUME MapKnown, Accepted, Covered, Sane, refused' = 0, machine' = machine, MapMemoryMap
  PROVE  Covered'
  <1>1. PICK first \in Nat, size \in Nat : first = MapStart /\ size = MemorySize
    BY MachineTypes
  <1>2. /\ pc = "MapMemoryMap" /\ first + size \in Nat
        /\ IdentityMap("MapMemoryMap", "LockFramebuffer", first + size)
    BY <1>1 DEF MapMemoryMap, IdentityMap
  <1>3. /\ MemoryPages = first .. (first + size) - 1
        /\ (first .. (first + size) - 1) \subseteq Tables!AllPages
    BY <1>1, PartsMapped DEF Sane
  <1>4. /\ WellFormed(mem, PML4) /\ ptr \in Nat /\ first <= ptr /\ ptr <= first + size
        /\ Reached(mem, PML4, first .. ptr - 1)
    BY <1>1, <1>2 DEF Covered
  <1>5. Reached(mem, PML4, {}) /\ {} \in SUBSET Tables!AllPages /\ refused = 0
    BY DEF Reached, Sane
  <1>6. PICK stop \in Nat : stop = first + size
    BY <1>2
  <1>7. /\ WellFormed(mem', PML4')
        /\ \/ /\ pc' = pc /\ ptr' \in Nat /\ first <= ptr' /\ ptr' <= stop
              /\ Reached(mem', PML4', first .. ptr' - 1)
           \/ /\ pc' = "LockFramebuffer"
              /\ Reached(mem', PML4', first .. stop - 1)
    BY <1>2, <1>3, <1>4, <1>5, <1>6, IdentityMapReaches
  <1>8. /\ MapStart' = first /\ MemorySize' = size
        /\ MemoryPages' = first .. stop - 1
    BY <1>1, <1>3, <1>6, PlacesStay
  <1>. QED  BY <1>2, <1>6, <1>7, <1>8 DEF Covered

\* The mapping of memory is complete, that of the framebuffer begins.
LEMMA LockFramebufferCovers ==
  ASSUME Accepted, Covered, machine' = machine, LockFramebuffer
  PROVE  Covered'
  <1>1. /\ pc = "LockFramebuffer" /\ pc' = "MapFramebuffer" /\ UNCHANGED <<PML4, mem>>
        /\ ptr' = machine.framebuffer.first
    BY DEF LockFramebuffer, At
  <1>2. PICK first \in Nat, pages \in Nat :
          first = machine.framebuffer.first /\ pages = machine.framebuffer.pages
    BY MachineTypes
  <1>3. first .. first - 1 = {} /\ first <= first + pages + 1
    BY <1>2
  <1>4. Reached(mem', PML4', first .. first - 1)
    BY <1>3 DEF Reached
  <1>. QED  BY <1>1, <1>2, <1>3, <1>4, PlacesStay DEF Covered

\* The pages of the framebuffer, memory staying mapped.
LEMMA MapFramebufferCovers ==
  ASSUME MapKnown, Accepted, Covered, Sane, refused' = 0, machine' = machine, MapFramebuffer
  PROVE  Covered'
  <1>1. PICK first \in Nat, stop \in Nat :
          /\ first = machine.framebuffer.first
          /\ stop = machine.framebuffer.first + machine.framebuffer.pages + 1
    BY MachineTypes
  <1>2. pc = "MapFramebuffer" /\ IdentityMap("MapFramebuffer", "LoadCR3", stop)
    BY <1>1 DEF MapFramebuffer, IdentityMap
  <1>3. /\ FramebufferPages = first .. stop - 1
        /\ (first .. stop - 1) \subseteq Tables!AllPages
        /\ MemoryPages \in SUBSET Tables!AllPages
    BY <1>1, PartsMapped DEF Sane
  <1>4. /\ WellFormed(mem, PML4) /\ ptr \in Nat /\ first <= ptr /\ ptr <= stop
        /\ Reached(mem, PML4, first .. ptr - 1) /\ Reached(mem, PML4, MemoryPages)
    BY <1>1, <1>2 DEF Covered
  <1>5. refused = 0
    BY DEF Sane
  <1>6. /\ WellFormed(mem', PML4') /\ Reached(mem', PML4', MemoryPages)
        /\ \/ /\ pc' = pc /\ ptr' \in Nat /\ first <= ptr' /\ ptr' <= stop
              /\ Reached(mem', PML4', first .. ptr' - 1)
           \/ /\ pc' = "LoadCR3"
              /\ Reached(mem', PML4', first .. stop - 1)
    BY <1>2, <1>3, <1>4, <1>5, IdentityMapReaches
  <1>7. /\ machine'.framebuffer.first = first
        /\ machine'.framebuffer.first + machine'.framebuffer.pages + 1 = stop
        /\ MemoryPages' = MemoryPages /\ FramebufferPages' = first .. stop - 1
    BY <1>1, <1>3, PlacesStay
  <1>. QED  BY <1>2, <1>6, <1>7 DEF Covered

\* A page of the heap, at an address that is no memory.
LEMMA HeapPageCovers ==
  ASSUME MapKnown, Accepted, Covered, Sane, refused' = 0, machine' = machine,
         pc = "CreateHeap", PML4' = PML4, ptr < HeapStart + HeapPages, HeapPage
  PROVE  Covered'
  <1>1. PICK f : /\ f = Tables!RequestPage(free) /\ MapMemory(ptr, f, {f}) /\ free # {}
                 /\ pc' \in {"CreateHeap", "PageFault"} /\ ptr' = ptr + 1
    BY DEF HeapPage
  <1>2. {f} \in SUBSET free /\ f \in Nat
    BY <1>1, FreeIsNatural, LowestTaken
  <1>3. /\ WellFormed(mem, PML4) /\ ptr \in Nat /\ HeapStart <= ptr
        /\ Reached(mem, PML4, MemoryPages) /\ Reached(mem, PML4, FramebufferPages)
    BY DEF Covered
  <1>4. ptr \in Allocator!Run(HeapStart, HeapPages)
    BY <1>3, MachineTypes DEF Allocator!Run
  <1>5. PICK v \in Tables!AllPages : v = ptr /\ v \notin MemoryPages /\ v \notin FramebufferPages
    BY <1>4, PartsMapped DEF Sane, Addressable
  <1>6. /\ MemoryPages \in SUBSET Tables!AllPages /\ FramebufferPages \in SUBSET Tables!AllPages
        /\ refused = 0
    BY PartsMapped DEF Sane
  <1>7. MapMemory(v, f, {f})
    BY <1>1, <1>5
  <1>8. WellFormed(mem', PML4')
    BY <1>2, <1>3, <1>6, <1>7, MapMemoryMaps
  <1>9. Reached(mem', PML4', MemoryPages)
    BY <1>2, <1>3, <1>5, <1>6, <1>7, MapMemoryReaches
  <1>10. Reached(mem', PML4', FramebufferPages)
    BY <1>2, <1>3, <1>5, <1>6, <1>7, MapMemoryReaches
  <1>11. ptr' \in Nat /\ HeapStart <= ptr' /\ ptr' <= HeapStart + HeapPages
    BY <1>1, <1>3, MachineTypes
  <1>12. MemoryPages' = MemoryPages /\ FramebufferPages' = FramebufferPages
    BY PlacesStay
  <1>. QED  BY <1>1, <1>8, <1>9, <1>10, <1>11, <1>12 DEF Covered

\* Translation begins, and the heap's pages are next.
LEMMA LoadCovers ==
  ASSUME Accepted, Covered, machine' = machine, LoadCR3
  PROVE  Covered'
  <1>1. /\ pc = "LoadCR3" /\ pc' \in {"CreateHeap", "PageFault"} /\ UNCHANGED <<PML4, mem>>
        /\ ptr' = HeapStart
    BY DEF LoadCR3, At
  <1>2. ptr' \in Nat /\ HeapStart <= ptr' /\ ptr' <= HeapStart + HeapPages
    BY <1>1, MachineTypes
  <1>. QED  BY <1>1, <1>2, CoveredStays

\* The heap, whether it is complete or memory is exhausted.
LEMMA HeapCovers ==
  ASSUME MapKnown, Accepted, Covered, Sane, refused' = 0, machine' = machine, CreateHeap
  PROVE  Covered'
  <1>1. pc = "CreateHeap" /\ PML4' = PML4
    BY DEF CreateHeap
  <1>2. CASE HeapPage /\ ptr < HeapStart + HeapPages
    BY <1>1, <1>2, HeapPageCovers
  <1>3. CASE HeapRefused \/ HeapCreated
    <2>1. pc' \in {"Panic", "Done"} /\ mem' = mem
      BY <1>3 DEF HeapRefused, HeapCreated
    <2>. QED  BY <1>1, <2>1, CoveredStays
  <1>. QED  BY <1>2, <1>3 DEF CreateHeap

\* A step that changes nothing.
LEMMA StutterCovers ==
  ASSUME Covered, UNCHANGED vars
  PROVE  Covered'
  <1>1. UNCHANGED <<machine, pc, PML4, mem, ptr>>
    BY DEF vars
  <1>. QED  BY <1>1, PlacesStay DEF Covered

\* Whatever the step, what is to be mapped by then is.
LEMMA CoveredStep ==
  ASSUME BootInv, Basics, Basics', Started /\ Sane => Covered, refused <= refused',
         [Next]_vars, Started', Sane'
  PROVE  Covered'
  <1>1. machine' = machine
    BY SameMachine
  <1>2. refused' = 0 /\ Sane
    BY <1>1, PlacesStay DEF Sane, Basics
  <1>3. ~paging' => pc' \notin {"ReadEFIMemoryMap", "Panic", "LockKernel", "RequestPML4"}
    BY DEF Started, Known
  <1>4. ASSUME pc \notin {"ReadEFIMemoryMap", "Panic", "LockKernel", "RequestPML4"}
        PROVE  MapKnown /\ Accepted /\ Covered
    BY <1>2, <1>4 DEF Basics, Known, Started
  <1>5. CASE ReadEFIMemoryMap
    <2>1. ~paging' /\ pc' \in {"Panic", "LockKernel"}
      BY <1>5 DEF ReadEFIMemoryMap, At, Basics
    <2>. QED  BY <1>3, <2>1
  <1>6. CASE LockKernel
    <2>1. ~paging' /\ pc' = "RequestPML4"
      BY <1>6 DEF LockKernel, At, Basics
    <2>. QED  BY <1>3, <2>1
  <1>7. CASE RequestPML4
    <2>1. pc = "RequestPML4" /\ ~paging'
      BY <1>7 DEF RequestPML4, At, Basics
    <2>2. MapKnown /\ Accepted /\ pc' # "Panic"
      BY <1>3, <2>1 DEF Basics, Known
    <2>. QED  BY <1>1, <1>7, <2>2, RequestCovers
  <1>8. CASE MapMemoryMap
    <2>1. pc = "MapMemoryMap"
      BY <1>8 DEF MapMemoryMap, IdentityMap
    <2>. QED  BY <1>1, <1>2, <1>4, <1>8, <2>1, MapMemoryMapCovers
  <1>9. CASE LockFramebuffer
    <2>1. pc = "LockFramebuffer"
      BY <1>9 DEF LockFramebuffer, At
    <2>. QED  BY <1>1, <1>2, <1>4, <1>9, <2>1, LockFramebufferCovers
  <1>10. CASE MapFramebuffer
    <2>1. pc = "MapFramebuffer"
      BY <1>10 DEF MapFramebuffer, IdentityMap
    <2>. QED  BY <1>1, <1>2, <1>4, <1>10, <2>1, MapFramebufferCovers
  <1>11. CASE LoadCR3
    <2>1. pc = "LoadCR3"
      BY <1>11 DEF LoadCR3, At
    <2>. QED  BY <1>1, <1>2, <1>4, <1>11, <2>1, LoadCovers
  <1>12. CASE CreateHeap
    <2>1. pc = "CreateHeap"
      BY <1>12 DEF CreateHeap
    <2>. QED  BY <1>1, <1>2, <1>4, <1>12, <2>1, HeapCovers
  <1>13. CASE UNCHANGED vars
    <2>1. Started
      BY <1>13 DEF vars, Started, Known
    <2>. QED  BY <1>2, <1>13, <2>1, StutterCovers
  <1>. QED  BY <1>5, <1>6, <1>7, <1>8, <1>9, <1>10, <1>11, <1>12, <1>13 DEF Next

\* Where a page fault comes from: a page the kernel or the heap needs has no mapping.
LEMMA FaultFrom ==
  ASSUME BootInv, BootInv', Basics, [Next]_vars, pc' = "PageFault", pc # "PageFault",
         Accepted, WellFormed(mem', PML4')
  PROVE  \E t \in Kernel \cup Bitmap \cup TableFrames' : ~Identity(t)
  <1>1. CASE LoadCR3
    BY <1>1 DEF LoadCR3, At
  <1>2. CASE CreateHeap
    <2>1. HeapPage
      BY <1>2 DEF CreateHeap, HeapRefused, HeapCreated
    <2>2. PICK t \in Bitmap \cup (DOMAIN mem' \ DOMAIN mem) : ~Identity(t)
      BY <2>1 DEF HeapPage, MapMemory
    <2>3. 0 \notin DOMAIN mem'
      BY DEF WellFormed
    <2>4. t \in Bitmap \/ t \in TableFrames'
      BY <2>2, <2>3 DEF TableFrames
    <2>. QED  BY <2>2, <2>4
  <1>3. \/ LoadCR3 \/ CreateHeap
    BY DEF Next, vars, ReadEFIMemoryMap, LockKernel, RequestPML4, MapMemoryMap, IdentityMap,
           LockFramebuffer, MapFramebuffer, At
  <1>. QED  BY <1>1, <1>2, <1>3

\* Such a page is beyond the end of memory.
LEMMA NoFaultStep ==
  ASSUME BootInv, BootInv', Basics, Basics', Started /\ Sane => Covered, Covered', NoFault,
         refused <= refused', [Next]_vars, Sane', pc' = "PageFault"
  PROVE  \E p \in Used' : ~(p < MapStart' + MemorySize')
  <1>1. machine' = machine
    BY SameMachine
  <1>2. Sane
    BY <1>1, PlacesStay DEF Sane, Basics
  <1>3. CASE pc = "PageFault"
    <2>1. UNCHANGED vars
      BY <1>3 DEF Next, ReadEFIMemoryMap, LockKernel, RequestPML4, MapMemoryMap, IdentityMap,
                  LockFramebuffer, MapFramebuffer, LoadCR3, CreateHeap, At
    <2>2. UNCHANGED <<Kernel, Bitmap, TableFrames, held, free, MapStart, MemorySize>>
      BY <1>1, <2>1, PlacesStay DEF vars, TableFrames, free
    <2>. QED  BY <1>2, <1>3, <2>2 DEF NoFault, Used
  <1>4. CASE pc # "PageFault"
    <2>1. pc \in {"LoadCR3", "CreateHeap"}
      BY <1>4 DEF Next, vars, ReadEFIMemoryMap, LockKernel, RequestPML4, MapMemoryMap,
                  IdentityMap, LockFramebuffer, MapFramebuffer, LoadCR3, CreateHeap, At
    <2>2. Accepted /\ Covered
      BY <1>2, <2>1 DEF Basics, Known, Started
    <2>3. WellFormed(mem', PML4')
      BY DEF Covered
    <2>4. PICK t \in Kernel \cup Bitmap \cup TableFrames' : ~Identity(t)
      BY <1>4, <2>2, <2>3, FaultFrom
    <2>5. t \in Used'
      BY <1>1, <2>4, PlacesStay DEF Used
    <2>6. t \in Kernel \cup Bitmap \cup Servable
      <3>1. MapKnown'
        BY DEF BootInv
      <3>2. TableFrames' \subseteq Servable'
        BY <3>1 DEF MapKnown, Placed
      <3>. QED  BY <1>1, <2>4, <3>2, PlacesStay
    <2>7. ASSUME t < MapStart + MemorySize PROVE FALSE
      <3>1. t \in MemoryPages
        BY <1>2, <2>2, <2>6, <2>7, BelowIsMemory DEF Sane
      <3>2. WellFormed(mem, PML4) /\ Reached(mem, PML4, MemoryPages)
        BY <2>1, <2>2 DEF Covered
      <3>3. MemoryPages \in SUBSET IdentityMapped
        BY <2>2, PartsMapped
      <3>. QED  BY <1>2, <2>4, <3>1, <3>2, <3>3, ReachedIsIdentity DEF Sane
    <2>. QED  BY <1>1, <2>5, <2>7, PlacesStay
  <1>. QED  BY <1>3, <1>4

\* Every step of the initialisation keeps what is reached.
LEMMA ReachStep == BootInv /\ BootInv' /\ ReachInv /\ [Next]_vars => ReachInv'
  <1>. SUFFICES ASSUME BootInv, BootInv', ReachInv, [Next]_vars PROVE ReachInv'
    OBVIOUS
  <1>1. Basics /\ (Started /\ Sane => Covered) /\ NoFault
    BY DEF ReachInv
  <1>2. Basics' /\ refused <= refused'
    BY <1>1, BasicsStep
  <1>3. ASSUME Started', Sane' PROVE Covered'
    BY <1>1, <1>2, <1>3, CoveredStep
  <1>4. ASSUME Sane', pc' = "PageFault"
        PROVE  \E p \in Used' : ~(p < MapStart' + MemorySize')
    <2>1. Started'
      BY <1>4 DEF Started, Known
    <2>. QED  BY <1>1, <1>2, <1>3, <1>4, <2>1, NoFaultStep
  <1>5. NoFault'
    BY <1>4 DEF NoFault
  <1>. QED  BY <1>2, <1>3, <1>5 DEF ReachInv

\* What has been reached is what the kernel uses.
LEMMA ReachMeans == BootInv /\ ReachInv => EverythingReachable
  <1>. SUFFICES ASSUME BootInv, ReachInv, paging, refused = 0, Ordered, Addressable
                PROVE  /\ \A p \in {q \in Used : q < MapStart + MemorySize} \cup Framebuffer :
                            Identity(p)
                       /\ (\A p \in Used : p < MapStart + MemorySize) => pc # "PageFault"
    BY DEF EverythingReachable, Used
  <1>1. Basics /\ Known /\ Sane /\ Started
    BY DEF ReachInv, Basics, Known, Sane, Started
  <1>2. /\ MapKnown /\ Accepted /\ held \subseteq Servable
        /\ pc \notin {"MapMemoryMap", "LockFramebuffer", "MapFramebuffer"}
    BY <1>1 DEF Basics
  <1>3. /\ WellFormed(mem, PML4) /\ Reached(mem, PML4, MemoryPages)
        /\ Reached(mem, PML4, FramebufferPages)
    BY <1>1, <1>2 DEF ReachInv, Covered
  <1>4. MemoryPages \in SUBSET IdentityMapped /\ FramebufferPages \in SUBSET IdentityMapped
    BY <1>2, PartsMapped
  <1>5. Used \subseteq Kernel \cup Bitmap \cup Servable
    BY <1>2, FreeIsNatural DEF Used, MapKnown, Placed
  <1>6. ASSUME NEW p \in Used, p < MapStart + MemorySize PROVE Identity(p)
    <2>1. p \in MemoryPages
      BY <1>2, <1>5, <1>6, BelowIsMemory
    <2>. QED  BY <1>3, <1>4, <2>1, ReachedIsIdentity
  <1>7. ASSUME NEW p \in Framebuffer PROVE Identity(p)
    <2>1. p \in FramebufferPages
      BY <1>2, PartsMapped
    <2>. QED  BY <1>3, <1>4, <2>1, ReachedIsIdentity
  <1>8. (\A p \in Used : p < MapStart + MemorySize) => pc # "PageFault"
    BY <1>1 DEF ReachInv, NoFault
  <1>. QED  BY <1>6, <1>7, <1>8

\* Once the processor translates with the kernel's tables, everything the kernel
\* reaches by its physical address is mapped there: the kernel, the bitmap, the
\* tables themselves, the framebuffer and every frame handed out or left; and a page
\* fault needs a page beyond the end of what is mapped.  However many pages memory,
\* kernel and framebuffer have, and wherever the frames of the tables come from.
THEOREM EverythingIsReachable == Spec => []EverythingReachable
  <1>1. Init => BootInv /\ ReachInv
    BY BootInitially, ReachInitially
  <1>2. BootInv /\ ReachInv /\ [Next]_vars => (BootInv /\ ReachInv)'
    BY BootStep, ReachStep
  <1>3. Spec => [](BootInv /\ ReachInv)
    BY <1>1, <1>2, PTL DEF Spec
  <1>. QED  BY <1>3, ReachMeans, PTL
=============================================================================
