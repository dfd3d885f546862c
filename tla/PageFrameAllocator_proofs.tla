--------------------- MODULE PageFrameAllocator_proofs ---------------------
(* Proofs about PageFrameAllocator, for every memory map and every size.   *)
EXTENDS PageFrameAllocator, FiniteSetTheorems, SequenceTheorems,
         WellFoundedInduction, TLAPS

-----------------------------------------------------------------------------
(* Arithmetic and sets.                                                    *)

\* Quotient and remainder by the span of a counter exist and are unique.
LEMMA Division ==
  ASSUME NEW n \in Int
  PROVE  /\ n \div CounterSpan \in Int
         /\ Wrapped(n) \in Counter
         /\ n = CounterSpan * (n \div CounterSpan) + Wrapped(n)
  BY SizesAssumption DEF Wrapped, Counter

LEMMA RemainderUnique ==
  ASSUME NEW k \in Int, NEW r \in Counter
  PROVE  Wrapped(CounterSpan * k + r) = r
  <1>. DEFINE n == CounterSpan * k + r
              d == n \div CounterSpan
              e == k - d
  <1>1. CounterSpan \in Nat \ {0} /\ r \in Int /\ n \in Int
    BY SizesAssumption DEF Counter
  <1>2. d \in Int /\ Wrapped(n) \in Counter /\ n = CounterSpan * d + Wrapped(n)
    BY <1>1, Division
  <1>. HIDE DEF n, d
  <1>3. e \in Int /\ CounterSpan * e = Wrapped(n) - r
    BY <1>1, <1>2 DEF n, Counter
  <1>4. CounterSpan * e < CounterSpan /\ CounterSpan * e > - CounterSpan
    BY <1>1, <1>2, <1>3 DEF Counter
  <1>. HIDE DEF e
  <1>5. e = 0
    <2>1. CASE e >= 1
      <3>1. CounterSpan * e >= CounterSpan
        BY <1>1, <1>3, <2>1
      <3>. QED  BY <3>1, <1>1, <1>3, <1>4
    <2>2. CASE e <= -1
      <3>1. CounterSpan * e <= - CounterSpan
        BY <1>1, <1>3, <2>2
      <3>. QED  BY <3>1, <1>1, <1>3, <1>4
    <2>. QED  BY <1>3, <2>1, <2>2
  <1>. QED  BY <1>1, <1>2, <1>3, <1>5 DEF n, Counter

\* A counter that wraps at every step shows the wrapped sum.
LEMMA WrappedSum ==
  ASSUME NEW x \in Int, NEW y \in Int
  PROVE  Wrapped(Wrapped(x) + y) = Wrapped(x + y)
  <1>. DEFINE q == x \div CounterSpan
              z == Wrapped(x) + y
              k == z \div CounterSpan
  <1>1. q \in Int /\ Wrapped(x) \in Int /\ x = CounterSpan * q + Wrapped(x)
    BY Division DEF Counter
  <1>2. z \in Int
    BY <1>1
  <1>3. k \in Int /\ Wrapped(z) \in Counter /\ z = CounterSpan * k + Wrapped(z)
    BY <1>2, Division
  <1>. HIDE DEF q, k
  <1>4. x + y = CounterSpan * (q + k) + Wrapped(z)
    <2>. DEFINE a == CounterSpan * q
                b == CounterSpan * k
    <2>1. CounterSpan \in Int /\ Wrapped(z) \in Int
      BY <1>3, SizesAssumption DEF Counter
    <2>2. CounterSpan * (q + k) = a + b /\ a \in Int /\ b \in Int
      BY <1>1, <1>3, <2>1
    <2>3. x = a + Wrapped(x) /\ Wrapped(x) + y = b + Wrapped(z)
      BY <1>1, <1>3
    <2>. HIDE DEF a, b
    <2>. QED  BY <1>1, <2>1, <2>2, <2>3
  <1>5. q + k \in Int
    BY <1>1, <1>3
  <1>. QED  BY <1>3, <1>4, <1>5, RemainderUnique

\* One step of a counter v that shows x: k is added to it or taken from it.
LEMMA CounterStep ==
  ASSUME NEW x \in Int, NEW k \in Int, NEW v, v = Wrapped(x)
  PROVE  /\ v \in Counter
         /\ Wrapped(v + k) = Wrapped(x + k) /\ Wrapped(v + k) \in Counter
         /\ Wrapped(v - k) = Wrapped(x - k) /\ Wrapped(v - k) \in Counter
  <1>1. v \in Counter /\ v \in Int
    BY Division DEF Counter
  <1>2. Wrapped(v + k) = Wrapped(x + k)
    BY WrappedSum
  <1>3. Wrapped(v + (-k)) = Wrapped(x + (-k)) /\ -k \in Int
    BY WrappedSum
  <1>4. v + (-k) = v - k /\ x + (-k) = x - k /\ v - k \in Int /\ v + k \in Int
    BY <1>1
  <1>5. Wrapped(v - k) \in Counter /\ Wrapped(v + k) \in Counter
    BY <1>4, Division
  <1>. QED  BY <1>1, <1>2, <1>3, <1>4, <1>5

\* CHOOSE finds the lowest page of a set that has one.
LEMMA LowestExists ==
  ASSUME NEW S \in SUBSET Nat, S # {}
  PROVE  LowestOf(S) \in S /\ \A q \in S : LowestOf(S) <= q
  <1>1. \E p \in S : \A q \in S : p <= q
    <2>1. PICK p \in S : \A q \in S : <<q, p>> \notin OpToRel(<, Nat)
      BY WFMin, NatLessThanWellFounded
    <2>2. ASSUME NEW q \in S
          PROVE  p <= q
      <3>1. <<q, p>> \in Nat \X Nat /\ p \in Nat /\ q \in Nat
        BY <2>1
      <3>2. ~ (q < p)
        BY <2>1, <3>1 DEF OpToRel
      <3>. QED  BY <3>1, <3>2
    <2>. QED  BY <2>1, <2>2
  <1>. QED  BY <1>1 DEF LowestOf

\* The bitmap is finite, and so is every set of its bits.
LEMMA BitsFinite ==
  ASSUME NEW n \in Nat, NEW S \in SUBSET Indices(n)
  PROVE  IsFiniteSet(S) /\ Cardinality(S) \in Nat
  <1>1. IsFiniteSet(Indices(n))
    BY FS_Interval DEF Indices
  <1>. QED  BY <1>1, FS_Subset, FS_CardinalityType

\* The size of a memory map is a natural number.
LEMMA MemorySizeType ==
  ASSUME NEW m \in MemoryMaps
  PROVE  GetMemorySize(m) \in Nat /\ BitmapBytes(m) \in Nat
  <1>. DEFINE Parts == {{i} \X Run(0, m[i].pages) : i \in DOMAIN m}
              f == [i \in DOMAIN m |-> {i} \X Run(0, m[i].pages)]
  <1>1. /\ DOMAIN m = 1 .. Len(m) /\ Len(m) \in Nat
        /\ \A i \in DOMAIN m : m[i] \in Descriptors
    BY MapsAssumption, LenProperties
  <1>2. IsFiniteSet(DOMAIN m)
    BY <1>1, FS_Interval
  <1>3. f \in Surjection(DOMAIN m, Parts)
    BY DEF Surjection
  <1>4. IsFiniteSet(Parts)
    BY <1>2, <1>3, FS_Surjection
  <1>5. ASSUME NEW i \in DOMAIN m
        PROVE  IsFiniteSet({i} \X Run(0, m[i].pages))
    <2>1. m[i].pages \in Nat
      BY <1>1, <1>5 DEF Descriptors
    <2>2. IsFiniteSet(Run(0, m[i].pages))
      BY <2>1, FS_Interval DEF Run
    <2>. QED  BY <2>2, FS_Singleton, FS_Product
  <1>6. IsFiniteSet(UNION Parts)
    BY <1>4, <1>5, FS_UNION
  <1>7. GetMemorySize(m) \in Nat
    BY <1>6, FS_CardinalityType DEF GetMemorySize
  <1>. QED  BY <1>7 DEF BitmapBytes

-----------------------------------------------------------------------------
(* The operations on the allocator object keep it consistent.              *)

\* The invariants of the allocator object, for the object a.
Consistent(a) ==
  /\ a \in AllocatorType
  /\ a.bits \subseteq Indices(a.Size)
  /\ a.reserved \subseteq a.bits
  /\ a.pageBitmapIndex <= a.Size * 8
  /\ \A i \in 0 .. a.pageBitmapIndex - 1 : i \in a.bits
  /\ a.freeMemory = Wrapped((a.totalMemory + a.stray) - Cardinality(a.bits))
  /\ a.reservedMemory = Wrapped(Cardinality(a.reserved) - a.stray)
  /\ a.usedMemory = Wrapped(Cardinality(a.bits \ a.reserved))

\* The bits a call sets are counted once in the size of the union.
LEMMA SetCount ==
  ASSUME NEW n \in Nat, NEW B \in SUBSET Indices(n), NEW N \in SUBSET Indices(n),
         B \cap N = {}
  PROVE  /\ Cardinality(B) \in Nat /\ Cardinality(N) \in Nat
         /\ Cardinality(B \cup N) = Cardinality(B) + Cardinality(N)
  <1>1. /\ IsFiniteSet(B) /\ Cardinality(B) \in Nat
        /\ IsFiniteSet(N) /\ Cardinality(N) \in Nat
    BY BitsFinite
  <1>2. Cardinality(B \cup N) = Cardinality(B) + Cardinality(N) - Cardinality({})
    BY <1>1, FS_Union
  <1>. QED  BY <1>1, <1>2, FS_EmptySet

\* The bits a call clears are counted once in the size of the difference.
LEMMA ClearCount ==
  ASSUME NEW n \in Nat, NEW B \in SUBSET Indices(n), NEW O \in SUBSET B
  PROVE  /\ Cardinality(B) \in Nat /\ Cardinality(O) \in Nat
         /\ Cardinality(B \ O) = Cardinality(B) - Cardinality(O)
  <1>1. /\ B \ O \in SUBSET Indices(n) /\ O \in SUBSET Indices(n)
        /\ (B \ O) \cap O = {} /\ (B \ O) \cup O = B
    OBVIOUS
  <1>2. /\ Cardinality(B \ O) \in Nat /\ Cardinality(O) \in Nat
        /\ Cardinality(B) = Cardinality(B \ O) + Cardinality(O)
    BY <1>1, SetCount
  <1>. QED  BY <1>2

\* What a consistent allocator's fields are, for the steps below.
LEMMA FieldTypes ==
  ASSUME NEW a, Consistent(a)
  PROVE  /\ a.Size \in Nat /\ a.bits \in SUBSET Indices(a.Size)
         /\ a.reserved \in SUBSET a.bits /\ a.stray \in {0, 1}
         /\ a.totalMemory \in Nat /\ a.pageBitmapIndex \in Nat
         /\ Cardinality(a.bits) \in Nat /\ Cardinality(a.reserved) \in Nat
         /\ Cardinality(a.bits \ a.reserved) \in Nat
         /\ a.totalMemory + a.stray \in Int
         /\ (a.totalMemory + a.stray) - Cardinality(a.bits) \in Int
         /\ Cardinality(a.reserved) - a.stray \in Int
  <1>1. /\ a.Size \in Nat /\ a.bits \in SUBSET Indices(a.Size)
        /\ a.reserved \in SUBSET a.bits /\ a.stray \in {0, 1}
        /\ a.totalMemory \in Nat /\ a.pageBitmapIndex \in Nat
    BY DEF Consistent, AllocatorType
  <1>2. a.reserved \in SUBSET Indices(a.Size) /\ a.bits \ a.reserved \in SUBSET Indices(a.Size)
    BY <1>1
  <1>3. /\ Cardinality(a.bits) \in Nat /\ Cardinality(a.reserved) \in Nat
        /\ Cardinality(a.bits \ a.reserved) \in Nat
    BY <1>1, <1>2, BitsFinite
  <1>4. a.stray \in Int
    BY <1>1
  <1>. QED  BY <1>1, <1>3, <1>4

\* The indices of a bitmap are natural numbers, and so are its set bits.
LEMMA BitsAreNatural ==
  ASSUME NEW a, Consistent(a)
  PROVE  Indices(a.Size) \subseteq Nat /\ a.bits \subseteq Nat /\ a.reserved \subseteq Nat
  <1>1. a.Size \in Nat
    BY FieldTypes
  <1>2. Indices(a.Size) \subseteq Nat
    BY <1>1 DEF Indices
  <1>. QED  BY <1>2 DEF Consistent

\* How the sizes that the counters show change when the bits new are set.
LEMMA TakeCount ==
  ASSUME NEW a, Consistent(a), NEW new \in SUBSET Indices(a.Size),
         a.bits \cap new = {}
  PROVE  LET k == Cardinality(new) IN
         /\ k \in Nat
         /\ Cardinality(a.bits \cup new) = Cardinality(a.bits) + k
         /\ Cardinality(a.reserved \cup new) = Cardinality(a.reserved) + k
         /\ Cardinality((a.bits \ a.reserved) \cup new)
              = Cardinality(a.bits \ a.reserved) + k
  <1>. DEFINE n == a.Size
              B == a.bits
              R == a.reserved
              U == a.bits \ a.reserved
  <1>1. /\ n \in Nat
        /\ B \in SUBSET Indices(n) /\ R \in SUBSET B
    BY FieldTypes
  <1>2. /\ R \in SUBSET Indices(n) /\ U \in SUBSET Indices(n)
        /\ R \cap new = {} /\ U \cap new = {} /\ B \cap new = {}
    BY <1>1
  <1>3. new \in SUBSET Indices(n)
    OBVIOUS
  <1>. HIDE DEF n, B, R, U
  <1>4. Cardinality(B \cup new) = Cardinality(B) + Cardinality(new)
    BY <1>1, <1>2, <1>3, SetCount
  <1>5. Cardinality(R \cup new) = Cardinality(R) + Cardinality(new)
    BY <1>1, <1>2, <1>3, SetCount
  <1>6. Cardinality(U \cup new) = Cardinality(U) + Cardinality(new)
    BY <1>1, <1>2, <1>3, SetCount
  <1>7. Cardinality(new) \in Nat
    BY <1>1, <1>3, BitsFinite
  <1>. QED  BY <1>4, <1>5, <1>6, <1>7 DEF B, R, U

\* The free counter after a call that changes k bits: down when they are set,
\* up when they are cleared.
LEMMA FreeCounter ==
  ASSUME NEW a, Consistent(a), NEW b, NEW k \in Nat,
         b.totalMemory = a.totalMemory, b.stray = a.stray,
         \/ /\ b.freeMemory = Wrapped(a.freeMemory - k)
            /\ Cardinality(b.bits) = Cardinality(a.bits) + k
         \/ /\ b.freeMemory = Wrapped(a.freeMemory + k)
            /\ Cardinality(b.bits) = Cardinality(a.bits) - k
  PROVE  /\ b.freeMemory \in Counter
         /\ b.freeMemory = Wrapped((b.totalMemory + b.stray) - Cardinality(b.bits))
  <1>. DEFINE t == a.totalMemory + a.stray
              c == Cardinality(a.bits)
              d == Cardinality(b.bits)
  <1>1. t \in Int /\ c \in Nat /\ a.freeMemory = Wrapped(t - c)
        /\ b.totalMemory + b.stray = t
    BY FieldTypes DEF Consistent
  <1>2. \/ b.freeMemory = Wrapped(a.freeMemory - k) /\ d = c + k
        \/ b.freeMemory = Wrapped(a.freeMemory + k) /\ d = c - k
    OBVIOUS
  <1>. HIDE DEF t, c, d
  <1>3. t - c \in Int /\ k \in Int
    BY <1>1
  <1>4. (t - c) - k = t - (c + k) /\ (t - c) + k = t - (c - k)
    BY <1>1
  <1>5. /\ Wrapped(a.freeMemory - k) = Wrapped((t - c) - k)
        /\ Wrapped(a.freeMemory + k) = Wrapped((t - c) + k)
        /\ Wrapped(a.freeMemory - k) \in Counter
        /\ Wrapped(a.freeMemory + k) \in Counter
    <2>. DEFINE x == t - c
                v == a.freeMemory
    <2>1. x \in Int /\ k \in Int /\ v = Wrapped(x)
      BY <1>1, <1>3
    <2>. HIDE DEF x, v
    <2>2. Wrapped(v - k) = Wrapped(x - k) /\ Wrapped(v - k) \in Counter
      BY <2>1, CounterStep
    <2>3. Wrapped(v + k) = Wrapped(x + k) /\ Wrapped(v + k) \in Counter
      BY <2>1, CounterStep
    <2>. QED  BY <2>2, <2>3 DEF x, v
  <1>6. b.freeMemory \in Counter /\ b.freeMemory = Wrapped(t - d)
    BY <1>2, <1>4, <1>5
  <1>. QED  BY <1>1, <1>6 DEF d

\* Locking pages, any pages, counts each newly taken one as used.
LEMMA LockConsistent ==
  ASSUME NEW a, Consistent(a), NEW S
  PROVE  Consistent(LockPages(a, S))
  <1>. DEFINE new == Clear(a, S)
              b == LockPages(a, S)
              k == Cardinality(new)
              u == Cardinality(a.bits \ a.reserved)
  <1>1. /\ b.Size = a.Size /\ b.stray = a.stray /\ b.totalMemory = a.totalMemory
        /\ b.pageBitmapIndex = a.pageBitmapIndex
        /\ b.bits = a.bits \cup new /\ b.reserved = a.reserved
        /\ b.reservedMemory = a.reservedMemory
        /\ b.freeMemory = Wrapped(a.freeMemory - k)
        /\ b.usedMemory = Wrapped(a.usedMemory + k)
    BY DEF LockPages, Consistent, AllocatorType
  <1>2. new \in SUBSET Indices(a.Size) /\ a.bits \cap new = {}
    BY DEF Clear
  <1>3. b.bits \ b.reserved = (a.bits \ a.reserved) \cup new
    BY <1>1, <1>2, FieldTypes
  <1>4. /\ k \in Nat /\ Cardinality(b.bits) = Cardinality(a.bits) + k
        /\ Cardinality(b.bits \ b.reserved) = u + k
    <2>. HIDE DEF new, b
    <2>1. /\ k \in Nat /\ Cardinality(a.bits \cup new) = Cardinality(a.bits) + k
          /\ Cardinality((a.bits \ a.reserved) \cup new) = u + k
      BY <1>2, TakeCount
    <2>2. b.bits = a.bits \cup new /\ b.bits \ b.reserved = (a.bits \ a.reserved) \cup new
      BY <1>1, <1>3
    <2>. QED  BY <2>1, <2>2
  <1>5. u \in Nat /\ a.usedMemory = Wrapped(u)
    BY FieldTypes DEF Consistent
  <1>. HIDE DEF new, k, u
  <1>6. b.usedMemory \in Counter /\ b.usedMemory = Wrapped(Cardinality(b.bits \ b.reserved))
    <2>1. k \in Int /\ u \in Int
      BY <1>4, <1>5
    <2>. QED  BY <1>1, <1>4, <1>5, <2>1, CounterStep
  <1>7. /\ b.freeMemory \in Counter
        /\ b.freeMemory = Wrapped((b.totalMemory + b.stray) - Cardinality(b.bits))
    BY <1>1, <1>4, FreeCounter
  <1>8. b \in AllocatorType
    <2>1. b.bits \in SUBSET Nat
      BY <1>1, <1>2, BitsAreNatural
    <2>. QED
      BY <1>6, <1>7, <2>1 DEF Consistent, AllocatorType, LockPages
  <1>. QED
    BY <1>1, <1>2, <1>6, <1>7, <1>8 DEF Consistent

\* Reserving pages, any pages, counts each newly taken one as reserved.
LEMMA ReserveConsistent ==
  ASSUME NEW a, Consistent(a), NEW S
  PROVE  Consistent(ReservePages(a, S))
  <1>. DEFINE new == Clear(a, S)
              b == ReservePages(a, S)
              k == Cardinality(new)
              r == Cardinality(a.reserved)
  <1>1. /\ b.Size = a.Size /\ b.stray = a.stray /\ b.totalMemory = a.totalMemory
        /\ b.pageBitmapIndex = a.pageBitmapIndex
        /\ b.bits = a.bits \cup new /\ b.reserved = a.reserved \cup new
        /\ b.usedMemory = a.usedMemory
        /\ b.freeMemory = Wrapped(a.freeMemory - k)
        /\ b.reservedMemory = Wrapped(a.reservedMemory + k)
    BY DEF ReservePages, Consistent, AllocatorType
  <1>2. new \in SUBSET Indices(a.Size) /\ a.bits \cap new = {}
    BY DEF Clear
  <1>3. b.bits \ b.reserved = a.bits \ a.reserved
    BY <1>1, <1>2, FieldTypes
  <1>4. /\ k \in Nat /\ Cardinality(b.bits) = Cardinality(a.bits) + k
        /\ Cardinality(b.reserved) = r + k
    <2>. HIDE DEF new, b
    <2>1. /\ k \in Nat /\ Cardinality(a.bits \cup new) = Cardinality(a.bits) + k
          /\ Cardinality(a.reserved \cup new) = r + k
      BY <1>2, TakeCount
    <2>2. b.bits = a.bits \cup new /\ b.reserved = a.reserved \cup new
      BY <1>1
    <2>. QED  BY <2>1, <2>2
  <1>5. r \in Nat /\ a.stray \in {0, 1} /\ a.reservedMemory = Wrapped(r - a.stray)
    BY FieldTypes DEF Consistent
  <1>. HIDE DEF new, k, r
  <1>6. /\ b.reservedMemory \in Counter
        /\ b.reservedMemory = Wrapped(Cardinality(b.reserved) - b.stray)
    <2>1. k \in Int /\ r - a.stray \in Int /\ (r - a.stray) + k = (r + k) - a.stray
      BY <1>4, <1>5
    <2>2. /\ Wrapped(a.reservedMemory + k) = Wrapped((r - a.stray) + k)
          /\ Wrapped(a.reservedMemory + k) \in Counter
      BY <1>5, <2>1, CounterStep
    <2>. QED  BY <1>1, <1>4, <2>1, <2>2
  <1>7. /\ b.freeMemory \in Counter
        /\ b.freeMemory = Wrapped((b.totalMemory + b.stray) - Cardinality(b.bits))
    BY <1>1, <1>4, FreeCounter
  <1>8. b \in AllocatorType
    <2>1. b.bits \in SUBSET Nat /\ b.reserved \in SUBSET Nat
      BY <1>1, <1>2, BitsAreNatural
    <2>. QED
      BY <1>6, <1>7, <2>1 DEF Consistent, AllocatorType, ReservePages
  <1>9. b.usedMemory = Wrapped(Cardinality(b.bits \ b.reserved))
    BY <1>1, <1>3 DEF Consistent
  <1>. QED
    BY <1>1, <1>2, <1>6, <1>7, <1>8, <1>9 DEF Consistent

\* The cursor after a call that clears the bits old: not above any of them,
\* not above where it was.
LEMMA CursorBack ==
  ASSUME NEW a, Consistent(a), NEW old \in SUBSET a.bits
  PROVE  /\ CursorAfter(a, old) \in Nat
         /\ CursorAfter(a, old) <= a.pageBitmapIndex
         /\ \A i \in 0 .. CursorAfter(a, old) - 1 : i \in a.bits \ old
  <1>1. a.pageBitmapIndex \in Nat /\ old \in SUBSET Nat
    BY DEF Consistent, AllocatorType
  <1>2. \A i \in 0 .. a.pageBitmapIndex - 1 : i \in a.bits
    BY DEF Consistent
  <1>3. CASE old = {}
    BY <1>1, <1>2, <1>3 DEF CursorAfter
  <1>4. CASE old # {}
    <2>1. LowestOf(old) \in Nat /\ \A q \in old : LowestOf(old) <= q
      BY <1>1, <1>4, LowestExists
    <2>. QED  BY <1>1, <1>2, <1>4, <2>1 DEF CursorAfter, Lower
  <1>. QED  BY <1>3, <1>4

\* Freeing pages nobody reserved gives each one back once.
LEMMA FreeConsistent ==
  ASSUME NEW a, Consistent(a), NEW S, Marked(a, S) \cap a.reserved = {}
  PROVE  Consistent(FreePages(a, S))
  <1>. DEFINE old == Marked(a, S)
              b == FreePages(a, S)
              k == Cardinality(old)
              U == a.bits \ a.reserved
  <1>1. /\ b.Size = a.Size /\ b.stray = a.stray /\ b.totalMemory = a.totalMemory
        /\ b.pageBitmapIndex = CursorAfter(a, old)
        /\ b.bits = a.bits \ old /\ b.reserved = a.reserved \ old
        /\ b.reservedMemory = a.reservedMemory
        /\ b.freeMemory = Wrapped(a.freeMemory + k)
        /\ b.usedMemory = Wrapped(a.usedMemory - k)
    BY DEF FreePages, Consistent, AllocatorType
  <1>2. /\ old \in SUBSET a.bits /\ old \in SUBSET U /\ a.Size \in Nat
        /\ a.bits \in SUBSET Indices(a.Size) /\ U \in SUBSET Indices(a.Size)
    BY FieldTypes DEF Marked
  <1>3. b.bits \ b.reserved = U \ old /\ b.reserved = a.reserved
    BY <1>1, <1>2
  <1>4. a.usedMemory = Wrapped(Cardinality(U))
    BY DEF Consistent
  <1>5. /\ CursorAfter(a, old) \in Nat /\ CursorAfter(a, old) <= a.Size * 8
        /\ \A i \in 0 .. CursorAfter(a, old) - 1 : i \in a.bits \ old
    BY <1>2, CursorBack DEF Consistent, AllocatorType
  <1>. HIDE DEF old, U
  <1>6. /\ k \in Nat /\ Cardinality(b.bits) = Cardinality(a.bits) - k
        /\ Cardinality(U) \in Nat /\ Cardinality(U \ old) = Cardinality(U) - k
    BY <1>1, <1>2, ClearCount
  <1>. HIDE DEF k
  <1>7. b.usedMemory \in Counter /\ b.usedMemory = Wrapped(Cardinality(b.bits \ b.reserved))
    <2>1. k \in Int /\ Cardinality(U) \in Int
      BY <1>6
    <2>2. /\ Wrapped(a.usedMemory - k) = Wrapped(Cardinality(U) - k)
          /\ Wrapped(a.usedMemory - k) \in Counter
      BY <1>4, <2>1, CounterStep
    <2>. QED  BY <1>1, <1>3, <1>6, <2>2
  <1>8. /\ b.freeMemory \in Counter
        /\ b.freeMemory = Wrapped((b.totalMemory + b.stray) - Cardinality(b.bits))
    BY <1>1, <1>6, FreeCounter
  <1>9. b \in AllocatorType
    <2>1. b.bits \in SUBSET Nat /\ b.reserved \in SUBSET Nat
      BY <1>1, <1>2, BitsAreNatural
    <2>. QED
      BY <1>1, <1>5, <1>7, <1>8, <2>1 DEF Consistent, AllocatorType, FreePages
  <1>. QED
    BY <1>1, <1>2, <1>3, <1>5, <1>7, <1>8, <1>9 DEF Consistent

\* Giving back reserved pages counts each one back once.
LEMMA UnreserveConsistent ==
  ASSUME NEW a, Consistent(a), NEW S, Marked(a, S) \subseteq a.reserved
  PROVE  Consistent(UnreservePages(a, S))
  <1>. DEFINE old == Marked(a, S)
              b == UnreservePages(a, S)
              k == Cardinality(old)
              r == Cardinality(a.reserved)
  <1>1. /\ b.Size = a.Size /\ b.stray = a.stray /\ b.totalMemory = a.totalMemory
        /\ b.pageBitmapIndex = CursorAfter(a, old)
        /\ b.bits = a.bits \ old /\ b.reserved = a.reserved \ old
        /\ b.usedMemory = a.usedMemory
        /\ b.freeMemory = Wrapped(a.freeMemory + k)
        /\ b.reservedMemory = Wrapped(a.reservedMemory - k)
    BY DEF UnreservePages, Consistent, AllocatorType
  <1>2. /\ old \in SUBSET a.bits /\ old \in SUBSET a.reserved /\ a.Size \in Nat
        /\ a.bits \in SUBSET Indices(a.Size) /\ a.reserved \in SUBSET Indices(a.Size)
        /\ a.reserved \in SUBSET a.bits
    BY FieldTypes DEF Marked
  <1>3. b.bits \ b.reserved = a.bits \ a.reserved
    BY <1>1, <1>2
  <1>4. a.stray \in {0, 1} /\ a.reservedMemory = Wrapped(r - a.stray)
    BY FieldTypes DEF Consistent
  <1>5. /\ CursorAfter(a, old) \in Nat /\ CursorAfter(a, old) <= a.Size * 8
        /\ \A i \in 0 .. CursorAfter(a, old) - 1 : i \in a.bits \ old
    BY <1>2, CursorBack DEF Consistent, AllocatorType
  <1>. HIDE DEF old
  <1>6. /\ k \in Nat /\ Cardinality(b.bits) = Cardinality(a.bits) - k
        /\ r \in Nat /\ Cardinality(b.reserved) = r - k
    BY <1>1, <1>2, ClearCount
  <1>. HIDE DEF k, r
  <1>7. /\ b.reservedMemory \in Counter
        /\ b.reservedMemory = Wrapped(Cardinality(b.reserved) - b.stray)
    <2>1. k \in Int /\ r - a.stray \in Int /\ (r - a.stray) - k = (r - k) - a.stray
      BY <1>4, <1>6
    <2>2. /\ Wrapped(a.reservedMemory - k) = Wrapped((r - a.stray) - k)
          /\ Wrapped(a.reservedMemory - k) \in Counter
      BY <1>4, <2>1, CounterStep
    <2>. QED  BY <1>1, <1>6, <2>1, <2>2
  <1>8. /\ b.freeMemory \in Counter
        /\ b.freeMemory = Wrapped((b.totalMemory + b.stray) - Cardinality(b.bits))
    BY <1>1, <1>6, FreeCounter
  <1>9. b \in AllocatorType
    <2>1. b.bits \in SUBSET Nat /\ b.reserved \in SUBSET Nat
      BY <1>1, <1>2, BitsAreNatural
    <2>. QED
      BY <1>1, <1>5, <1>7, <1>8, <2>1 DEF Consistent, AllocatorType, UnreservePages
  <1>10. b.usedMemory = Wrapped(Cardinality(b.bits \ b.reserved))
    BY <1>1, <1>3 DEF Consistent
  <1>. QED
    BY <1>1, <1>2, <1>5, <1>7, <1>8, <1>9, <1>10 DEF Consistent

\* The empty bitmap is consistent, whatever the stray bit behind it is.
LEMMA InitBitmapConsistent ==
  ASSUME NEW m \in MemoryMaps, NEW stray \in {0, 1}
  PROVE  /\ Consistent(InitBitmap(m, stray))
         /\ InitBitmap(m, stray).bits = InitBitmap(m, stray).reserved
         /\ InitBitmap(m, stray).Size = BitmapBytes(m)
         /\ Consistent(NoAllocator)
  <1>. DEFINE a == InitBitmap(m, stray)
              t == GetMemorySize(m)
              n == BitmapBytes(m)
  <1>1. t \in Nat /\ n \in Nat
    BY MemorySizeType
  <1>2. /\ a.Size = n /\ a.stray = stray /\ a.totalMemory = t
        /\ a.freeMemory = Wrapped(t) /\ a.reservedMemory = 0 /\ a.usedMemory = 0
        /\ a.pageBitmapIndex = 0
        /\ a.bits = (IF stray = 1 THEN {n * 8} ELSE {}) /\ a.reserved = a.bits
    BY DEF InitBitmap
  <1>3. Wrapped(0) = 0 /\ 0 \in Counter
    BY SizesAssumption, RemainderUnique DEF Counter, Wrapped
  <1>4. Cardinality(a.bits) = stray /\ Cardinality(a.bits \ a.reserved) = 0
    BY <1>2, FS_EmptySet, FS_Singleton
  <1>5. Wrapped(t) \in Counter /\ (t + stray) - stray = t /\ stray - stray = 0
    BY <1>1, Division
  <1>6. a \in AllocatorType
    <2>1. n * 8 \in Nat
      BY <1>1
    <2>2. a.bits \in SUBSET Nat /\ a.reserved \in SUBSET Nat
      BY <1>2, <2>1
    <2>. QED
      BY <1>1, <1>3, <1>5, <2>1, <2>2 DEF AllocatorType, InitBitmap
  <1>7. Consistent(a)
    BY <1>1, <1>2, <1>3, <1>4, <1>5, <1>6 DEF Consistent, Indices
  <1>8. Consistent(NoAllocator)
    BY <1>3, FS_EmptySet DEF Consistent, NoAllocator, AllocatorType, Indices
  <1>. QED  BY <1>2, <1>7, <1>8

\* What the four operations do to the bitmap.
LEMMA BitsAfter ==
  ASSUME NEW a, Consistent(a), NEW S
  PROVE  /\ LockPages(a, S).Size = a.Size
         /\ LockPages(a, S).bits = a.bits \cup (S \cap Indices(a.Size))
         /\ LockPages(a, S).reserved = a.reserved
         /\ ReservePages(a, S).Size = a.Size
         /\ ReservePages(a, S).bits = a.bits \cup (S \cap Indices(a.Size))
         /\ ReservePages(a, S).reserved = a.reserved \cup ((S \cap Indices(a.Size)) \ a.bits)
         /\ FreePages(a, S).Size = a.Size
         /\ FreePages(a, S).bits = a.bits \ S
         /\ FreePages(a, S).reserved = a.reserved \ S
         /\ UnreservePages(a, S).Size = a.Size
         /\ UnreservePages(a, S).bits = a.bits \ S
         /\ UnreservePages(a, S).reserved = a.reserved \ S
  <1>1. /\ a.bits \subseteq Indices(a.Size) /\ a.reserved \subseteq a.bits
        /\ a \in AllocatorType
    BY DEF Consistent
  <1>2. /\ LockPages(a, S).Size = a.Size
        /\ LockPages(a, S).bits = a.bits \cup Clear(a, S)
        /\ LockPages(a, S).reserved = a.reserved
    BY <1>1 DEF LockPages, AllocatorType
  <1>3. /\ ReservePages(a, S).Size = a.Size
        /\ ReservePages(a, S).bits = a.bits \cup Clear(a, S)
        /\ ReservePages(a, S).reserved = a.reserved \cup Clear(a, S)
    BY <1>1 DEF ReservePages, AllocatorType
  <1>4. /\ FreePages(a, S).Size = a.Size
        /\ FreePages(a, S).bits = a.bits \ Marked(a, S)
        /\ FreePages(a, S).reserved = a.reserved \ Marked(a, S)
    BY <1>1 DEF FreePages, AllocatorType
  <1>5. /\ UnreservePages(a, S).Size = a.Size
        /\ UnreservePages(a, S).bits = a.bits \ Marked(a, S)
        /\ UnreservePages(a, S).reserved = a.reserved \ Marked(a, S)
    BY <1>1 DEF UnreservePages, AllocatorType
  <1>6. /\ a.bits \cup Clear(a, S) = a.bits \cup (S \cap Indices(a.Size))
        /\ Clear(a, S) = (S \cap Indices(a.Size)) \ a.bits
        /\ a.bits \ Marked(a, S) = a.bits \ S
        /\ a.reserved \ Marked(a, S) = a.reserved \ S
    BY <1>1 DEF Clear, Marked
  <1>. QED  BY <1>2, <1>3, <1>4, <1>5, <1>6

\* After the map is read the allocator is consistent, and what is free is
\* memory that may be served.
LEMMA MapReadServes ==
  ASSUME NEW m \in MemoryMaps, NEW stray \in {0, 1}
  PROVE  /\ Consistent(MapRead(m, stray))
         /\ MapRead(m, stray).Size = BitmapBytes(m)
         /\ FreeBits(MapRead(m, stray)) \subseteq ServablePages(m)
  <1>. DEFINE zero == InitBitmap(m, stray)
              P    == GetMemorySize(m)
              n    == BitmapBytes(m)
              conv == ConventionalPages(m)
              lowS == Run(0, LowPages)
              bmS  == BitmapPages(m)
              A    == ReservePages(zero, 0 .. P)
              B    == UnreservePages(A, conv)
              C    == ReservePages(B, lowS)
              D    == LockPages(C, bmS)
  <1>1. /\ Consistent(zero) /\ zero.Size = n /\ zero.bits = zero.reserved
        /\ P \in Nat /\ n \in Nat
    BY InitBitmapConsistent, MemorySizeType
  <1>2. D = MapRead(m, stray)
    BY DEF MapRead
  <1>. HIDE DEF zero, P, n, conv, lowS, bmS
  <1>3. Consistent(A) /\ A.Size = n /\ A.bits = A.reserved
        /\ (0 .. P) \cap Indices(n) \subseteq A.bits
    <2>1. Consistent(A) /\ A.Size = n
      BY <1>1, ReserveConsistent, BitsAfter
    <2>2. /\ A.bits = zero.bits \cup ((0 .. P) \cap Indices(n))
          /\ A.reserved = zero.reserved \cup (((0 .. P) \cap Indices(n)) \ zero.bits)
      BY <1>1, BitsAfter
    <2>. QED  BY <1>1, <2>1, <2>2
  <1>. HIDE DEF A
  <1>4. Consistent(B) /\ B.Size = n /\ B.bits = A.bits \ conv
    <2>1. Marked(A, conv) \subseteq A.reserved
      BY <1>3 DEF Marked
    <2>. QED  BY <1>3, <2>1, UnreserveConsistent, BitsAfter
  <1>. HIDE DEF B
  <1>5. Consistent(C) /\ C.Size = n /\ C.bits = B.bits \cup (lowS \cap Indices(n))
    BY <1>4, ReserveConsistent, BitsAfter
  <1>. HIDE DEF C
  <1>6. Consistent(D) /\ D.Size = n /\ D.bits = C.bits \cup (bmS \cap Indices(n))
    BY <1>5, LockConsistent, BitsAfter
  <1>. HIDE DEF D
  <1>7. ASSUME NEW i \in FreeBits(D)
        PROVE  i \in ServablePages(m)
    <2>1. /\ i \in 0 .. n * 8 - 1 /\ i \in Indices(n)
          /\ i \notin D.bits
      BY <1>1, <1>6 DEF FreeBits, Scanned, Indices
    <2>2. i \notin bmS /\ i \notin lowS /\ i \notin B.bits
      BY <2>1, <1>5, <1>6
    <2>3. CASE i \in conv
      BY <2>2, <2>3 DEF ServablePages, UsablePages, conv, lowS, bmS
    <2>4. CASE i \notin conv
      <3>1. i \notin 0 .. P
        BY <2>1, <2>2, <2>4, <1>3, <1>4
      <3>2. i \in TailPages(m)
        BY <3>1, <2>1, <1>1 DEF TailPages, P, n
      <3>. QED  BY <3>2, <2>2 DEF ServablePages, lowS, bmS
    <2>. QED  BY <2>3, <2>4
  <1>. QED  BY <1>2, <1>6, <1>7 DEF n

-----------------------------------------------------------------------------
(* The inductive invariant: the four invariants the runs check.            *)

IInv ==
  /\ TypeOK
  /\ NothingFreeBelowCursor
  /\ CountersMatchBitmap
  /\ ServedPagesAreUsable

\* The invariant says that the object is consistent, and what is served.
LEMMA InvariantMeaning ==
  IInv <=> /\ mMap \in MemoryMaps
           /\ Initialized \in BOOLEAN /\ panicked \in BOOLEAN
           /\ held \subseteq Nat /\ returned \in Nat
           /\ Consistent(g_Allocator)
           /\ ServedPagesAreUsable
  BY DEF IInv, TypeOK, NothingFreeBelowCursor, CountersMatchBitmap, Consistent

\* Nothing is tracked, free or held before the map is read.
LEMMA InitIInv == Init => IInv
  <1>. SUFFICES ASSUME Init PROVE IInv
    OBVIOUS
  <1>1. Consistent(NoAllocator)
    <2>1. CASE MemoryMaps = {}
      BY <2>1 DEF Init
    <2>2. CASE MemoryMaps # {}
      BY <2>2, InitBitmapConsistent
    <2>. QED  BY <2>1, <2>2
  <1>. QED
    BY <1>1, InvariantMeaning DEF Init, ServedPagesAreUsable, Running

\* Every step keeps the invariant, operation by operation.
LEMMA StepIInv == IInv /\ [Next]_vars => IInv'
  <1>. SUFFICES ASSUME IInv, [Next]_vars PROVE IInv'
    OBVIOUS
  <1>. USE DEF Running
  <1>0. /\ mMap \in MemoryMaps
        /\ Initialized \in BOOLEAN /\ panicked \in BOOLEAN
        /\ held \subseteq Nat /\ returned \in Nat
        /\ Consistent(g_Allocator)
        /\ ServedPagesAreUsable
    BY InvariantMeaning
  <1>1. SUFFICES /\ mMap' \in MemoryMaps
                 /\ Initialized' \in BOOLEAN /\ panicked' \in BOOLEAN
                 /\ held' \subseteq Nat /\ returned' \in Nat
                 /\ Consistent(g_Allocator')
                 /\ ServedPagesAreUsable'
    BY DEF IInv, TypeOK, NothingFreeBelowCursor, CountersMatchBitmap, Consistent
  <1>. DEFINE a == g_Allocator
              Served == /\ a.Size = BitmapBytes(mMap)
                        /\ held \subseteq (Scanned(a.Size) \cap a.bits) \ a.reserved
                        /\ held \cup FreeBits(a) \subseteq ServablePages(mMap)
  <1>2. Running => Served
    BY <1>0 DEF ServedPagesAreUsable
  <1>3. CASE ReadEFIMemoryMap
    <2>1. held = {}
      BY <1>0, <1>3 DEF ReadEFIMemoryMap, ServedPagesAreUsable
    <2>2. CASE Rejected(mMap)
      BY <1>0, <1>3, <2>1, <2>2 DEF ReadEFIMemoryMap, ServedPagesAreUsable
    <2>3. CASE ~Rejected(mMap)
      <3>1. PICK stray \in {0, 1} : a' = MapRead(mMap, stray)
        BY <1>3, <2>3 DEF ReadEFIMemoryMap
      <3>2. /\ Consistent(a') /\ a'.Size = BitmapBytes(mMap)
            /\ FreeBits(a') \subseteq ServablePages(mMap)
        BY <1>0, <3>1, MapReadServes
      <3>3. /\ mMap' = mMap /\ held' = {} /\ returned' = returned
            /\ Initialized' = TRUE /\ panicked' \in BOOLEAN
        BY <1>3, <2>1 DEF ReadEFIMemoryMap, Rejected
      <3>4. Served'
        BY <3>2, <3>3
      <3>. QED
        BY <1>0, <3>2, <3>3, <3>4 DEF ServedPagesAreUsable
    <2>. QED  BY <2>2, <2>3
  <1>4. ASSUME PageFound
        PROVE  Consistent(a') /\ held' \subseteq Nat /\ returned' \in Nat /\ Served'
    <2>. DEFINE p == LowestOf(Candidates(a))
                c == [a EXCEPT !.pageBitmapIndex = p]
    <2>1. /\ Served /\ Candidates(a) # {} /\ returned' = p /\ mMap' = mMap
          /\ a' = LockPages(c, {p}) /\ held' = held \cup {p}
      BY <1>2, <1>4 DEF PageFound
    <2>2. Candidates(a) \in SUBSET Nat
      BY FieldTypes, <1>0 DEF Candidates, Scanned
    <2>3. p \in Candidates(a) /\ p \in Nat /\ \A q \in Candidates(a) : p <= q
      BY <2>1, <2>2, LowestExists
    <2>. HIDE DEF p
    <2>4. /\ a.Size \in Nat /\ a.pageBitmapIndex \in Nat
          /\ \A i \in 0 .. a.pageBitmapIndex - 1 : i \in a.bits
      BY <1>0 DEF Consistent, AllocatorType
    <2>5. p \in 0 .. a.Size * 8 - 1 /\ p >= a.pageBitmapIndex /\ p \notin a.bits
      BY <2>3 DEF Candidates, Scanned
    <2>6. \A i \in 0 .. p - 1 : i \in a.bits
      <3>. SUFFICES ASSUME NEW i \in 0 .. p - 1, i \notin a.bits PROVE FALSE
        OBVIOUS
      <3>1. i \in 0 .. a.Size * 8 - 1 /\ ~ (p <= i)
        BY <2>3, <2>4, <2>5
      <3>2. i >= a.pageBitmapIndex
        BY <2>3, <2>4
      <3>. QED  BY <2>3, <3>1, <3>2 DEF Candidates, Scanned
    <2>7. /\ c.Size = a.Size /\ c.bits = a.bits /\ c.reserved = a.reserved
          /\ c.pageBitmapIndex = p /\ Consistent(c)
      <3>1. p <= a.Size * 8
        BY <2>3, <2>4, <2>5
      <3>. QED  BY <1>0, <2>3, <2>6, <3>1 DEF Consistent, AllocatorType
    <2>. HIDE DEF c
    <2>8. /\ Consistent(a') /\ a'.Size = a.Size /\ a'.reserved = a.reserved
          /\ a'.bits = a.bits \cup ({p} \cap Indices(a.Size))
      BY <2>1, <2>7, LockConsistent, BitsAfter
    <2>9. p \in Indices(a.Size) /\ p \in FreeBits(a)
      BY <2>4, <2>5 DEF Indices, FreeBits, Scanned
    <2>10. a'.bits = a.bits \cup {p} /\ FreeBits(a') \subseteq FreeBits(a)
      BY <2>8, <2>9 DEF FreeBits
    <2>11. a.reserved \subseteq a.bits
      BY <1>0 DEF Consistent
    <2>12. held' \subseteq (Scanned(a'.Size) \cap a'.bits) \ a'.reserved
      BY <2>1, <2>5, <2>8, <2>10, <2>11 DEF Scanned
    <2>. QED  BY <1>0, <2>1, <2>3, <2>8, <2>9, <2>10, <2>12
  <1>5. ASSUME PageNotFound
        PROVE  Consistent(a') /\ Served' /\ returned' = 0
    <2>1. /\ Served /\ Candidates(a) = {} /\ returned' = 0 /\ mMap' = mMap
          /\ held' = held /\ a' = [a EXCEPT !.pageBitmapIndex = a.Size * 8]
      BY <1>2, <1>5 DEF PageNotFound
    <2>2. /\ a.Size \in Nat /\ a.pageBitmapIndex \in Nat /\ a.Size * 8 \in Nat
          /\ \A i \in 0 .. a.pageBitmapIndex - 1 : i \in a.bits
      BY <1>0 DEF Consistent, AllocatorType
    <2>3. \A i \in 0 .. a.Size * 8 - 1 : i \in a.bits
      <3>. SUFFICES ASSUME NEW i \in 0 .. a.Size * 8 - 1, i \notin a.bits PROVE FALSE
        OBVIOUS
      <3>1. i >= a.pageBitmapIndex
        BY <2>2
      <3>. QED  BY <2>1, <3>1 DEF Candidates, Scanned
    <2>4. /\ a'.Size = a.Size /\ a'.bits = a.bits /\ a'.reserved = a.reserved
          /\ Consistent(a')
      BY <1>0, <2>1, <2>2, <2>3 DEF Consistent, AllocatorType
    <2>5. FreeBits(a') = FreeBits(a)
      BY <2>4 DEF FreeBits
    <2>. QED  BY <2>1, <2>4, <2>5
  <1>6. ASSUME NEW S \in Runs, Free(S)
        PROVE  Consistent(a') /\ held' \subseteq Nat /\ Served'
    <2>1. Served /\ S \cap a.bits \subseteq held
      BY <1>2, <1>6 DEF Free
    <2>2. a' = FreePages(a, S) /\ held' = held \ S /\ mMap' = mMap
      BY <1>6 DEF Free
    <2>3. Marked(a, S) \cap a.reserved = {}
      BY <2>1 DEF Marked
    <2>4. Consistent(a')
      BY <1>0, <2>2, <2>3, FreeConsistent
    <2>5. a'.Size = a.Size /\ a'.bits = a.bits \ S /\ a'.reserved = a.reserved \ S
      BY <1>0, <2>2, BitsAfter
    <2>6. FreeBits(a') \subseteq FreeBits(a) \cup held
      BY <2>1, <2>5 DEF FreeBits
    <2>. QED  BY <1>0, <2>1, <2>2, <2>4, <2>5, <2>6
  <1>7. ASSUME NEW S \in Runs, Lock(S)
        PROVE  Consistent(a') /\ Served'
    <2>1. Served /\ a' = LockPages(a, S) /\ held' = held /\ mMap' = mMap
      BY <1>2, <1>7 DEF Lock
    <2>2. /\ a'.Size = a.Size /\ a.bits \subseteq a'.bits /\ a'.reserved = a.reserved
      BY <1>0, <2>1, BitsAfter
    <2>3. FreeBits(a') \subseteq FreeBits(a)
      BY <2>2 DEF FreeBits
    <2>. QED  BY <1>0, <2>1, <2>2, <2>3, LockConsistent
  <1>8. ASSUME NEW S \in Runs, Reserve(S)
        PROVE  Consistent(a') /\ Served'
    <2>1. Served /\ a' = ReservePages(a, S) /\ held' = held /\ mMap' = mMap
      BY <1>2, <1>8 DEF Reserve
    <2>2. /\ a'.Size = a.Size /\ a.bits \subseteq a'.bits
          /\ a'.reserved \cap a.bits \subseteq a.reserved
      BY <1>0, <2>1, BitsAfter
    <2>3. FreeBits(a') \subseteq FreeBits(a)
      BY <2>2 DEF FreeBits
    <2>. QED  BY <1>0, <2>1, <2>2, <2>3, ReserveConsistent
  <1>9. ASSUME NEW S \in Runs, Unreserve(S)
        PROVE  Consistent(a') /\ Served'
    <2>1. /\ Served /\ a' = UnreservePages(a, S) /\ held' = held /\ mMap' = mMap
          /\ S \subseteq ServablePages(mMap) /\ S \cap a.bits \subseteq a.reserved
      BY <1>2, <1>9 DEF Unreserve, ServablePages
    <2>2. Marked(a, S) \subseteq a.reserved
      BY <2>1 DEF Marked
    <2>3. a'.Size = a.Size /\ a'.bits = a.bits \ S /\ a'.reserved = a.reserved \ S
      BY <1>0, <2>1, BitsAfter
    <2>4. FreeBits(a') \subseteq FreeBits(a) \cup S
      BY <2>3 DEF FreeBits
    <2>5. Consistent(a')
      BY <1>0, <2>1, <2>2, UnreserveConsistent
    <2>. QED  BY <2>1, <2>3, <2>4, <2>5
  <1>10. CASE UNCHANGED vars
    BY <1>0, <1>10 DEF vars, ServedPagesAreUsable
  <1>11. ASSUME Served', Running'
         PROVE  ServedPagesAreUsable'
    BY <1>11 DEF ServedPagesAreUsable
  <1>. QED
    BY <1>0, <1>3, <1>4, <1>5, <1>6, <1>7, <1>8, <1>9, <1>10, <1>11
    DEF Next, RequestPage, PageFound, PageNotFound, Free, Lock, Reserve, Unreserve

-----------------------------------------------------------------------------
(* The theorems.                                                           *)

\* The inductive invariant holds in every behaviour, for every memory map.
THEOREM Invariance == Spec => []IInv
  <1>1. Init => IInv
    BY InitIInv
  <1>2. IInv /\ [Next]_vars => IInv'
    BY StepIInv
  <1>. QED  BY <1>1, <1>2, PTL DEF Spec

\* Types: in particular no bit is ever set beyond the last one the bitmap
\* accepts, and the next-fit cursor stays inside the bitmap.
THEOREM TypeCorrect == Spec => []TypeOK
  <1>1. IInv => TypeOK
    BY DEF IInv
  <1>. QED  BY <1>1, Invariance, PTL

\* No page below the next-fit cursor is free, whatever was freed and
\* unreserved in between: the forward scan of RequestPage misses nothing.
THEOREM CursorCorrect == Spec => []NothingFreeBelowCursor
  <1>1. IInv => NothingFreeBelowCursor
    BY DEF IInv
  <1>. QED  BY <1>1, Invariance, PTL

\* The three counters agree with the bitmap for every sequence of calls.
THEOREM CountersCorrect == Spec => []CountersMatchBitmap
  <1>1. IInv => CountersMatchBitmap
    BY DEF IInv
  <1>. QED  BY <1>1, Invariance, PTL

\* Only conventional memory outside the first MiB and the bitmap, or a tail
\* page of the bitmap, is ever handed out.
THEOREM ServedCorrect == Spec => []ServedPagesAreUsable
  <1>1. IInv => ServedPagesAreUsable
    BY DEF IInv
  <1>. QED  BY <1>1, Invariance, PTL

-----------------------------------------------------------------------------
(* The bitmap implements the pool.                                         *)

\* The pages RequestPage can still find are all the free ones: the cursor has
\* left none behind.
LEMMA CandidatesAreFree ==
  ASSUME IInv
  PROVE  Candidates(g_Allocator) = FreeBits(g_Allocator)
  <1>1. Consistent(g_Allocator)
    BY InvariantMeaning
  <1>2. /\ g_Allocator.pageBitmapIndex \in Nat /\ g_Allocator.Size \in Nat
        /\ \A i \in 0 .. g_Allocator.pageBitmapIndex - 1 : i \in g_Allocator.bits
    BY <1>1 DEF Consistent, AllocatorType
  <1>3. ASSUME NEW i \in FreeBits(g_Allocator)
        PROVE  i \in Candidates(g_Allocator)
    <2>1. i \in Int /\ i >= 0 /\ i \notin g_Allocator.bits
      BY <1>2 DEF FreeBits, Scanned
    <2>2. i >= g_Allocator.pageBitmapIndex
      BY <1>2, <2>1
    <2>. QED  BY <2>1, <2>2 DEF FreeBits, Candidates
  <1>. QED  BY <1>3 DEF Candidates, FreeBits

\* Every step of the allocator is a step of the pool, or invisible to it.
LEMMA StepImplementsPool ==
  ASSUME IInv, [Next]_vars
  PROVE  [Pool!PoolNext]_(Pool!poolVars)
  <1>. USE DEF Pool!PoolNext, Pool!poolVars
  <1>. DEFINE a == g_Allocator
              F == FreeBits(a)
  <1>0. /\ Consistent(a) /\ held \subseteq Nat
        /\ Running => held \subseteq (Scanned(a.Size) \cap a.bits) \ a.reserved
        /\ ~Running => held = {}
    BY InvariantMeaning DEF ServedPagesAreUsable
  <1>1. IInv'
    BY StepIInv
  <1>2. FreeBits(a') \subseteq Nat
    <2>1. a'.Size \in Nat
      BY <1>1 DEF IInv, TypeOK, AllocatorType
    <2>. QED  BY <2>1 DEF FreeBits, Scanned
  <1>3. CASE ReadEFIMemoryMap
    <2>1. held = {} /\ held' = held /\ returned' = returned
      BY <1>0, <1>3 DEF ReadEFIMemoryMap, Running
    <2>. QED  BY <1>2, <2>1 DEF Pool!Open
  <1>4. ASSUME PageFound
        PROVE  Pool!Grant
    <2>. DEFINE p == LowestOf(F)
                c == [a EXCEPT !.pageBitmapIndex = p]
    <2>1. /\ F # {} /\ returned' = p /\ held' = held \cup {p}
          /\ a' = LockPages(c, {p})
      BY <1>4, CandidatesAreFree DEF PageFound
    <2>2. p \in F
      <3>1. F \in SUBSET Nat
        BY <1>0 DEF FreeBits, Scanned, Consistent, AllocatorType
      <3>. QED  BY <2>1, <3>1, LowestExists
    <2>3. Pool!Lowest(F) = p
      BY DEF Pool!Lowest, LowestOf
    <2>. HIDE DEF p
    <2>4. c.Size = a.Size /\ c.bits = a.bits
      BY <1>0 DEF Consistent, AllocatorType
    <2>5. a'.Size = a.Size /\ a'.bits = a.bits \cup {p}
      <3>1. c \in AllocatorType
        BY <1>0, <2>2 DEF FreeBits, Scanned, Consistent, AllocatorType
      <3>2. p \in Indices(c.Size) \ c.bits
        BY <1>0, <2>2, <2>4 DEF FreeBits, Scanned, Indices, Consistent, AllocatorType
      <3>. HIDE DEF c
      <3>3. LockPages(c, {p}).Size = c.Size
            /\ LockPages(c, {p}).bits = c.bits \cup Clear(c, {p})
        BY <3>1 DEF LockPages, AllocatorType
      <3>4. Clear(c, {p}) = {p}
        BY <3>2 DEF Clear
      <3>. QED  BY <2>1, <2>4, <3>3, <3>4
    <2>6. FreeBits(a') = F \ {p}
      BY <2>5 DEF FreeBits
    <2>. QED  BY <2>1, <2>3, <2>6 DEF Pool!Grant
  <1>5. CASE PageNotFound
    <2>1. F = {} /\ returned' = 0 /\ held' = held
      BY <1>5, CandidatesAreFree DEF PageNotFound
    <2>2. a'.bits = a.bits /\ a'.Size = a.Size
      BY <1>0, <1>5 DEF PageNotFound, Consistent, AllocatorType
    <2>3. FreeBits(a') = F
      BY <2>2 DEF FreeBits
    <2>. QED  BY <2>1, <2>3 DEF Pool!Refuse
  <1>6. ASSUME NEW S \in Runs, Free(S)
        PROVE  Pool!Release
    <2>1. /\ S \cap a.bits \subseteq held
          /\ held \subseteq Scanned(a.Size) \cap a.bits
          /\ a' = FreePages(a, S) /\ held' = held \ S /\ returned' = returned
      BY <1>0, <1>6 DEF Free
    <2>2. a'.Size = a.Size /\ a'.bits = a.bits \ S
      BY <1>0, <2>1, BitsAfter
    <2>3. FreeBits(a') = F \cup (held \ held')
      BY <2>1, <2>2 DEF FreeBits
    <2>. QED  BY <2>1, <2>3 DEF Pool!Release
  <1>7. ASSUME NEW S \in Runs, Lock(S) \/ Reserve(S)
        PROVE  Pool!Withdraw
    <2>1. /\ a' = LockPages(a, S) \/ a' = ReservePages(a, S)
          /\ held' = held /\ returned' = returned
      BY <1>7 DEF Lock, Reserve
    <2>2. a'.Size = a.Size /\ a.bits \subseteq a'.bits
      BY <1>0, <2>1, BitsAfter
    <2>. QED  BY <2>1, <2>2 DEF Pool!Withdraw, FreeBits
  <1>8. ASSUME NEW S \in Runs, Unreserve(S)
        PROVE  Pool!Deposit
    <2>1. /\ S \cap a.bits \subseteq a.reserved /\ held \subseteq a.bits \ a.reserved
          /\ a' = UnreservePages(a, S) /\ held' = held /\ returned' = returned
      BY <1>0, <1>8 DEF Unreserve
    <2>2. a'.Size = a.Size /\ a'.bits = a.bits \ S
      BY <1>0, <2>1, BitsAfter
    <2>3. F \subseteq FreeBits(a') /\ FreeBits(a') \cap held = {}
      BY <2>1, <2>2 DEF FreeBits
    <2>. QED  BY <1>2, <2>1, <2>3 DEF Pool!Deposit
  <1>9. CASE UNCHANGED vars
    BY <1>9 DEF vars
  <1>. QED
    BY <1>3, <1>4, <1>5, <1>6, <1>7, <1>8, <1>9 DEF Next, RequestPage

\* For every memory map the bitmap, its cursor and its off-by-one bounds
\* implement the pool: lowest page first, none twice, refused only when empty.
THEOREM PoolRefinement == Spec => ImplementsPool
  <1>1. Init => Pool!PoolInit
    BY DEF Init, Pool!PoolInit, NoAllocator, FreeBits, Scanned
  <1>2. IInv /\ [Next]_vars => [Pool!PoolNext]_(Pool!poolVars)
    BY StepImplementsPool
  <1>. QED
    BY <1>1, <1>2, Invariance, PTL DEF Spec, ImplementsPool, Pool!PoolSpec
=============================================================================
