------------------------- MODULE PageFrameAllocator -------------------------
(***************************************************************************)
(* The physical page frame allocator (memory_management/PageFrameAllocator *)
(* and utils/Bitmap).  Frames are page numbers, and the byte counters of   *)
(* the code count pages.  The bitmap is the set of the indices whose bit   *)
(* is 1.                                                                   *)
(***************************************************************************)
EXTENDS Integers, FiniteSets, Sequences

CONSTANTS
  MemoryMaps,    \* EFI memory maps the firmware may pass: sequences of
                 \* descriptors [conventional, start, pages].
  LowPages,      \* Pages below 1 MiB, never handed out (0x100 in the kernel).
  PageBytes,     \* Bytes in a page (4096 in the kernel).
  CounterSpan,   \* Pages a 64-bit byte counter counts before it wraps (2^52).
  MaxRun         \* Bound of the model: pages in one multi-page call.

Descriptors == [conventional : BOOLEAN, start : Nat, pages : Nat]

ASSUME MapsAssumption == MemoryMaps \subseteq Seq(Descriptors)
ASSUME SizesAssumption ==
  /\ LowPages \in Nat \ {0}
  /\ PageBytes \in Nat \ {0}
  /\ CounterSpan \in Nat \ {0}
  /\ MaxRun \in Nat \ {0}

VARIABLES
  mMap,          \* The map the bootloader passed.
  Initialized,   \* ReadEFIMemoryMap has run.
  panicked,      \* Panic was called: the machine is halted.
  g_Allocator,   \* The allocator object and its global cursor.
  held,          \* History: frames returned by RequestPage, not freed since.
  returned       \* What the last RequestPage returned, 0 for NULL.

vars == <<mMap, Initialized, panicked, g_Allocator, held, returned>>

-----------------------------------------------------------------------------
(* The memory map.                                                         *)

Run(start, n) == start .. start + n - 1

Conventional(m) == {i \in DOMAIN m : m[i].conventional}

ConventionalPages(m) ==
  UNION {Run(m[i].start, m[i].pages) : i \in Conventional(m)}

\* Sum of the page counts of all descriptors, whatever their type.
GetMemorySize(m) ==
  Cardinality(UNION {{i} \X Run(0, m[i].pages) : i \in DOMAIN m})

\* The first conventional descriptor no other one exceeds, or 0.
Largest(m) ==
  IF \E i \in Conventional(m) : m[i].pages > 0
  THEN CHOOSE i \in Conventional(m) :
         \A j \in Conventional(m) :
           \/ m[j].pages < m[i].pages
           \/ m[j].pages = m[i].pages /\ i <= j
  ELSE 0

\* Panic on an empty map, and when the segment found is absent or at NULL.
Rejected(m) == m = <<>> \/ Largest(m) = 0 \/ m[Largest(m)].start = 0

\* PageBitmap.Size: bytes of the bitmap for this map.
BitmapBytes(m) == GetMemorySize(m) \div 8 + 1

BitmapPages(m) == Run(m[Largest(m)].start, BitmapBytes(m) \div PageBytes + 1)

-----------------------------------------------------------------------------
(* The bitmap.  Set and Get accept the index one past the last bit: the    *)
(* first bit of the byte behind the buffer, which is whatever the memory   *)
(* held there ("stray" counts it).                                         *)

Indices(Size) == 0 .. Size * 8
Scanned(Size) == 0 .. Size * 8 - 1

Wrapped(n) == n % CounterSpan

Lower(a, b) == IF a < b THEN a ELSE b

LowestOf(S) == CHOOSE p \in S : \A q \in S : p <= q

NoAllocator ==
  [Size |-> 0, bits |-> {}, reserved |-> {}, stray |-> 0,
   totalMemory |-> 0, freeMemory |-> 0, reservedMemory |-> 0, usedMemory |-> 0,
   pageBitmapIndex |-> 0]

\* InitBitmap on a fresh object: every bit of the buffer is cleared.
InitBitmap(m, stray) ==
  LET behind == IF stray = 1 THEN {BitmapBytes(m) * 8} ELSE {} IN
  [Size |-> BitmapBytes(m), bits |-> behind, reserved |-> behind, stray |-> stray,
   totalMemory |-> GetMemorySize(m), freeMemory |-> Wrapped(GetMemorySize(m)),
   reservedMemory |-> 0, usedMemory |-> 0, pageBitmapIndex |-> 0]

\* The bits an operation that sets, or clears, the bits of S changes.
Clear(a, S) == (S \cap Indices(a.Size)) \ a.bits
Marked(a, S) == S \cap Indices(a.Size) \cap a.bits

\* LockPages without its test whether the page is locked already.
LockCountsAgain(a, S) ==
  LET new == S \cap Indices(a.Size) IN
  [a EXCEPT
     !.bits = @ \cup new,
     !.freeMemory = Wrapped(@ - Cardinality(new)),
     !.usedMemory = Wrapped(@ + Cardinality(new))]

LockPages(a, S) ==
  LET new == Clear(a, S) IN
  [a EXCEPT
     !.bits = @ \cup new,
     !.freeMemory = Wrapped(@ - Cardinality(new)),
     !.usedMemory = Wrapped(@ + Cardinality(new))]

ReservePages(a, S) ==
  LET new == Clear(a, S) IN
  [a EXCEPT
     !.bits = @ \cup new,
     !.reserved = @ \cup new,
     !.freeMemory = Wrapped(@ - Cardinality(new)),
     !.reservedMemory = Wrapped(@ + Cardinality(new))]

\* A cleared bit below the cursor pulls the cursor back to it.
CursorAfter(a, old) ==
  IF old = {} THEN a.pageBitmapIndex
              ELSE Lower(a.pageBitmapIndex, LowestOf(old))

\* FreePages leaving the cursor where it is.
FreeKeepsCursor(a, S) ==
  LET old == Marked(a, S) IN
  [a EXCEPT
     !.bits = @ \ old,
     !.reserved = @ \ old,
     !.freeMemory = Wrapped(@ + Cardinality(old)),
     !.usedMemory = Wrapped(@ - Cardinality(old))]

FreePages(a, S) ==
  LET old == Marked(a, S) IN
  [a EXCEPT
     !.bits = @ \ old,
     !.reserved = @ \ old,
     !.freeMemory = Wrapped(@ + Cardinality(old)),
     !.usedMemory = Wrapped(@ - Cardinality(old)),
     !.pageBitmapIndex = CursorAfter(a, old)]

UnreservePages(a, S) ==
  LET old == Marked(a, S) IN
  [a EXCEPT
     !.bits = @ \ old,
     !.reserved = @ \ old,
     !.freeMemory = Wrapped(@ + Cardinality(old)),
     !.reservedMemory = Wrapped(@ - Cardinality(old)),
     !.pageBitmapIndex = CursorAfter(a, old)]

\* The first MiB reserved before the conventional memory is released.
LowFirst(m, stray) ==
  LET all  == ReservePages(InitBitmap(m, stray), 0 .. GetMemorySize(m))
      low  == ReservePages(all, Run(0, LowPages))
      conv == UnreservePages(low, ConventionalPages(m))
  IN  LockPages(conv, BitmapPages(m))

\* Everything reserved, the conventional memory released, the first MiB
\* reserved for good and the bitmap's own pages locked, in that order.
MapRead(m, stray) ==
  LET all  == ReservePages(InitBitmap(m, stray), 0 .. GetMemorySize(m))
      conv == UnreservePages(all, ConventionalPages(m))
      low  == ReservePages(conv, Run(0, LowPages))
  IN  LockPages(low, BitmapPages(m))

-----------------------------------------------------------------------------
(* The operations.                                                         *)

Running == Initialized /\ ~panicked

ReadEFIMemoryMap ==
  /\ ~Initialized
  /\ Initialized' = TRUE
  /\ panicked' = Rejected(mMap)
  /\ IF Rejected(mMap) THEN UNCHANGED g_Allocator
     ELSE \E stray \in {0, 1} : g_Allocator' = MapRead(mMap, stray)
  /\ UNCHANGED <<mMap, held, returned>>

\* The clear bits the scan can reach, from the cursor to the end of the bitmap.
Candidates(a) ==
  {i \in Scanned(a.Size) : i >= a.pageBitmapIndex /\ i \notin a.bits}

PageFound ==
  /\ Running /\ Candidates(g_Allocator) # {}
  /\ returned' = LowestOf(Candidates(g_Allocator))
  /\ g_Allocator' = LockPages([g_Allocator EXCEPT !.pageBitmapIndex = returned'],
                              {returned'})
  /\ held' = held \cup {returned'}
  /\ UNCHANGED <<mMap, Initialized, panicked>>

\* The scan stopping one index late, as Set and Get do.
ScanPastEnd ==
  /\ Running /\ Candidates(g_Allocator) = {}
  /\ returned' = 0
  /\ g_Allocator' = [g_Allocator EXCEPT !.pageBitmapIndex = g_Allocator.Size * 8 + 1]
  /\ UNCHANGED <<mMap, Initialized, panicked, held>>

\* The cursor ran off the end: NULL.
PageNotFound ==
  /\ Running /\ Candidates(g_Allocator) = {}
  /\ returned' = 0
  /\ g_Allocator' = [g_Allocator EXCEPT !.pageBitmapIndex = g_Allocator.Size * 8]
  /\ UNCHANGED <<mMap, Initialized, panicked, held>>

RequestPage == PageFound \/ PageNotFound

\* Memory the map calls conventional, the first MiB and the bitmap apart.
UsablePages(m) == (ConventionalPages(m) \ Run(0, LowPages)) \ BitmapPages(m)

\* The runs of pages a call may name: up to one page behind the last index.
Runs ==
  {Run(start, n) : start \in 0 .. g_Allocator.Size * 8 + 1, n \in 1 .. MaxRun}

\* Callers free what they were given; freeing it again before anyone else
\* got it is absorbed by the code and stays in.
Free(S) ==
  /\ Running /\ S \cap g_Allocator.bits \subseteq held
  /\ g_Allocator' = FreePages(g_Allocator, S)
  /\ held' = held \ S
  /\ UNCHANGED <<mMap, Initialized, panicked, returned>>

Lock(S) ==
  /\ Running
  /\ g_Allocator' = LockPages(g_Allocator, S)
  /\ UNCHANGED <<mMap, Initialized, panicked, held, returned>>

Reserve(S) ==
  /\ Running
  /\ g_Allocator' = ReservePages(g_Allocator, S)
  /\ UNCHANGED <<mMap, Initialized, panicked, held, returned>>

\* Callers give back memory the map calls conventional and nobody took.
Unreserve(S) ==
  /\ Running
  /\ S \subseteq UsablePages(mMap)
  /\ S \cap g_Allocator.bits \subseteq g_Allocator.reserved
  /\ g_Allocator' = UnreservePages(g_Allocator, S)
  /\ UNCHANGED <<mMap, Initialized, panicked, held, returned>>

Init ==
  /\ mMap \in MemoryMaps
  /\ Initialized = FALSE /\ panicked = FALSE
  /\ g_Allocator = NoAllocator
  /\ held = {} /\ returned = 0

Next ==
  \/ ReadEFIMemoryMap
  \/ RequestPage
  \/ \E S \in Runs : Free(S)
  \/ \E S \in Runs : Lock(S)
  \/ \E S \in Runs : Reserve(S)
  \/ \E S \in Runs : Unreserve(S)

Spec == Init /\ [][Next]_vars

-----------------------------------------------------------------------------
(* Properties.                                                             *)

Counter == 0 .. CounterSpan - 1

AllocatorType ==
  [Size : Nat, bits : SUBSET Nat, reserved : SUBSET Nat, stray : {0, 1},
   totalMemory : Nat, freeMemory : Counter, reservedMemory : Counter,
   usedMemory : Counter, pageBitmapIndex : Nat]

\* Every variable stays in its type; no index beyond the last accepted one is
\* ever stored in the bitmap and the cursor never passes the end of the scan.
TypeOK ==
  /\ mMap \in MemoryMaps
  /\ Initialized \in BOOLEAN /\ panicked \in BOOLEAN
  /\ g_Allocator \in AllocatorType
  /\ g_Allocator.bits \subseteq Indices(g_Allocator.Size)
  /\ g_Allocator.reserved \subseteq g_Allocator.bits
  /\ g_Allocator.pageBitmapIndex <= g_Allocator.Size * 8
  /\ held \subseteq Nat /\ returned \in Nat

\* The next-fit cursor never leaves a free page behind: every page below it is
\* taken, so that RequestPage (which never turns back) returns NULL only when
\* nothing is free.  Freeing and unreserving must pull the cursor back.
NothingFreeBelowCursor ==
  \A i \in 0 .. g_Allocator.pageBitmapIndex - 1 : i \in g_Allocator.bits

\* The three byte counters agree with the bitmap through every mix of calls,
\* overlapping, repeated and out of range ones included: each bit is counted
\* once, in the category of the call that set it.  (freeMemory starts from the
\* size of the memory, not from the number of bits: see FreeRAMIsRequestable.)
CountersMatchBitmap ==
  LET a == g_Allocator IN
  /\ a.freeMemory = Wrapped((a.totalMemory + a.stray) - Cardinality(a.bits))
  /\ a.reservedMemory = Wrapped(Cardinality(a.reserved) - a.stray)
  /\ a.usedMemory = Wrapped(Cardinality(a.bits \ a.reserved))

\* Bits the bitmap has because it is made of whole bytes, for pages that do
\* not exist; nothing reserves them.
TailPages(m) == GetMemorySize(m) + 1 .. BitmapBytes(m) * 8 - 1

\* All RequestPage may ever return: conventional memory and the tail, without
\* the first MiB (so NULL is no page) and without the bitmap's own storage.
ServablePages(m) ==
  UsablePages(m) \cup (TailPages(m) \ (Run(0, LowPages) \cup BitmapPages(m)))

FreeBits(a) == Scanned(a.Size) \ a.bits

\* Whatever is free or held is memory the firmware called conventional, outside
\* the first MiB and outside the bitmap, or one of the (at most seven) pages of
\* the bitmap's unreserved tail; the bit of a held page stays set until it is
\* freed; and nothing is held before the map was read.
ServedPagesAreUsable ==
  IF ~Running THEN held = {}
  ELSE /\ g_Allocator.Size = BitmapBytes(mMap)
       /\ held \subseteq
            (Scanned(g_Allocator.Size) \cap g_Allocator.bits) \ g_Allocator.reserved
       /\ held \cup FreeBits(g_Allocator) \subseteq ServablePages(mMap)

\* The bitmap is the pool of PagePool: a request takes the lowest free page and
\* is refused only when no page is free, a page is not handed out twice
\* without a release in between, and the other calls never touch a held page.
Pool == INSTANCE PagePool WITH
  Pages <- Nat,
  free <- FreeBits(g_Allocator),
  held <- held,
  answer <- returned

ImplementsPool == Pool!PoolSpec

\* What the statistics screen prints as "Free RAM" (stat_logger.cpp) is the
\* memory of the pages that can still be requested.
FreeRAMIsRequestable ==
  Running => g_Allocator.freeMemory = Cardinality(FreeBits(g_Allocator))
=============================================================================
