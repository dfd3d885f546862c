----------------------------- MODULE BootMemory -----------------------------
(***************************************************************************)
(* How kernel initialisation brings up memory (PrepareMemory in            *)
(* utils/kernelUtil.cpp, CreateHeap in memory_management/heap.cpp): the    *)
(* page frame allocator of PageFrameAllocator and the page tables of       *)
(* PageTable at work together, on one machine's memory.  Addresses are     *)
(* page numbers.                                                           *)
(***************************************************************************)
EXTENDS Integers, Sequences, FiniteSets

CONSTANTS
  Machines,     \* Records of the memory map (mMap), and of the pages of the kernel
                \* and the framebuffer ([first, pages]).
  LowPages, PageBytes, CounterSpan,  \* As in PageFrameAllocator.
  Entries,      \* Entries of a page table.
  HeapStart,    \* The first virtual page of the heap.
  HeapPages     \* Pages CreateHeap maps (16).

ASSUME MachinesAssumption ==
  /\ \A m \in Machines :
       /\ m.mMap \in Seq([conventional : BOOLEAN, start : Nat, pages : Nat])
       /\ {m.kernel, m.framebuffer} \subseteq [first : Nat, pages : Nat]
  /\ LowPages \in Nat \ {0} /\ PageBytes \in Nat \ {0}
  /\ Entries \in Nat \ {0, 1} /\ HeapStart \in Nat /\ HeapPages \in Nat

VARIABLES
  machine,
  pc,           \* The step of the initialisation.
  g_Allocator, held, returned,  \* As in PageFrameAllocator.
  PML4, mem, refused,           \* As in PageTable.
  ptr,          \* The page an identity mapping, or the heap, is to map next.
  paging,       \* The processor translates with the kernel's tables.
  heapFrames    \* History: the frames of the heap.

vars == <<machine, pc, g_Allocator, held, returned, PML4, mem, refused, ptr, paging,
          heapFrames>>

Allocator == INSTANCE PageFrameAllocator WITH
  MemoryMaps <- {m.mMap : m \in Machines},
  MaxRun <- 1,
  mMap <- machine.mMap,
  Initialized <- pc # "ReadEFIMemoryMap",
  panicked <- pc = "Panic"

free == Allocator!Candidates(g_Allocator)

Tables == INSTANCE PageTable WITH
  Root <- 1, Frames <- {}, VirtualPages <- {}, PhysicalPages <- {}, MaxRun <- 0,
  run <- [first |-> 0, ptr |-> 0, stop |-> 0]

-----------------------------------------------------------------------------

Kernel == Allocator!Run(machine.kernel.first, machine.kernel.pages)
Framebuffer == Allocator!Run(machine.framebuffer.first, machine.framebuffer.pages)

MemorySize == Allocator!GetMemorySize(machine.mMap)
MapStart == machine.mMap[1].start

At(step, next) == pc = step /\ pc' = next

ReadEFIMemoryMap ==
  /\ At("ReadEFIMemoryMap", IF Allocator!Rejected(machine.mMap) THEN "Panic" ELSE "LockKernel")
  /\ UNCHANGED machine /\ Allocator!ReadEFIMemoryMap
  /\ UNCHANGED <<PML4, mem, refused, ptr, paging, heapFrames>>

\* One page more than the kernel has when its size is whole pages.
LockKernel ==
  /\ At("LockKernel", "RequestPML4")
  /\ UNCHANGED machine
  /\ Allocator!Lock(Kernel \cup {machine.kernel.first + machine.kernel.pages})
  /\ UNCHANGED <<PML4, mem, refused, ptr, paging, heapFrames>>

RequestPML4 ==
  /\ At("RequestPML4", IF free = {} THEN "Panic" ELSE "MapMemoryMap")
  /\ UNCHANGED machine
  /\ Allocator!PageFound \/ (free = {} /\ UNCHANGED <<g_Allocator, held, returned>>)
  /\ PML4' = IF free = {} THEN 0 ELSE returned'
  /\ mem' = [f \in {PML4'} |-> Tables!ZeroTable]
  /\ ptr' = MapStart
  /\ UNCHANGED <<refused, paging, heapFrames>>

\* The allocator after it served S and then refused (or not) a further request.
Served(S, refusedNow) ==
  /\ g_Allocator' =
       [Allocator!LockPages(g_Allocator, S) EXCEPT
          !.pageBitmapIndex = IF refusedNow THEN g_Allocator.Size * 8
                              ELSE IF S = {} THEN @
                              ELSE CHOOSE p \in S : \A q \in S : q <= p]
  /\ held' = held \cup S
  /\ UNCHANGED returned

\* MapMemory(v, p), with the frames own requested by the caller before.
MapMemory(v, p, own) ==
  LET tree == Tables!Mapped([mem |-> mem, free |-> free \ own, refused |-> refused], v, p)
  IN  /\ mem' = tree.mem /\ refused' = tree.refused
      /\ Served(free \ tree.free, tree.refused > refused)

\* IdentityMap with the last page left out.
IdentityMapButLast(step, next, stop) ==
  /\ pc = step /\ refused < 2
  /\ IF ptr + 1 < stop
     THEN /\ MapMemory(ptr, ptr, {})
          /\ ptr' = ptr + 1
          /\ UNCHANGED pc
     ELSE /\ pc' = next
          /\ UNCHANGED <<g_Allocator, held, returned, mem, refused, ptr>>
  /\ UNCHANGED <<machine, PML4, paging, heapFrames>>

\* IndentityMapMemory, a page in each step.  As in PageTable, what a second table
\* at NULL does to the first one is not followed further.
IdentityMap(step, next, stop) ==
  /\ pc = step /\ refused < 2
  /\ IF ptr < stop
     THEN /\ MapMemory(ptr, ptr, {})
          /\ ptr' = ptr + 1
          /\ UNCHANGED pc
     ELSE /\ pc' = next
          /\ UNCHANGED <<g_Allocator, held, returned, mem, refused, ptr>>
  /\ UNCHANGED <<machine, PML4, paging, heapFrames>>

\* As many pages as the descriptors add up to, from the first one on.
MapMemoryMap == IdentityMap("MapMemoryMap", "LockFramebuffer", MapStart + MemorySize)

\* fbSize is a page more than the buffer, and one more page is locked.
LockFramebuffer ==
  /\ At("LockFramebuffer", "MapFramebuffer")
  /\ UNCHANGED machine
  /\ Allocator!Lock(Allocator!Run(machine.framebuffer.first, machine.framebuffer.pages + 2))
  /\ ptr' = machine.framebuffer.first
  /\ UNCHANGED <<PML4, mem, refused, paging, heapFrames>>

MapFramebuffer ==
  IdentityMap("MapFramebuffer", "LoadCR3",
              machine.framebuffer.first + machine.framebuffer.pages + 1)

Identity(p) == Tables!HasLeaf(mem, p) /\ Tables!Leaf(mem, p) = Tables!Entry(p)

LoadCR3 ==
  /\ At("LoadCR3", IF \A p \in Kernel : Identity(p) THEN "CreateHeap" ELSE "PageFault")
  /\ paging' = TRUE /\ ptr' = HeapStart
  /\ UNCHANGED <<machine, g_Allocator, held, returned, PML4, mem, refused, heapFrames>>

Bitmap == Allocator!BitmapPages(machine.mMap)

\* The bitmap is read, and a new table cleared, at its own address, which the
\* processor translates now.
HeapPage ==
  LET f == Tables!RequestPage(free)
      tree == Tables!Mapped([mem |-> mem, free |-> free \ {f}, refused |-> refused], ptr, f)
  IN  /\ free # {}
      /\ MapMemory(ptr, f, {f})
      /\ pc' = IF \A t \in Bitmap \cup (DOMAIN tree.mem \ DOMAIN mem) : Identity(t)
               THEN "CreateHeap" ELSE "PageFault"
      /\ ptr' = ptr + 1
      /\ heapFrames' = heapFrames \cup {f}

HeapRefused ==
  /\ free = {} /\ pc' = "Panic"
  /\ UNCHANGED <<g_Allocator, held, returned, mem, refused, ptr, heapFrames>>

HeapCreated ==
  /\ pc' = "Done"
  /\ UNCHANGED <<g_Allocator, held, returned, mem, refused, ptr, heapFrames>>

CreateHeap ==
  /\ pc = "CreateHeap" /\ refused < 2
  /\ IF ptr < HeapStart + HeapPages THEN HeapPage \/ HeapRefused ELSE HeapCreated
  /\ UNCHANGED <<machine, PML4, paging>>

Init ==
  /\ machine \in Machines
  /\ pc = "ReadEFIMemoryMap"
  /\ g_Allocator = Allocator!NoAllocator /\ held = {} /\ returned = 0
  /\ PML4 = 0 /\ mem = [f \in {0} |-> Tables!ZeroTable] /\ refused = 0
  /\ ptr = 0 /\ paging = FALSE /\ heapFrames = {}

Next ==
  \/ ReadEFIMemoryMap \/ LockKernel \/ RequestPML4 \/ MapMemoryMap
  \/ LockFramebuffer \/ MapFramebuffer \/ LoadCR3 \/ CreateHeap

Spec == Init /\ [][Next]_vars

-----------------------------------------------------------------------------
(* Properties.                                                             *)

\* What the bootloader and the firmware guarantee: kernel and framebuffer are apart
\* and not in memory the map calls conventional; and what the allocator takes for
\* granted: the largest conventional part has room for the bitmap, and the
\* framebuffer is at none of the pages only the bitmap's last byte counts.
WellPlaced ==
  LET m == machine.mMap
  IN  /\ Kernel \cap Framebuffer = {}
      /\ (Kernel \cup Framebuffer) \cap Allocator!ConventionalPages(m) = {}
      /\ Bitmap \subseteq Allocator!ConventionalPages(m)
      /\ Framebuffer \cap Allocator!TailPages(m) = {}

InMemory == pc \notin {"ReadEFIMemoryMap", "LockKernel", "RequestPML4", "Panic"}

TableFrames == DOMAIN mem \ {0}

\* Everything initialisation places in memory is apart from everything else, and
\* from what can still be requested: the kernel, the allocator's bitmap, the page
\* tables, the framebuffer and the heap, although the tables of all memory are
\* requested before the framebuffer is locked.
NothingOverlaps ==
  InMemory /\ WellPlaced =>
    LET parts == <<Kernel, Bitmap, TableFrames, Framebuffer, heapFrames, free>>
    IN  \A i, j \in DOMAIN parts : i < j => parts[i] \cap parts[j] = {}

Ordered == \A i \in DOMAIN machine.mMap : MapStart <= machine.mMap[i].start

\* What is identity mapped: memory from the first descriptor on, and the framebuffer.
IdentityMapped ==
  Allocator!Run(MapStart, MemorySize)
    \cup Allocator!Run(machine.framebuffer.first, machine.framebuffer.pages + 1)

\* What the addresses chosen in the bootloader, in _start and by the firmware amount
\* to: memory begins low, with the kernel in it; the tables have an entry for all that
\* is mapped (2^36 pages in the kernel), and the heap's addresses are no memory.
Addressable ==
  LET heap == Allocator!Run(HeapStart, HeapPages)
  IN  /\ MapStart <= MemorySize /\ MapStart <= machine.kernel.first
      /\ IdentityMapped \cup heap \subseteq Tables!AllPages
      /\ IdentityMapped \cap heap = {}

\* With an ordered map and such addresses, everything the kernel reaches by its
\* physical address is in the identity map once the processor uses it: itself, the
\* bitmap, the tables, the framebuffer, and every frame handed out or left.  (But for
\* what is as far from the first descriptor as their sizes add up to: memory behind a
\* hole of the map, and the bits the bitmap has for no memory.  A page fault is the
\* end then.)
EverythingReachable ==
  paging /\ refused = 0 /\ Ordered /\ Addressable =>
    LET used == Kernel \cup Bitmap \cup TableFrames \cup held \cup free
    IN  /\ \A p \in {q \in used : q < MapStart + MemorySize} \cup Framebuffer : Identity(p)
        /\ (\A p \in used : p < MapStart + MemorySize) => pc # "PageFault"
=============================================================================
