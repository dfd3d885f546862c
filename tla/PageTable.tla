----------------------------- MODULE PageTable ------------------------------
(***************************************************************************)
(* The page table manager (memory_management/PageTableManager, paging and  *)
(* PageMapIndexer): a radix tree of four levels of tables, each a frame of *)
(* its own.  Addresses are page numbers.  Frames come from the page frame  *)
(* allocator, that is from the pool of PagePool: the lowest free one, or   *)
(* NULL (0) when none is left, which MapMemory takes for a frame.          *)
(***************************************************************************)
EXTENDS Integers, FiniteSets

CONSTANTS
  Entries,        \* Entries of a table (512 in the kernel).
  Root,           \* The frame the root table was put into.
  Frames,         \* The frames the allocator can serve after the root table.
  VirtualPages,   \* The pages callers map, unmap and move.
  PhysicalPages,  \* The physical pages callers name (memory and devices).
  MaxRun          \* Bound of the model: pages one identity mapping covers.

ASSUME PageTableAssumption ==
  /\ Entries \in Nat \ {0, 1}
  /\ Root \in Nat \ {0} /\ Frames \subseteq Nat \ {0, Root} /\ IsFiniteSet(Frames)
  /\ VirtualPages \subseteq 0 .. Entries * Entries * Entries * Entries - 1
  /\ PhysicalPages \subseteq Nat
  /\ MaxRun \in Nat

VARIABLES
  PML4,           \* The frame of the root table.
  mem,            \* The frames used as tables -> their contents.
  free,           \* The frames the allocator has left.
  refused,        \* History: requests for a table that were answered with NULL.
  run             \* The identity mapping in progress: pages ptr .. stop - 1 are left.

vars == <<PML4, mem, free, refused, run>>

-----------------------------------------------------------------------------
(* Tables.                                                                 *)

\* PageMapIndexer with the second shift forgotten.
IndexShiftLost(v, level) ==
  CASE level = 0 -> v % Entries
    [] level = 1 -> (v \div Entries) % Entries
    [] level = 2 -> (v \div Entries) % Entries
    [] level = 3 -> (v \div (Entries * Entries)) % Entries

\* PageMapIndexer: levels 3 (PDP_i) to 0 (P_i); higher bits are ignored.
Index(v, level) ==
  CASE level = 0 -> v % Entries
    [] level = 1 -> (v \div Entries) % Entries
    [] level = 2 -> (v \div (Entries * Entries)) % Entries
    [] level = 3 -> (v \div (Entries * Entries * Entries)) % Entries

Indexes == 0 .. Entries - 1

\* Of an entry's flags only Present is ever read.
Entry(frame) == [present |-> TRUE, address |-> frame]
Clear == [present |-> FALSE, address |-> 0]
ZeroTable == [i \in Indexes |-> Clear]

Lowest(S) == CHOOSE p \in S : \A q \in S : p <= q

RequestPage(S) == IF S = {} THEN 0 ELSE Lowest(S)

\* WithTable taking a frame the allocator goes on considering free.
TableNotTaken(tree, t, i) ==
  LET f == RequestPage(tree.free)
      cleared == [x \in DOMAIN tree.mem \cup {f} |->
                    IF x = f THEN ZeroTable ELSE tree.mem[x]]
  IN  IF tree.mem[t][i].present THEN tree
      ELSE [mem |-> [cleared EXCEPT ![t][i] = Entry(f)],
            free |-> tree.free,
            refused |-> IF f = 0 THEN tree.refused + 1 ELSE tree.refused]

\* A tree is [mem, free, refused].  Entry i of table t points to a table
\* afterwards: a fresh, cleared one if there was none.
WithTable(tree, t, i) ==
  LET f == RequestPage(tree.free)
      cleared == [x \in DOMAIN tree.mem \cup {f} |->
                    IF x = f THEN ZeroTable ELSE tree.mem[x]]
  IN  IF tree.mem[t][i].present THEN tree
      ELSE [mem |-> [cleared EXCEPT ![t][i] = Entry(f)],
            free |-> tree.free \ {f},
            refused |-> IF f = 0 THEN tree.refused + 1 ELSE tree.refused]

Child(tree, t, i) == tree.mem[t][i].address

Mapped(tree, v, p) ==
  LET tree1 == WithTable(tree, PML4, Index(v, 3))
      PDP   == Child(tree1, PML4, Index(v, 3))
      tree2 == WithTable(tree1, PDP, Index(v, 2))
      PD    == Child(tree2, PDP, Index(v, 2))
      tree3 == WithTable(tree2, PD, Index(v, 1))
      PT    == Child(tree3, PD, Index(v, 1))
  IN  [tree3 EXCEPT !.mem[PT][Index(v, 0)] = Entry(p)]

\* The table that holds the last entry for v, or -1 when a level is missing.
LeafTable(m, v) ==
  LET PDP == m[PML4][Index(v, 3)]
      PD  == m[PDP.address][Index(v, 2)]
      PT  == m[PD.address][Index(v, 1)]
  IN  IF PDP.present /\ PD.present /\ PT.present THEN PT.address ELSE -1

HasLeaf(m, v) == LeafTable(m, v) # -1
Leaf(m, v) == m[LeafTable(m, v)][Index(v, 0)]

\* WalkMemory does not look at Present in the last entry.
WalkMemory(m, v) == IF HasLeaf(m, v) THEN Leaf(m, v).address ELSE 0

\* UnmapMemory taking Present away instead of clearing the entry.
FlagCleared(m, v) ==
  IF HasLeaf(m, v) THEN [m EXCEPT ![LeafTable(m, v)][Index(v, 0)].present = FALSE] ELSE m

Unmapped(m, v) ==
  IF HasLeaf(m, v) THEN [m EXCEPT ![LeafTable(m, v)][Index(v, 0)] = Clear] ELSE m

-----------------------------------------------------------------------------
(* The operations.  A second table at NULL wipes the first one, and what   *)
(* the tables then say is not followed further.                            *)

NoRun == [first |-> 0, ptr |-> 0, stop |-> 0]

Ready == run = NoRun /\ refused < 2

Tree == [mem |-> mem, free |-> free, refused |-> refused]

Becomes(tree) == mem' = tree.mem /\ free' = tree.free /\ refused' = tree.refused

MapMemory(v, p) ==
  /\ Ready
  /\ Becomes(Mapped(Tree, v, p))
  /\ UNCHANGED <<PML4, run>>

\* CreateHeap and ExpandHeap map a page they have just requested.
MapRequested(v) ==
  /\ Ready /\ free # {}
  /\ Becomes(Mapped([Tree EXCEPT !.free = @ \ {RequestPage(free)}], v, RequestPage(free)))
  /\ UNCHANGED <<PML4, run>>

\* The sizes callers pass are rounded up to whole pages.
StartIdentityMap(v, pages) ==
  /\ Ready
  /\ run' = [first |-> v, ptr |-> v, stop |-> v + pages]
  /\ UNCHANGED <<PML4, mem, free, refused>>

\* The loop running to its last page but one.
IdentityMapStopsEarly ==
  /\ run.ptr < run.stop /\ refused < 2
  /\ IF run.ptr + 1 < run.stop
     THEN /\ Becomes(Mapped(Tree, run.ptr, run.ptr))
          /\ run' = [run EXCEPT !.ptr = @ + 1] /\ UNCHANGED PML4
     ELSE run' = [run EXCEPT !.ptr = run.stop] /\ UNCHANGED <<PML4, mem, free, refused>>

IdentityMapPage ==
  /\ run.ptr < run.stop /\ refused < 2
  /\ Becomes(Mapped(Tree, run.ptr, run.ptr))
  /\ run' = [run EXCEPT !.ptr = @ + 1]
  /\ UNCHANGED PML4

EndIdentityMap ==
  /\ run # NoRun /\ run.ptr = run.stop
  /\ run' = NoRun
  /\ UNCHANGED <<PML4, mem, free, refused>>

UnmapMemory(v) ==
  /\ Ready
  /\ mem' = Unmapped(mem, v)
  /\ UNCHANGED <<PML4, free, refused, run>>

RemapMemory(v, w) ==
  /\ Ready
  /\ WalkMemory(mem, v) # 0
  /\ Becomes(Mapped([Tree EXCEPT !.mem = Unmapped(@, v)], w, WalkMemory(mem, v)))
  /\ UNCHANGED <<PML4, run>>

Init ==
  /\ PML4 = Root /\ mem = [f \in {PML4} |-> ZeroTable]
  /\ free = Frames /\ refused = 0 /\ run = NoRun

Next ==
  \/ \E v \in VirtualPages, p \in PhysicalPages : MapMemory(v, p)
  \/ \E v \in VirtualPages : MapRequested(v) \/ UnmapMemory(v)
  \/ \E v \in PhysicalPages \cap VirtualPages, n \in 1 .. MaxRun :
       (v .. v + n - 1) \subseteq PhysicalPages \cap VirtualPages /\ StartIdentityMap(v, n)
  \/ IdentityMapPage \/ EndIdentityMap
  \/ \E v \in VirtualPages, w \in VirtualPages : RemapMemory(v, w)

Spec == Init /\ [][Next]_vars

-----------------------------------------------------------------------------
(* Properties.  They hold as long as at most one table was put at NULL:    *)
(* page 0 is reserved and serves as a table once (unless something else    *)
(* writes there, as Split in heap.cpp does).                               *)

Intact == refused <= 1

EntryType == [present : BOOLEAN, address : Nat]

\* Every variable stays in its type, and a cleared entry is all zero.
TypeOK ==
  /\ PML4 = Root /\ DOMAIN mem \subseteq Nat
  /\ \A t \in DOMAIN mem : mem[t] \in [Indexes -> EntryType]
  /\ \A t \in DOMAIN mem, i \in Indexes : mem[t][i].present \/ mem[t][i] = Clear
  /\ free \subseteq Frames
  /\ refused \in Nat
  /\ run \in [first : Nat, ptr : Nat, stop : Nat] /\ run.ptr <= run.stop

Children(tables) ==
  {mem[e[1]][e[2]].address :
     e \in {d \in (tables \cap DOMAIN mem) \X Indexes : mem[d[1]][d[2]].present}}

PDPs == Children({PML4})
PDs == Children(PDPs)
PTs == Children(PDs)

\* The entries that refer to tables: all but those of the last level.
TableEntries ==
  {e \in (({PML4} \cup PDPs \cup PDs) \cap DOMAIN mem) \X Indexes :
     mem[e[1]][e[2]].present}

\* The tables form a tree of four levels, whatever is mapped, unmapped and
\* moved: no frame serves as a table twice, at two levels or under two parents,
\* none is lost, and none is a frame the allocator may still hand out.
TablesAreATree ==
  Intact =>
    /\ DOMAIN mem = {PML4} \cup PDPs \cup PDs \cup PTs
    /\ Cardinality(TableEntries) = Cardinality(DOMAIN mem) - 1
    /\ (DOMAIN mem) \cap free = {}

AllPages == 0 .. Entries * Entries * Entries * Entries - 1

\* What the processor translates.
Mapping ==
  [v \in {x \in AllPages : HasLeaf(mem, x) /\ Leaf(mem, x).present} |->
     Leaf(mem, v).address]

\* WalkMemory, which does not look at Present in the last entry, finds exactly
\* what the processor would (RemapMemory moves what it finds), stale entries
\* of unmapped pages included.
WalkAgrees ==
  Intact =>
    \A v \in AllPages :
      WalkMemory(mem, v) = IF v \in DOMAIN Mapping THEN Mapping[v] ELSE 0

\* An identity mapping leaves out no page of its range, the first and the last
\* included, also when the tables it makes on the way end up at NULL.
IdentityRunComplete ==
  Intact => \A v \in run.first .. run.ptr - 1 : v \in DOMAIN Mapping /\ Mapping[v] = v

\* The tree of tables is a map from pages to pages: mapping, unmapping or moving
\* a page never changes what another page translates to, although they share
\* tables and the tables are made on demand.
Space == INSTANCE AddressSpace WITH
  VirtualPages <- AllPages,
  PhysicalPages <- Nat,
  mapping <- IF Intact THEN Mapping ELSE [v \in {} |-> 0],
  intact <- Intact

ImplementsAddressSpace == Space!SpaceSpec
=============================================================================
