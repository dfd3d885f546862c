--------------------------- MODULE Platform_proofs ---------------------------
(***************************************************************************)
(* That the bootloader hands over the machine's memory map and the kernel  *)
(* it read, for every machine, memory and chance value of MapSize, and     *)
(* that the kernel reads the firmware's tables as they are, for tables of  *)
(* any length; and that the timer runs as it was programmed and a sleep is *)
(* as long as it says, for every divisor, frequency and sleep.             *)
(***************************************************************************)
EXTENDS AcpiTables, Timer, TLAPS, FiniteSetTheorems

Segments == machine.kernel.segments

\* What of the kernel was loaded into pages allocated for it stays there.
Loaded ==
  /\ allocated \subseteq 1 .. Len(Segments)
  /\ \A i \in allocated :
       /\ Pages(Segments[i]) \subseteq used \cap Frames
       /\ \A f \in FilePages(Segments[i]) : content[f] = i

\* The buffer is filled with the map MapKey stands for, and the key accepted for the
\* map that was there.
KeyOfMap ==
  /\ pc \in LoaderSteps => ~exited
  /\ pc \in LoaderSteps \ {"FindRSDP", "ExitBootServices"} => ~Map.whole
  /\ Map.whole => Map.taken = MapKey
  /\ exited => MapKey = used

LoaderInv ==
  /\ machine \in Machines
  /\ phdr \in Nat \ {0}
  /\ content \in [Frames -> Nat]
  /\ Map = [room |-> Map.room, taken |-> Map.taken, whole |-> Map.whole]
  /\ Map.whole \in BOOLEAN
  /\ Loaded
  /\ KeyOfMap

LEMMA LoaderInitially == Init => LoaderInv
  BY DEF Init, LoaderInit, LoaderInv, Loaded, KeyOfMap, NoMap, Null, LoaderSteps

\* An allocation takes a free frame and writes no other.
LEMMA PoolKeepsKernel ==
  ASSUME LoaderInv, AllocatePool, UNCHANGED <<machine, allocated>>
  PROVE  content' \in [Frames -> Nat] /\ Loaded'
  <1>1. CASE UNCHANGED <<used, content>>
    BY <1>1 DEF LoaderInv, Loaded, Segments
  <1>2. ASSUME NEW f \in Frames \ used,
               used' = used \cup {f} /\ content' = [content EXCEPT ![f] = Null]
        PROVE  content' \in [Frames -> Nat] /\ Loaded'
    <2>1. content' \in [Frames -> Nat]
      BY <1>2 DEF LoaderInv, Null
    <2>2. ASSUME NEW i \in allocated
          PROVE  /\ Pages(Segments[i]) \subseteq used' \cap Frames
                 /\ \A g \in FilePages(Segments[i]) : content'[g] = i
      <3>1. /\ Pages(Segments[i]) \subseteq used \cap Frames
            /\ \A g \in FilePages(Segments[i]) : content[g] = i
        BY <2>2 DEF LoaderInv, Loaded
      <3>2. FilePages(Segments[i]) \subseteq Pages(Segments[i])
        BY <2>2, FileAssumption DEF LoaderInv, Loaded, Segments
      <3>. QED  BY <1>2, <3>1, <3>2 DEF LoaderInv
    <2>. QED  BY <2>1, <2>2 DEF LoaderInv, Loaded, Segments
  <1>. QED  BY <1>1, <1>2 DEF AllocatePool

LEMMA SegmentKeepsKernel ==
  ASSUME LoaderInv, LoadSegment
  PROVE  content' \in [Frames -> Nat] /\ Loaded'
  <1>. DEFINE s == Segments[phdr]
              granted == s.aligned /\ Pages(s) \subseteq Frames \ used
  <1>1. phdr \in 1 .. Len(Segments) /\ machine' = machine
    BY DEF LoaderInv, LoadSegment, kept, Segments
  <1>2. /\ used' = IF granted THEN used \cup Pages(s) ELSE used
        /\ allocated' = IF granted THEN allocated \cup {phdr} ELSE allocated
        /\ content' = [f \in Frames |-> IF f \in FilePages(s) THEN phdr ELSE content[f]]
    BY DEF LoadSegment, Segments
  <1>3. content' \in [Frames -> Nat]
    BY <1>2 DEF LoaderInv
  <1>4. \A i \in allocated : i # phdr => FilePages(Segments[i]) \cap FilePages(s) = {}
    BY <1>1, FileAssumption DEF LoaderInv, Loaded, Segments
  <1>5. ASSUME NEW i \in allocated'
        PROVE  /\ i \in 1 .. Len(Segments)
               /\ Pages(Segments[i]) \subseteq used' \cap Frames
               /\ \A f \in FilePages(Segments[i]) : content'[f] = i
    <2>1. FilePages(Segments[i]) \subseteq Pages(Segments[i])
      BY <1>1, <1>2, <1>5, FileAssumption DEF LoaderInv, Loaded, Segments
    <2>2. CASE i = phdr /\ granted
      BY <1>1, <1>2, <2>1, <2>2
    <2>3. CASE i \in allocated /\ i # phdr
      BY <1>2, <1>4, <2>1, <2>3 DEF LoaderInv, Loaded
    <2>4. CASE i \in allocated /\ i = phdr
      BY <1>1, <1>2, <2>1, <2>4 DEF LoaderInv, Loaded
    <2>. QED  BY <1>2, <1>5, <2>2, <2>3, <2>4
  <1>. QED  BY <1>1, <1>3, <1>5 DEF Loaded, Segments

LEMMA LoaderStep == LoaderInv /\ LoaderNext => LoaderInv'
  <1>. SUFFICES ASSUME LoaderInv, LoaderNext PROVE LoaderInv'
    OBVIOUS
  <1>. USE DEF At, kept, mapVars
  \* The steps that keep the map of memory and what was loaded.
  <1>1. ASSUME UNCHANGED <<kept, used, content, allocated, phdr>>
        PROVE  content' \in [Frames -> Nat] /\ Loaded' /\ machine' \in Machines /\ phdr' = phdr
    BY <1>1 DEF LoaderInv, Loaded, Segments
  <1>2. CASE LoadKernel
    BY <1>1, <1>2 DEF LoadKernel, LoaderInv, KeyOfMap, LoaderSteps
  <1>3. CASE ReadHeader
    BY <1>3, PoolKeepsKernel DEF ReadHeader, LoaderInv, KeyOfMap, LoaderSteps
  <1>4. CASE LoadSegment
    <2>1. content' \in [Frames -> Nat] /\ Loaded'
      BY <1>4, SegmentKeepsKernel
    <2>. QED  BY <1>4, <2>1 DEF LoadSegment, LoaderInv, KeyOfMap, LoaderSteps
  <1>5. CASE SegmentsLoaded
    BY <1>1, <1>5 DEF SegmentsLoaded, LoaderInv, KeyOfMap, LoaderSteps
  <1>6. CASE LoadPSF1Font
    <2>1. AllocatePool
      BY <1>6 DEF LoadPSF1Font, AllocatePool
    <2>. QED  BY <1>6, <2>1, PoolKeepsKernel DEF LoadPSF1Font, LoaderInv, KeyOfMap, LoaderSteps
  <1>7. CASE InitializeGOP
    BY <1>1, <1>7 DEF InitializeGOP, LoaderInv, KeyOfMap, LoaderSteps
  <1>8. CASE GetMapSize
    BY <1>1, <1>8 DEF GetMapSize, LoaderInv, KeyOfMap, LoaderSteps
  <1>9. CASE AllocateMap
    <2>1. AllocatePool
      BY <1>9 DEF AllocateMap, AllocatePool
    <2>2. content' \in [Frames -> Nat] /\ Loaded'
      BY <1>9, <2>1, PoolKeepsKernel DEF AllocateMap
    <2>3. /\ Map' = [room |-> Map'.room, taken |-> Map'.taken, whole |-> Map'.whole]
          /\ Map'.whole = FALSE
      BY <1>9 DEF AllocateMap, LoaderInv, KeyOfMap, NoMap, LoaderSteps
    <2>. QED  BY <1>9, <2>2, <2>3 DEF AllocateMap, LoaderInv, KeyOfMap, LoaderSteps
  <1>10. CASE GetMemoryMap
    <2>1. ~Map.whole /\ ~exited /\ exited' = exited
      BY <1>10 DEF GetMemoryMap, LoaderInv, KeyOfMap, LoaderSteps
    <2>2. /\ Map' = [room |-> Map'.room, taken |-> Map'.taken, whole |-> Map'.whole]
          /\ Map'.whole \in BOOLEAN
          /\ Map'.whole => Map'.taken = MapKey'
      BY <1>10, <2>1 DEF GetMemoryMap, LoaderInv
    <2>3. pc' \notin LoaderSteps \ {"FindRSDP", "ExitBootServices"}
      BY <1>10 DEF GetMemoryMap, LoaderSteps
    <2>. QED  BY <1>1, <1>10, <2>1, <2>2, <2>3 DEF GetMemoryMap, LoaderInv, KeyOfMap
  <1>11. CASE FindRSDP
    BY <1>11, PoolKeepsKernel DEF FindRSDP, LoaderInv, KeyOfMap, LoaderSteps
  <1>12. CASE ExitBootServices
    <2>1. content' \in [Frames -> Nat] /\ Loaded'
      BY <1>12 DEF ExitBootServices, LoaderInv, Loaded, Segments
    <2>2. pc' \notin LoaderSteps
      BY <1>12 DEF ExitBootServices, LoaderSteps
    <2>. QED  BY <1>12, <2>1, <2>2 DEF ExitBootServices, LoaderInv, KeyOfMap
  <1>. QED
    BY <1>2, <1>3, <1>4, <1>5, <1>6, <1>7, <1>8, <1>9, <1>10, <1>11, <1>12 DEF LoaderNext

-----------------------------------------------------------------------------

\* The kernel never returns to the loader.
LEMMA KernelStaysKernel ==
  Kernel \/ Shutdown \/ Reboot => pc' \notin LoaderSteps /\ UNCHANGED kernelKept
  BY DEF Kernel, PrepareACPI, InitFACP, MADTInit, MADTWalk, Store, MADTEnds, Shutdown, Reboot,
         At, LoaderSteps

LEMMA KernelKeepsLoaderInv ==
  ASSUME LoaderInv, pc' \notin LoaderSteps \/ pc' = pc, UNCHANGED kernelKept
  PROVE  LoaderInv'
  BY DEF LoaderInv, Loaded, KeyOfMap, Segments, kernelKept, mapVars

LEMMA LoaderInvariant == Spec => []LoaderInv
  <1>1. Init => LoaderInv
    BY LoaderInitially
  <1>2. LoaderInv /\ [Next]_vars => LoaderInv'
    <2>1. LoaderInv /\ Next => LoaderInv'
      BY LoaderStep, KernelStaysKernel, KernelKeepsLoaderInv DEF Next, Loader
    <2>2. LoaderInv /\ UNCHANGED vars => LoaderInv'
      BY KernelKeepsLoaderInv DEF vars, loaderVars, kernelKept, mapVars
    <2>. QED  BY <2>1, <2>2
  <1>. QED  BY <1>1, <1>2, PTL DEF Spec

\* The kernel started after an accepted ExitBootServices has the machine's own memory
\* map, and each segment allocated for it whole in memory that map reserves.
THEOREM HandedOverCorrect == Spec => []HandedOver
  <1>1. LoaderInv => HandedOver
    BY DEF LoaderInv, Loaded, KeyOfMap, HandedOver, Segments
  <1>. QED  BY <1>1, LoaderInvariant, PTL

-----------------------------------------------------------------------------
(* The records of a regular MADT before an offset, and what the walk that  *)
(* has come so far knows of them.                                          *)

Before(m, k, t) == {u \in OfType(m, k) : u < t}

Read(m, k, t, info) ==
  /\ info.num = Cardinality(Before(m, k, t))
  /\ info.records \in Seq({m.at[u] : u \in Offsets(m)}) /\ Len(info.records) = info.num
  /\ \A u \in Before(m, k, t) : info.records[Number(m, k, u)] = m.at[u]

Heard(m, t, address) ==
  LET overrides == Before(m, "override", t)
  IN  /\ overrides = {} => address = m.LocalApicAddress
      /\ overrides # {} => \E u \in overrides : \A v \in overrides : v <= u
      /\ \A u \in overrides : (\A v \in overrides : v <= u) => address = m.at[u].value

LEMMA OffsetsBound ==
  ASSUME NEW m, Regular(m), NEW k
  PROVE  /\ Extent(m) \in Nat /\ Offsets(m) \subseteq 0 .. Extent(m) - 1
         /\ OfType(m, k) \subseteq Offsets(m) /\ IsFiniteSet(OfType(m, k))
         /\ Cardinality(OfType(m, k)) \in Nat
  <1>1. Extent(m) \in Nat
    BY AcpiAssumption DEF Regular
  <1>2. Offsets(m) \subseteq 0 .. Extent(m) - 1 /\ OfType(m, k) \subseteq Offsets(m)
    BY DEF Offsets, OfType
  <1>3. IsFiniteSet(OfType(m, k))
    <2>1. IsFiniteSet(0 .. Extent(m) - 1)
      BY <1>1, FS_Interval
    <2>. QED  BY <1>2, <2>1, FS_Subset
  <1>. QED  BY <1>1, <1>2, <1>3, FS_CardinalityType

\* No record begins between a record's start and its end.
LEMMA NextOffset ==
  ASSUME NEW m, Regular(m), NEW t \in Offsets(m)
  PROVE  /\ t \in Nat /\ t < Extent(m) /\ EndOf(m, t) \in Nat
         /\ EndOf(m, t) \in Offsets(m) \cup {Extent(m)}
         /\ \A u \in Offsets(m) : u < EndOf(m, t) <=> u < t \/ u = t
  <1>1. Extent(m) \in Nat /\ t \in 0 .. Extent(m) - 1
    BY OffsetsBound
  <1>2. EndOf(m, t) \in Nat /\ t < EndOf(m, t) /\ EndOf(m, t) \in Offsets(m) \cup {Extent(m)}
    BY <1>1 DEF Regular, EndOf
  <1>3. ASSUME NEW u \in Offsets(m) PROVE u < EndOf(m, t) <=> u < t \/ u = t
    <2>1. u \in Nat
      BY <1>1, OffsetsBound
    <2>2. t < u => EndOf(m, t) <= u
      BY DEF Regular
    <2>. QED  BY <1>1, <1>2, <2>1, <2>2
  <1>. QED  BY <1>1, <1>2, <1>3

LEMMA BeforeNext ==
  ASSUME NEW m, Regular(m), NEW t \in Offsets(m), NEW k
  PROVE  /\ t \notin Before(m, k, t)
         /\ m.at[t].type = k => Before(m, k, EndOf(m, t)) = Before(m, k, t) \cup {t}
         /\ m.at[t].type # k => Before(m, k, EndOf(m, t)) = Before(m, k, t)
  <1>1. \A u \in OfType(m, k) : u \in Offsets(m) /\ m.at[u].type = k
    BY DEF OfType
  <1>2. m.at[t].type = k => t \in OfType(m, k)
    BY DEF OfType
  <1>3. t \in Nat /\ \A u \in OfType(m, k) : u < EndOf(m, t) <=> u < t \/ u = t
    BY <1>1, NextOffset
  <1>4. t < EndOf(m, t)
    BY NextOffset
  <1>. QED  BY <1>1, <1>2, <1>3, <1>4 DEF Before

\* A record counts among those of its type that start no later.
LEMMA NumberOf ==
  ASSUME NEW m, Regular(m), NEW k, NEW t \in Nat, NEW u \in Before(m, k, t)
  PROVE  /\ IsFiniteSet(Before(m, k, t)) /\ Cardinality(Before(m, k, t)) \in Nat
         /\ Number(m, k, u) \in 1 .. Cardinality(Before(m, k, t))
  <1>. DEFINE upTo == {v \in OfType(m, k) : v <= u}
  <1>1. OfType(m, k) \subseteq Nat
    BY OffsetsBound
  <1>2. upTo \subseteq Before(m, k, t) /\ u \in upTo
    BY <1>1 DEF Before
  <1>3. IsFiniteSet(Before(m, k, t))
    BY OffsetsBound, FS_Subset DEF Before
  <1>4. IsFiniteSet(upTo) /\ Cardinality(upTo) <= Cardinality(Before(m, k, t))
    BY <1>2, <1>3, FS_Subset
  <1>5. Cardinality(upTo) \in Nat /\ Cardinality(Before(m, k, t)) \in Nat /\ Cardinality(upTo) # 0
    BY <1>2, <1>3, <1>4, FS_CardinalityType, FS_EmptySet
  <1>6. Number(m, k, u) = Cardinality(upTo)
    BY DEF Number
  <1>. QED  BY <1>3, <1>4, <1>5, <1>6

\* Reading a record of a type there is room for.
LEMMA ReadNext ==
  ASSUME NEW m, Regular(m), NEW t \in Offsets(m), NEW k \in Kinds, m.at[t].type = k,
         NEW info, Read(m, k, t, info),
         NEW next, next = [num |-> info.num + 1, records |-> Append(info.records, m.at[t])]
  PROVE  info.num < Room[k] /\ Read(m, k, EndOf(m, t), next)
  <1>. DEFINE before == Before(m, k, t)
              after == Before(m, k, EndOf(m, t))
  <1>1. t \in Nat /\ after = before \cup {t} /\ t \notin before
    BY BeforeNext, NextOffset
  <1>2. IsFiniteSet(before) /\ after \subseteq OfType(m, k)
    BY OffsetsBound, FS_Subset DEF Before
  <1>3. Cardinality(after) = Cardinality(before) + 1 /\ Cardinality(before) \in Nat
    BY <1>1, <1>2, FS_AddElement, FS_CardinalityType
  <1>4. info.num = Cardinality(before) /\ info.num < Room[k]
    <2>1. Cardinality(after) <= Cardinality(OfType(m, k))
      BY <1>2, OffsetsBound, FS_Subset
    <2>2. Cardinality(OfType(m, k)) <= Room[k] /\ Room[k] \in Nat
      BY AcpiAssumption DEF Regular
    <2>3. Cardinality(OfType(m, k)) \in Nat
      BY OffsetsBound
    <2>. QED  BY <1>3, <2>1, <2>2, <2>3 DEF Read
  <1>5. /\ info.records \in Seq({m.at[u] : u \in Offsets(m)}) /\ Len(info.records) = info.num
        /\ \A u \in before : info.records[Number(m, k, u)] = m.at[u]
    BY DEF Read
  <1>6. Number(m, k, t) = Cardinality(after)
    <2>1. {u \in OfType(m, k) : u <= t} = after
      <3>1. \A u \in OfType(m, k) : u \in Nat
        BY OffsetsBound
      <3>. QED  BY <1>1, <3>1 DEF Before, OfType
    <2>. QED  BY <2>1 DEF Number
  <1>7. next.num = info.num + 1 /\ next.records = Append(info.records, m.at[t])
    OBVIOUS
  <1>8. next.records \in Seq({m.at[u] : u \in Offsets(m)}) /\ Len(next.records) = next.num
    BY <1>5, <1>7
  <1>9. ASSUME NEW u \in after PROVE next.records[Number(m, k, u)] = m.at[u]
    <2>1. CASE u = t
      BY <1>3, <1>4, <1>5, <1>6, <1>7, <2>1
    <2>2. CASE u \in before
      <3>1. Number(m, k, u) \in 1 .. Len(info.records)
        BY <1>1, <1>4, <1>5, <2>2, NumberOf
      <3>. QED  BY <1>5, <1>7, <2>2, <3>1
    <2>. QED  BY <1>1, <2>1, <2>2
  <1>. QED  BY <1>3, <1>4, <1>7, <1>8, <1>9 DEF Read

\* A record of another type changes nothing for a type.
LEMMA ReadOther ==
  ASSUME NEW m, Regular(m), NEW t \in Offsets(m), NEW k, m.at[t].type # k,
         NEW info, Read(m, k, t, info)
  PROVE  Read(m, k, EndOf(m, t), info)
  BY BeforeNext DEF Read

LEMMA HeardNext ==
  ASSUME NEW m, Regular(m), NEW t \in Offsets(m), NEW address, Heard(m, t, address)
  PROVE  Heard(m, EndOf(m, t), IF m.at[t].type = "override" THEN m.at[t].value ELSE address)
  <1>1. CASE m.at[t].type = "override"
    <2>1. Before(m, "override", EndOf(m, t)) = Before(m, "override", t) \cup {t}
      BY <1>1, BeforeNext
    <2>2. t \in Nat /\ \A u \in Before(m, "override", t) : u \in Nat /\ u < t
      BY NextOffset, OffsetsBound DEF Before
    <2>. QED  BY <1>1, <2>1, <2>2 DEF Heard
  <1>2. CASE m.at[t].type # "override"
    BY <1>2, BeforeNext DEF Heard
  <1>. QED  BY <1>1, <1>2

-----------------------------------------------------------------------------
(* The tables the kernel reads.                                            *)

Unread == [k \in Kinds |-> [num |-> 0, records |-> <<>>]]

\* What a walk knows of the MADT at the place it has reached.
WalkedTo(m, t, info, address, pages) ==
  /\ DOMAIN info = Kinds /\ \A k \in Kinds : Read(m, k, t, info[k])
  /\ Heard(m, t, address)
  /\ {m.at[u].value : u \in Before(m, "ioapic", t)} \subseteq pages

MadtInv ==
  LET m == Table(madt.header)
  IN  /\ pc \in LoaderSteps \cup {"PrepareACPI", "InitFACP", "MADTInit"} => s_madt_info = Unread
      /\ pc = "MADTWalk" =>
           /\ madt = [header |-> madt.header, t |-> madt.t, local_apic_ptr |-> madt.local_apic_ptr]
           /\ Regular(m) =>
                /\ madt.t \in Offsets(m) \cup {Extent(m)}
                /\ WalkedTo(m, madt.t, s_madt_info, madt.local_apic_ptr, mapped)
      /\ pc \in {"Running", "Off"} /\ Regular(m) =>
           /\ WalkedTo(m, Extent(m), s_madt_info, madt.local_apic_ptr, mapped)
           /\ madt.local_apic_ptr \in mapped

NotEnded == LoaderSteps \cup {"PrepareACPI", "InitFACP", "MADTInit", "MADTWalk", "Running"}

\* What was written by the end, with the tables f and d.
Written(f, d) ==
  \/ f.reset_flag = 1 /\ ports = <<<<f.RESET_REG.Address, f.RESET_VALUE>>>>
  \/ Told(SleepWrites(f.PM1_CNT, d.SLP_TYP) \o Backup)
  \/ ~HasPackage(d) /\ Told(Backup)

\* What InitFACP keeps of the tables f and d.
Kept(f, d) ==
  /\ facp.SCI_EN # 0 => facp.PM1_CNT = f.PM1_CNT /\ facp.SLP_TYP = d.SLP_TYP
  /\ facp.reset_flag = 1 => f.reset_flag = 1
  /\ pc \in {"MADTInit", "MADTWalk", "Running"} /\ facp.SCI_EN = 0 => ~HasPackage(d)

FacpInv ==
  LET f == Table(facp.header)
      d == Table(f.DSDT)
  IN  /\ pc \in NotEnded => ports = <<>>
      /\ pc \in {"MADTInit", "MADTWalk", "Running"} => Kept(f, d)
      /\ ports # <<>> => Written(f, d)

TablesInv == MadtInv /\ FacpInv

LEMMA TablesInitially == Init => TablesInv
  BY DEF Init, LoaderInit, TablesInv, MadtInv, FacpInv, Unread, LoaderSteps

\* Steps that leave what was read alone and do not get to the walk.
LEMMA MadtKept ==
  ASSUME MadtInv, UNCHANGED <<machine, madt, s_madt_info, mapped>>,
         \/ pc' = pc
         \/ pc' \notin LoaderSteps \cup {"PrepareACPI", "InitFACP", "MADTInit", "MADTWalk", "Running", "Off"}
         \/ /\ pc \in LoaderSteps \cup {"PrepareACPI", "InitFACP"}
            /\ pc' \in LoaderSteps \cup {"PrepareACPI", "InitFACP", "MADTInit"}
         \/ pc = "Running" /\ pc' = "Off"
  PROVE  MadtInv'
  BY DEF MadtInv, Table, LoaderSteps

LEMMA FacpKept ==
  ASSUME FacpInv, UNCHANGED <<machine, facp, ports>>,
         \/ pc' = pc
         \/ /\ pc \in NotEnded
            /\ pc' \in {"MADTInit", "MADTWalk", "Running"} => pc \in {"MADTInit", "MADTWalk", "Running"}
  PROVE  FacpInv'
  BY DEF FacpInv, Table, Written, Kept, Told

LEMMA MADTInitReads ==
  ASSUME MadtInv, MADTInit
  PROVE  MadtInv'
  <1>. DEFINE h == FindXSDTTable(RootHeader, "APIC")
              m == Table(h)
  <1>. HIDE DEF h
  <1>1. /\ s_madt_info' = Unread /\ pc' = "MADTWalk" /\ machine' = machine
        /\ madt' = [header |-> h, t |-> 0, local_apic_ptr |-> m.LocalApicAddress]
    BY DEF MADTInit, At, MadtInv, kernelKept, h
  <1>2. ASSUME Regular(m)
        PROVE  /\ 0 \in Offsets(m) \cup {Extent(m)}
               /\ WalkedTo(m, 0, Unread, m.LocalApicAddress, mapped')
    <2>1. 0 \in Offsets(m) \cup {Extent(m)}
      BY <1>2 DEF Regular
    <2>2. \A k : Before(m, k, 0) = {}
      <3>. SUFFICES ASSUME NEW k, NEW u \in Before(m, k, 0) PROVE FALSE
        OBVIOUS
      <3>. QED  BY <1>2, OffsetsBound DEF Before
    <2>3. \A k \in Kinds : Read(m, k, 0, Unread[k])
      <3>. SUFFICES ASSUME NEW k \in Kinds PROVE Read(m, k, 0, Unread[k])
        OBVIOUS
      <3>1. Unread[k].num = 0 /\ Unread[k].records = <<>>
        BY DEF Unread
      <3>2. Cardinality(Before(m, k, 0)) = 0
        BY <2>2, FS_EmptySet
      <3>. QED  BY <2>2, <3>1, <3>2 DEF Read
    <2>4. Heard(m, 0, m.LocalApicAddress)
      BY <2>2 DEF Heard
    <2>5. DOMAIN Unread = Kinds
      BY DEF Unread
    <2>. QED  BY <2>1, <2>2, <2>3, <2>4, <2>5 DEF WalkedTo
  <1>. QED  BY <1>1, <1>2 DEF MadtInv, Table, LoaderSteps

LEMMA MADTWalkReads ==
  ASSUME MadtInv, MADTWalk
  PROVE  MadtInv'
  <1>. DEFINE m == Table(madt.header)
              t == madt.t
              record == m.at[t]
  <1>1. CASE pc' # "MADTWalk"
    <2>1. pc' \in {"Panic", "Corrupted"}
      BY <1>1 DEF MADTWalk, Store
    <2>. QED  BY <2>1 DEF MadtInv, LoaderSteps
  <1>2. CASE pc' = "MADTWalk"
    <2>1. /\ pc = "MADTWalk" /\ machine' = machine /\ t < WalkLength /\ t \in DOMAIN m.at
          /\ madt' = [madt EXCEPT
               !.t = @ + record.length,
               !.local_apic_ptr = IF record.type = "override" THEN record.value ELSE @]
          /\ mapped' = IF record.type = "ioapic" THEN mapped \cup {record.value} ELSE mapped
          /\ IF record.type \in Kinds
             THEN Store(record.type, record) ELSE s_madt_info' = s_madt_info
      BY <1>2 DEF MADTWalk, kernelKept
    <2>2. madt' = [header |-> madt.header, t |-> EndOf(m, t),
                   local_apic_ptr |-> IF record.type = "override" THEN record.value
                                      ELSE madt.local_apic_ptr]
      BY <2>1 DEF MadtInv, EndOf
    <2>3. ASSUME Regular(m)
          PROVE  /\ EndOf(m, t) \in Offsets(m) \cup {Extent(m)}
                 /\ WalkedTo(m, EndOf(m, t), s_madt_info', madt'.local_apic_ptr, mapped')
      <3>1. /\ t \in Offsets(m) \cup {Extent(m)}
            /\ WalkedTo(m, t, s_madt_info, madt.local_apic_ptr, mapped)
        BY <2>1, <2>3 DEF MadtInv
      <3>2. WalkLength = Extent(m)
        BY <2>3, AcpiAssumption DEF WalkLength, Regular, Extent
      <3>3. t \in Offsets(m)
        BY <2>1, <2>3, <3>1, <3>2, OffsetsBound
      <3>4. EndOf(m, t) \in Offsets(m) \cup {Extent(m)}
        BY <2>3, <3>3, NextOffset
      <3>5. /\ DOMAIN s_madt_info' = Kinds
            /\ \A k \in Kinds : Read(m, k, EndOf(m, t), s_madt_info'[k])
        <4>1. CASE record.type \notin Kinds
          BY <2>1, <2>3, <3>1, <3>3, <4>1, ReadOther DEF WalkedTo
        <4>2. CASE record.type \in Kinds
          <5>. DEFINE k == record.type
                      i == s_madt_info[k]
                      next == [num |-> i.num + 1, records |-> Append(i.records, record)]
          <5>1. Read(m, k, t, i)
            BY <3>1, <4>2 DEF WalkedTo
          <5>2. i.num < Room[k] /\ Read(m, k, EndOf(m, t), next)
            <6>. HIDE DEF i, k
            <6>. QED  BY <2>3, <3>3, <4>2, <5>1, ReadNext DEF k
          <5>7. i.num < Room[k]
            BY <5>2
          <5>3. i.num \in Nat /\ Room[k] \in Nat
            <6>1. IsFiniteSet(Before(m, k, t))
              BY <2>3, OffsetsBound, FS_Subset DEF Before
            <6>. QED  BY <4>2, <5>1, <6>1, AcpiAssumption, FS_CardinalityType DEF Read
          <5>4. s_madt_info' = [s_madt_info EXCEPT ![k] = next]
            <6>1. s_madt_info' = [s_madt_info EXCEPT ![k] =
                    [num |-> IF i.num > Room[k] THEN i.num ELSE i.num + 1,
                     records |-> IF i.num < Room[k] THEN Append(i.records, record)
                                 ELSE i.records]]
              BY <2>1, <4>2 DEF Store
            <6>2. \A a, b \in Nat : a < b => ~(a > b)
              OBVIOUS
            <6>. HIDE DEF i, k
            <6>3. ~(i.num > Room[k])
              BY <5>3, <5>7, <6>2
            <6>. QED  BY <5>7, <6>1, <6>3
          <5>. HIDE DEF next
          <5>5. DOMAIN s_madt_info' = Kinds /\ s_madt_info'[k] = next
            BY <3>1, <4>2, <5>4 DEF WalkedTo
          <5>6. ASSUME NEW kind \in Kinds, kind # k
                PROVE  Read(m, kind, EndOf(m, t), s_madt_info'[kind])
            <6>1. s_madt_info'[kind] = s_madt_info[kind] /\ Read(m, kind, t, s_madt_info[kind])
              BY <3>1, <5>4, <5>6 DEF WalkedTo
            <6>. QED  BY <2>3, <3>3, <5>6, <6>1, ReadOther
          <5>. QED  BY <5>2, <5>5, <5>6
        <4>. QED  BY <4>1, <4>2
      <3>6. Heard(m, EndOf(m, t), madt'.local_apic_ptr)
        <4>1. Heard(m, t, madt.local_apic_ptr)
          BY <3>1 DEF WalkedTo
        <4>2. Heard(m, EndOf(m, t),
                    IF record.type = "override" THEN record.value ELSE madt.local_apic_ptr)
          BY <2>3, <3>3, <4>1, HeardNext
        <4>. QED  BY <2>2, <4>2
      <3>7. {m.at[u].value : u \in Before(m, "ioapic", EndOf(m, t))} \subseteq mapped'
        <4>1. {m.at[u].value : u \in Before(m, "ioapic", t)} \subseteq mapped
          BY <3>1 DEF WalkedTo
        <4>2. /\ record.type = "ioapic" =>
                   Before(m, "ioapic", EndOf(m, t)) = Before(m, "ioapic", t) \cup {t}
              /\ record.type # "ioapic" =>
                   Before(m, "ioapic", EndOf(m, t)) = Before(m, "ioapic", t)
          BY <2>3, <3>3, BeforeNext
        <4>. QED  BY <2>1, <4>1, <4>2
      <3>. QED  BY <3>4, <3>5, <3>6, <3>7 DEF WalkedTo
    <2>4. madt'.header = madt.header /\ madt'.t = EndOf(m, t)
      BY <2>2
    <2>5. madt' = [header |-> madt'.header, t |-> madt'.t, local_apic_ptr |-> madt'.local_apic_ptr]
      BY <2>2
    <2>6. Table(madt.header)' = m
      BY <2>1, <2>4 DEF Table
    <2>. HIDE DEF m
    <2>. QED  BY <1>2, <2>3, <2>4, <2>5, <2>6 DEF MadtInv, LoaderSteps
  <1>. QED  BY <1>1, <1>2

LEMMA MADTEndsRead ==
  ASSUME MadtInv, MADTEnds
  PROVE  MadtInv'
  <1>. DEFINE m == Table(madt.header)
  <1>1. /\ pc = "MADTWalk" /\ pc' = "Running" /\ UNCHANGED <<machine, madt, s_madt_info>>
        /\ ~(madt.t < WalkLength) \/ madt.t >= WalkLength
        /\ mapped' = mapped \cup {madt.local_apic_ptr}
    BY DEF MADTEnds, At, kernelKept
  <1>2. ASSUME Regular(m)
        PROVE  WalkedTo(m, Extent(m), s_madt_info, madt.local_apic_ptr, mapped')
    <2>1. /\ madt.t \in Offsets(m) \cup {Extent(m)}
          /\ WalkedTo(m, madt.t, s_madt_info, madt.local_apic_ptr, mapped)
      BY <1>1, <1>2 DEF MadtInv
    <2>2. WalkLength = Extent(m) /\ Extent(m) \in Nat
      BY <1>2, AcpiAssumption DEF WalkLength, Regular, Extent
    <2>3. madt.t = Extent(m)
      BY <1>1, <1>2, <2>1, <2>2, OffsetsBound
    <2>. QED  BY <1>1, <2>1, <2>3 DEF WalkedTo
  <1>. QED  BY <1>1, <1>2 DEF MadtInv, Table, LoaderSteps

LEMMA InitFACPReads ==
  ASSUME FacpInv, InitFACP
  PROVE  FacpInv'
  <1>. DEFINE FirstFACP == FindXSDTTable(RootHeader, "FACP")
  <1>0. PICK h, f, d : h = FirstFACP /\ f = Table(h) /\ d = Table(f.DSDT)
    OBVIOUS
  <1>. DEFINE lost == ~Readable(f.DSDT) \/ d.signature # "DSDT" \/ ~SearchEnds(d) \/ ~S5Found(d)
  <1>1. /\ machine' = machine /\ ports' = <<>>
        /\ pc' = "MADTInit" => Readable(f.DSDT) /\ (d.signature = "DSDT" => SearchEnds(d))
        /\ facp' = IF lost THEN [NoFACP EXCEPT !.header = h] ELSE Parsed(h, f, d)
        /\ pc' \in {"MADTInit", "Panic"}
    BY <1>0 DEF InitFACP, kernelKept, FacpInv, At, NotEnded
  <1>2. HasPackage(d) => S5Found(d)
    BY DEF HasPackage, S5Found
  <1>3. facp'.header = h /\ Kept(f, d)'
    <2>1. CASE lost
      <3>1. facp'.header = h /\ facp'.SCI_EN = 0 /\ facp'.reset_flag = 0
        BY <1>1, <2>1 DEF NoFACP
      <3>2. pc' = "MADTInit" => ~HasPackage(d)
        BY <1>1, <1>2, <2>1 DEF HasPackage
      <3>. QED  BY <1>1, <3>1, <3>2 DEF Kept
    <2>2. CASE ~lost
      <3>1. facp' = Parsed(h, f, d)
        BY <1>1, <2>2
      <3>2. /\ facp'.header = h /\ facp'.reset_flag = f.reset_flag
            /\ d.aml => /\ facp'.SCI_EN = 1 /\ facp'.SLP_TYP = d.SLP_TYP
                        /\ facp'.PM1_CNT = f.PM1_CNT
            /\ ~d.aml => facp'.SCI_EN = 0
        BY <3>1 DEF Parsed, NoFACP
      <3>3. ~d.aml => ~HasPackage(d)
        BY DEF HasPackage
      <3>. QED  BY <1>1, <3>2, <3>3 DEF Kept
    <2>. QED  BY <2>1, <2>2
  <1>4. f = Table(facp.header)' /\ d = Table(f.DSDT)'
    BY <1>0, <1>1, <1>3 DEF Table
  <1>. QED  BY <1>1, <1>3, <1>4 DEF FacpInv

\* Shutdown writes what was kept of the tables.
LEMMA ShutdownTells ==
  ASSUME FacpInv, Shutdown
  PROVE  FacpInv'
  <1>1. PICK f, d : f = Table(facp.header) /\ d = Table(f.DSDT)
    OBVIOUS
  <1>2. PICK writes : writes = ShutdownWrites
    OBVIOUS
  <1>3. /\ UNCHANGED <<machine, facp>> /\ pc' \notin NotEnded
        /\ \E n \in 1 .. Len(writes) :
             ports' = SubSeq(writes, 1, n) /\ (pc' # "Off" => n = Len(writes))
    BY <1>2 DEF Shutdown, kernelKept, NotEnded, LoaderSteps
  <1>4. Kept(f, d)
    BY <1>1 DEF FacpInv, Shutdown
  <1>5. \/ writes = SleepWrites(f.PM1_CNT, d.SLP_TYP) \o Backup
        \/ ~HasPackage(d) /\ writes = <<>> \o Backup
    BY <1>2, <1>4 DEF Kept, ShutdownWrites, Shutdown
  <1>6. <<>> \o Backup = Backup
    BY DEF Backup
  <1>7. Told(writes)'
    BY <1>3 DEF Told
  <1>8. \/ Told(SleepWrites(f.PM1_CNT, d.SLP_TYP) \o Backup)'
        \/ ~HasPackage(d) /\ Told(Backup)'
    BY <1>5, <1>6, <1>7
  <1>9. f = Table(facp.header)' /\ d = Table(f.DSDT)'
    BY <1>1, <1>3 DEF Table
  <1>. QED  BY <1>3, <1>8, <1>9 DEF FacpInv, Written, NotEnded

LEMMA RebootWrites ==
  ASSUME FacpInv, Reboot
  PROVE  FacpInv'
  <1>1. /\ UNCHANGED <<machine, facp>> /\ pc' \notin NotEnded /\ pc = "Running"
        /\ ports' # <<>> =>
             /\ facp.reset_flag = 1
             /\ ports' = <<<<Table(facp.header).RESET_REG.Address, Table(facp.header).RESET_VALUE>>>>
    BY DEF Reboot, kernelKept, NotEnded, LoaderSteps
  <1>2. facp.reset_flag = 1 => Table(facp.header).reset_flag = 1
    BY <1>1 DEF FacpInv, Kept
  <1>. QED  BY <1>1, <1>2 DEF FacpInv, Written, Table, NotEnded

LEMMA TablesStep == TablesInv /\ [Next]_vars => TablesInv'
  <1>. SUFFICES ASSUME TablesInv, [Next]_vars PROVE TablesInv'
    OBVIOUS
  <1>. USE DEF At, kernelKept, kept, TablesInv
  <1>1. CASE Loader
    <2>1. UNCHANGED <<machine, madt, s_madt_info, mapped, facp, ports>>
      BY <1>1 DEF Loader, LoaderNext, LoadKernel, ReadHeader, LoadSegment, SegmentsLoaded,
                  LoadPSF1Font, InitializeGOP, GetMapSize, AllocateMap, GetMemoryMap, FindRSDP,
                  ExitBootServices, acpiVars
    <2>2. /\ pc \in LoaderSteps
          /\ pc' \in LoaderSteps \cup {"PrepareACPI", "EFI_LOAD_ERROR", "EFI_COMPROMISED_DATA", "Crashed"}
      BY <1>1 DEF Loader, LoaderNext, LoadKernel, ReadHeader, LoadSegment, SegmentsLoaded,
                  LoadPSF1Font, InitializeGOP, GetMapSize, AllocateMap, GetMemoryMap, FindRSDP,
                  ExitBootServices, LoaderSteps
    <2>3. {"EFI_LOAD_ERROR", "EFI_COMPROMISED_DATA", "Crashed"} \cap
            (LoaderSteps \cup {"PrepareACPI", "InitFACP", "MADTInit", "MADTWalk", "Running", "Off"}) = {}
      BY DEF LoaderSteps
    <2>4. MadtInv'
      BY <2>1, <2>2, <2>3, MadtKept
    <2>5. FacpInv'
      BY <2>1, <2>2, FacpKept DEF NotEnded, LoaderSteps
    <2>. QED  BY <2>4, <2>5
  <1>2. CASE PrepareACPI
    BY <1>2, MadtKept, FacpKept DEF PrepareACPI, acpiVars, LoaderSteps, NotEnded
  <1>3. CASE InitFACP
    <2>1. MadtInv'
      BY <1>3, MadtKept DEF InitFACP, LoaderSteps, NotEnded
    <2>. QED  BY <1>3, <2>1, InitFACPReads
  <1>4. CASE MADTInit
    BY <1>4, MADTInitReads, FacpKept DEF MADTInit, LoaderSteps, NotEnded
  <1>5. CASE MADTWalk
    BY <1>5, MADTWalkReads, FacpKept DEF MADTWalk, Store, LoaderSteps, NotEnded
  <1>6. CASE MADTEnds
    BY <1>6, MADTEndsRead, FacpKept DEF MADTEnds, LoaderSteps, NotEnded
  <1>7. CASE Shutdown
    <2>1. MadtInv'
      BY <1>7, MadtKept DEF Shutdown, LoaderSteps
    <2>. QED  BY <1>7, <2>1, ShutdownTells
  <1>8. CASE Reboot
    <2>1. MadtInv'
      BY <1>8, MadtKept DEF Reboot, LoaderSteps
    <2>. QED  BY <1>8, <2>1, RebootWrites
  <1>9. CASE UNCHANGED vars
    BY <1>9, MadtKept, FacpKept DEF vars, loaderVars, acpiVars
  <1>. QED  BY <1>1, <1>2, <1>3, <1>4, <1>5, <1>6, <1>7, <1>8, <1>9 DEF Next, Kernel

\* At the end of the walk all its records are before it.
LEMMA WholeWalk ==
  ASSUME NEW m, Regular(m), NEW info, NEW address, NEW pages,
         WalkedTo(m, Extent(m), info, address, pages), address \in pages
  PROVE  /\ \A k \in Kinds :
              /\ info[k].num = Cardinality(OfType(m, k)) /\ Len(info[k].records) = info[k].num
              /\ \A t \in OfType(m, k) : info[k].records[Number(m, k, t)] = m.at[t]
         /\ address = LocalAPIC(m)
         /\ {LocalAPIC(m)} \cup {m.at[t].value : t \in OfType(m, "ioapic")} \subseteq pages
  <1>1. \A k : Before(m, k, Extent(m)) = OfType(m, k)
    <2>. SUFFICES ASSUME NEW k PROVE Before(m, k, Extent(m)) = OfType(m, k)
      OBVIOUS
    <2>1. \A u \in OfType(m, k) : u < Extent(m)
      BY OffsetsBound
    <2>. QED  BY <2>1 DEF Before
  <1>2. address = LocalAPIC(m)
    <2>. DEFINE overrides == OfType(m, "override")
    <2>1. /\ overrides = {} => address = m.LocalApicAddress
          /\ overrides # {} => \E u \in overrides : \A v \in overrides : v <= u
          /\ \A u \in overrides : (\A v \in overrides : v <= u) => address = m.at[u].value
      BY <1>1 DEF WalkedTo, Heard
    <2>2. CASE overrides = {}
      BY <2>1, <2>2 DEF LocalAPIC
    <2>3. CASE overrides # {}
      <3>1. overrides \subseteq Nat
        BY OffsetsBound
      <3>2. \E u \in overrides : \A v \in overrides : u >= v
        BY <2>1, <2>3, <3>1
      <3>3. Max(overrides) \in overrides /\ \A v \in overrides : Max(overrides) >= v
        BY <3>2 DEF Max
      <3>4. \A v \in overrides : v <= Max(overrides)
        BY <3>1, <3>3
      <3>. QED  BY <2>1, <2>3, <3>3, <3>4 DEF LocalAPIC
    <2>. QED  BY <2>2, <2>3
  <1>3. \A k \in Kinds : Read(m, k, Extent(m), info[k])
    BY DEF WalkedTo
  <1>4. {m.at[t].value : t \in OfType(m, "ioapic")} \subseteq pages
    BY <1>1 DEF WalkedTo
  <1>. QED  BY <1>1, <1>2, <1>3, <1>4 DEF Read

\* Whatever tables the firmware put where: once the kernel runs, all records of a
\* regular MADT, of any length, are known in their order, the last word on the local
\* APIC's address too; restarting writes the reset register of the FACP, shutting down
\* the control registers and sleep types of FACP and DSDT and then the three ports of
\* virtual machines, these alone only for a DSDT without a package in its own bytes.
THEOREM TablesReadCorrect == Spec => []TablesRead
  <1>1. TablesInv => TablesRead
    <2>. SUFFICES ASSUME TablesInv PROVE TablesRead
      OBVIOUS
    <2>. DEFINE m == Table(madt.header)
    <2>1. ASSUME pc \in {"Running", "Off"}, Regular(m)
          PROVE  /\ \A k \in Kinds :
                      LET read == s_madt_info[k]
                      IN  /\ read.num = Cardinality(OfType(m, k)) /\ Len(read.records) = read.num
                          /\ \A t \in OfType(m, k) : read.records[Number(m, k, t)] = m.at[t]
                 /\ madt.local_apic_ptr = LocalAPIC(m)
                 /\ {LocalAPIC(m)} \cup {m.at[t].value : t \in OfType(m, "ioapic")} \subseteq mapped
      BY <2>1, WholeWalk DEF TablesInv, MadtInv
    <2>. QED  BY <2>1 DEF TablesInv, FacpInv, Written, TablesRead
  <1>. QED  BY <1>1, TablesInitially, TablesStep, PTL DEF Spec

-----------------------------------------------------------------------------
(* The timer.                                                              *)

InHandler == cpu.pc \in {"Tick", "EndMaster", "Iret"}

Away == InHandler \/ cpu.pc = "Input"

\* Where the processor is, or returns to from a handler.
Place == IF Away THEN cpu.back ELSE cpu.pc
Setting == Place \in {"LowByte", "HighByte"}

CpuTypes ==
  /\ cpu \in [pc : {"Idle", "LowByte", "HighByte", "Test", "Halt", "Halted", "Panic",
                    "Tick", "EndMaster", "Iret", "Input"},
              back : {"Idle", "LowByte", "HighByte", "Test", "Halt"}, arg : Nat]
  /\ ~Away => cpu.back = NoCall
  /\ pic \in [irr : BOOLEAN, isr : BOOLEAN]
  /\ pic.isr <=> cpu.pc \in {"Tick", "EndMaster"}
  /\ ran \in BOOLEAN

PitTypes ==
  /\ pit \in [count : Nat \ {0}, period : Nat \ {0}, reload : Nat \ {0}, low : Nat,
              program : {"none", "written", "running"}]
  /\ pit.count <= pit.period

\* What was written for the divisor the software counts with, byte by byte.
Programmed ==
  /\ Divisor \in 1 .. BaseFrequency
  /\ asked \in Nat
  /\ asked > 0 => asked \in Frequencies /\ Divisor = Clamp(DivisorFor(asked))
  /\ Setting => cpu.arg = Divisor /\ Divisor <= MaxDivisor
  /\ Place = "HighByte" => pit.low = cpu.arg % Byte
  /\ ~Setting /\ pit.program # "none" => pit.reload = Divisor
  /\ ~Setting /\ pit.program = "running" => pit.period = Divisor

ProgrammedInv == CpuTypes /\ PitTypes /\ Programmed

\* The handlers of the inputs return before they have taken all their steps.
InputInv == input \in 0 .. InputSteps /\ (cpu.pc = "Input" => input >= 1)

One(b) == IF b THEN 1 ELSE 0

\* The requests of the period in progress and of those before, in a sleep that has
\* seen k ticks, and the clocks since the last of them.
Requests(k) == k + One(pic.irr) + One(cpu.pc = "Tick")
Into == pit.period - pit.count

\* The clocks in which the handler gets where it is, but for those of the inputs.
Due ==
  IF cpu.pc = "Tick" THEN 1 ELSE IF cpu.pc = "EndMaster" THEN 2 ELSE IF cpu.pc = "Iret" THEN 3
  ELSE IF pic.irr THEN 0 ELSE 4

Prompt == Into + One(ran) <= Due + (InputSteps - input)

\* In the sleep that lasts, the handler has counted k ticks and e clocks went by.
SleptFor(k, e) ==
  /\ TimeSinceBoot = UpToMaxUnits(k * Weight(pit.period))
  /\ elapsed = UpToMaxTime(e)
  /\ Requests(k) >= 1 => e >= (Requests(k) - 1) * pit.period + 1 + Into

\* In a period that leaves time for the handler no request is lost, and none is late.
InTime(k, e) ==
  LET n == TicksFor(cpu.arg + Rounding, pit.period)
  IN  /\ e <= Requests(k) * pit.period + Into
      /\ InHandler => ~pic.irr
      /\ InHandler \/ pic.irr => Prompt
      /\ Place = "Test" => Requests(k) <= n \/ (Requests(k) = n + 1 /\ Prompt)
      /\ Place = "Halt" => Requests(k) <= n - 1 \/ (Requests(k) = n /\ Prompt)
      /\ Place = "Halted" => Requests(k) <= n \/ (Requests(k) = n + 1 /\ pic.irr)

Slept(k, e) == SleptFor(k, e) /\ (pit.period > Latency => InTime(k, e))

SleepInv ==
  /\ settled \in BOOLEAN
  /\ ~Sleeping => TimeSinceBoot = 0 /\ elapsed = 0 /\ ~settled
  /\ Sleeping => cpu.arg \in 0 .. MaxUnits - Rounding
  /\ settled => pit.program = "running" /\ \E k, e \in Nat : Slept(k, e)

-----------------------------------------------------------------------------

(* How the timer's numbers are related.                                    *)

LEMMA DivBounds ==
  ASSUME NEW n \in Nat, NEW d \in Nat \ {0}
  PROVE  n \div d \in Nat /\ (n \div d) * d <= n /\ n < (n \div d) * d + d
  <1>. DEFINE q == n \div d
              r == n % d
  <1>1. q \in Int /\ r \in 0 .. d - 1 /\ n = d * q + r
    OBVIOUS
  <1>. HIDE DEF q, r
  <1>2. q >= 0
    <2>1. CASE q <= 0 - 1
      <3>1. d * q <= d * (0 - 1)
        BY <1>1, <2>1
      <3>. QED  BY <1>1, <3>1
    <2>. QED  BY <1>1, <2>1
  <1>3. q * d <= n /\ n < q * d + d
    BY <1>1, <1>2
  <1>. QED  BY <1>1, <1>2, <1>3 DEF q

\* Of two products with one factor, the smaller has the smaller other factor.
LEMMA FactorLess ==
  ASSUME NEW x \in Int, NEW y \in Int, NEW d \in Nat \ {0}, x * d < y * d
  PROVE  x < y
  <1>1. CASE y <= x
    <2>1. PICK z \in Nat : x = y + z
      <3>1. x - y \in Nat
        BY <1>1
      <3>. QED  BY <3>1
    <2>2. x * d = y * d + z * d /\ z * d >= 0
      BY <2>1
    <2>. QED  BY <2>2
  <1>. QED  BY <1>1

LEMMA ProductLess ==
  ASSUME NEW x \in Nat, NEW y \in Nat, NEW d \in Nat, x <= y
  PROVE  x * d <= y * d /\ x * d \in Nat /\ y * d \in Nat
  OBVIOUS

\* A tick counts as much as its period, or more.
LEMMA WeightIs ==
  ASSUME NEW p \in 1 .. BaseFrequency
  PROVE  /\ GetFrequencyOf(p) \in Nat \ {0} /\ Weight(p) \in Nat \ {0}
         /\ p * Unit <= Weight(p) /\ p * Unit \in Nat
  <1>1. PICK f \in Nat :
          f = GetFrequencyOf(p) /\ f * p <= BaseFrequency /\ BaseFrequency < f * p + p
    BY DivBounds, TimerAssumption DEF GetFrequencyOf
  <1>2. f >= 1
    <2>1. CASE f = 0
      <3>1. BaseFrequency \in Nat /\ 0 * p = 0
        BY TimerAssumption
      <3>. QED  BY <1>1, <2>1, <3>1
    <2>. QED  BY <1>1, <2>1
  <1>3. PICK units \in Nat, q \in Nat \ {0} : units = BaseFrequency * Unit /\ q = p * Unit
    BY TimerAssumption
  <1>4. q * f <= units
    <2>1. PICK x \in Nat : x = f * p
      BY <1>1
    <2>2. x * Unit <= BaseFrequency * Unit
      BY <1>1, <2>1, ProductLess, TimerAssumption
    <2>3. q * f = x * Unit
      BY <1>1, <1>3, <2>1, TimerAssumption
    <2>. QED  BY <1>3, <2>2, <2>3
  <1>5. PICK w \in Nat : w = Weight(p) /\ units < w * f + f
    <2>1. f \in Nat \ {0}
      BY <1>1, <1>2
    <2>2. Weight(p) = units \div f
      BY <1>1, <1>3 DEF Weight
    <2>. QED  BY <2>1, <2>2, DivBounds
  <1>6. q * f < (w + 1) * f
    BY <1>3, <1>4, <1>5
  <1>7. q < w + 1
    BY <1>1, <1>2, <1>3, <1>5, <1>6, FactorLess
  <1>. QED  BY <1>1, <1>2, <1>3, <1>5, <1>7

\* A sleep is over with the tick that makes the time long enough, not before.
LEMMA TicksAre ==
  ASSUME NEW a \in Int, NEW p, NEW w \in Nat \ {0}, w = Weight(p), NEW k \in Nat
  PROVE  /\ TicksFor(a, p) \in Nat
         /\ k * w \in Nat
         /\ k * w < a <=> k < TicksFor(a, p)
  <1>1. CASE a <= 0
    <2>1. TicksFor(a, p) = 0
      BY <1>1 DEF TicksFor
    <2>2. k * w \in Nat
      OBVIOUS
    <2>. QED  BY <1>1, <2>1, <2>2
  <1>2. CASE a > 0
    <2>1. PICK n \in Nat : n = TicksFor(a, p) /\ n * w <= a + w - 1 /\ a + w - 1 < n * w + w
      <3>1. a + w - 1 \in Nat /\ ~(a <= 0)
        BY <1>2
      <3>2. TicksFor(a, p) = (a + w - 1) \div w
        BY <3>1 DEF TicksFor
      <3>. QED  BY <3>1, <3>2, DivBounds
    <2>2. CASE k < n
      <3>1. (k + 1) * w <= n * w /\ (k + 1) * w = k * w + w
        BY <2>2, ProductLess
      <3>. QED  BY <2>1, <2>2, <3>1
    <2>3. CASE n <= k
      <3>1. n * w <= k * w
        BY <2>3, ProductLess
      <3>. QED  BY <2>1, <2>3, <3>1
    <2>. QED  BY <2>1, <2>2, <2>3
  <1>. QED  BY <1>1, <1>2

LEMMA ClampIs ==
  ASSUME NEW d \in Nat
  PROVE  Clamp(d) \in 1 .. MaxDivisor /\ Clamp(d) \in 1 .. BaseFrequency
  <1>1. d % Word \in Nat
    BY TimerAssumption
  <1>. QED  BY <1>1, TimerAssumption DEF Clamp

\* The divisor of a frequency is the largest that reaches it.
LEMMA FrequencyReached ==
  ASSUME NEW f \in Frequencies, f > 0,
         NEW D, D = Clamp(DivisorFor(f))
  PROVE  /\ DivisorFor(f) \in Nat
         /\ GetFrequencyOf(D) >= IF f > BaseFrequency THEN BaseFrequency ELSE f
         /\ D = MaxDivisor \/ GetFrequencyOf(D + 1) < f
  <1>. DEFINE a == IF f > BaseFrequency THEN BaseFrequency ELSE f
              d == DivisorFor(f)
  <1>1. f \in Nat \ {0} /\ BaseFrequency \in Nat \ {0}
    BY TimerAssumption
  <1>2. a \in 1 .. BaseFrequency /\ a <= f
    BY <1>1
  <1>3. d \in Nat /\ d * a <= BaseFrequency /\ BaseFrequency < d * a + a
    BY <1>1, <1>2, DivBounds DEF DivisorFor
  <1>4. d >= 1
    <2>1. CASE d = 0
      <3>. HIDE DEF d
      <3>. QED  BY <1>2, <1>3, <2>1
    <2>. QED  BY <1>3, <2>1
  <1>5. D \in 1 .. MaxDivisor /\ D <= d /\ (D = MaxDivisor \/ D = d)
    <2>1. CASE d < Word
      <3>1. d % Word = d
        BY <1>3, <2>1, TimerAssumption
      <3>. QED  BY <1>3, <1>4, <3>1, TimerAssumption DEF Clamp
    <2>2. CASE d >= Word
      <3>1. d % Word >= MaxDivisor /\ d % Word \in Nat /\ d % Word < Word
        BY <1>1, <1>3, <2>2, TimerAssumption
      <3>. QED  BY <1>3, <2>2, <3>1, TimerAssumption DEF Clamp
    <2>. QED  BY <1>3, <2>1, <2>2, TimerAssumption
  <1>6. D \in Nat \ {0} /\ MaxDivisor \in Nat
    BY <1>5, TimerAssumption
  <1>. HIDE DEF a, d
  <1>7. GetFrequencyOf(D) >= a
    <2>1. PICK q \in Nat : q = GetFrequencyOf(D) /\ BaseFrequency < q * D + D
      BY <1>1, <1>6, DivBounds DEF GetFrequencyOf
    <2>2. D * a <= d * a /\ a * D = D * a
      BY <1>2, <1>3, <1>5, <1>6, ProductLess
    <2>3. a * D < (q + 1) * D
      BY <1>1, <1>2, <1>3, <1>6, <2>1, <2>2
    <2>4. a < q + 1
      BY <1>2, <1>6, <2>1, <2>3, FactorLess
    <2>. QED  BY <1>2, <2>1, <2>4
  <1>8. ASSUME D # MaxDivisor PROVE GetFrequencyOf(D + 1) < f
    <2>1. PICK q \in Nat : q = GetFrequencyOf(D + 1) /\ q * (D + 1) <= BaseFrequency
      BY <1>1, <1>6, DivBounds DEF GetFrequencyOf
    <2>2. BaseFrequency < a * (D + 1)
      BY <1>2, <1>3, <1>5, <1>6, <1>8
    <2>3. q * (D + 1) < a * (D + 1)
      BY <1>1, <1>2, <1>6, <2>1, <2>2
    <2>4. q < a
      BY <1>2, <1>6, <2>1, <2>3, FactorLess
    <2>. QED  BY <1>1, <1>2, <2>1, <2>4
  <1>. QED  BY <1>3, <1>7, <1>8 DEF a, d

-----------------------------------------------------------------------------

(* The divisor.                                                            *)

LEMMA ProgrammedInitially == TimerInit => ProgrammedInv
  <1>. SUFFICES ASSUME TimerInit PROVE ProgrammedInv
    OBVIOUS
  <1>1. CpuTypes /\ Place = "Idle"
    BY DEF TimerInit, CpuTypes, InHandler, Place, NoCall, Away
  <1>2. PitTypes /\ pit.program = "none"
    <2>1. PICK r \in FirmwareReloads :
            pit = [count |-> r, period |-> r, reload |-> r, low |-> 0, program |-> "none"]
      BY DEF TimerInit
    <2>2. r \in Nat \ {0}
      BY TimerAssumption
    <2>. QED  BY <2>1, <2>2 DEF PitTypes
  <1>3. Programmed
    BY <1>1, <1>2, TimerAssumption DEF TimerInit, Programmed, Setting
  <1>. QED  BY <1>1, <1>2, <1>3 DEF ProgrammedInv

\* A call that programs the timer.
LEMMA ProgramStep ==
  ASSUME ProgrammedInv, Undisturbed(NoCall), NEW d \in Nat, NEW f \in Nat,
         Program(d, f),
         f > 0 => f \in Frequencies /\ d = DivisorFor(f)
  PROVE  ProgrammedInv'
  <1>1. /\ Clamp(d) \in 1 .. MaxDivisor /\ Clamp(d) \in 1 .. BaseFrequency /\ Clamp(d) \in Nat
    BY ClampIs
  <1>2. /\ cpu.pc = "Idle" /\ cpu.back = "Idle" /\ pit' = pit /\ pic' = pic /\ ran' = TRUE
        /\ cpu' = [pc |-> "LowByte", back |-> "Idle", arg |-> Clamp(d)]
        /\ Divisor' = Clamp(d) /\ asked' = f
    BY DEF Undisturbed, Program, NoCall, Hardware, ProgrammedInv, CpuTypes, InHandler, Away
  <1>3. CpuTypes'
    BY <1>1, <1>2 DEF CpuTypes, ProgrammedInv, InHandler, NoCall, Away
  <1>4. PitTypes'
    BY <1>2 DEF PitTypes, ProgrammedInv
  <1>5. Place' = "LowByte"
    BY <1>2 DEF Place, InHandler, Away
  <1>6. Programmed'
    BY <1>1, <1>2, <1>5 DEF Programmed, Setting
  <1>. QED  BY <1>3, <1>4, <1>6 DEF ProgrammedInv

LEMMA LowByteStep ==
  ASSUME ProgrammedInv, OutLowByte
  PROVE  ProgrammedInv'
  <1>1. /\ cpu.pc = "LowByte" /\ cpu.back = "Idle" /\ pic' = pic /\ ran' = TRUE
        /\ cpu' = [pc |-> "HighByte", back |-> "Idle", arg |-> cpu.arg]
        /\ pit' = [pit EXCEPT !.low = cpu.arg % Byte]
        /\ Divisor' = Divisor /\ asked' = asked
    BY DEF Undisturbed, OutLowByte, Goto, NoCall, Histories, ProgrammedInv,
       CpuTypes, InHandler, Away
  <1>2. cpu.arg \in Nat /\ cpu.arg % Byte \in Nat
    BY TimerAssumption DEF ProgrammedInv, CpuTypes
  <1>3. CpuTypes'
    BY <1>1, <1>2 DEF CpuTypes, ProgrammedInv, InHandler, NoCall, Away
  <1>4. PitTypes' /\ pit'.low = cpu.arg % Byte
    BY <1>1, <1>2 DEF PitTypes, ProgrammedInv
  <1>5. Place = "LowByte" /\ Place' = "HighByte"
    BY <1>1 DEF Place, InHandler, Away
  <1>6. Programmed'
    BY <1>1, <1>4, <1>5 DEF Programmed, ProgrammedInv, Setting
  <1>. QED  BY <1>3, <1>4, <1>6 DEF ProgrammedInv

LEMMA HighByteStep ==
  ASSUME ProgrammedInv, OutHighByte
  PROVE  ProgrammedInv'
  <1>. DEFINE r == pit.low + Byte * (cpu.arg \div Byte)
  <1>1. /\ cpu.pc = "HighByte" /\ cpu.back = "Idle" /\ pic' = pic /\ ran' = TRUE
        /\ cpu' = [pc |-> "Idle", back |-> "Idle", arg |-> 0]
        /\ pit' = [pit EXCEPT !.reload = IF r = 0 THEN Word ELSE r, !.low = 0,
                    !.program = "written"]
        /\ Divisor' = Divisor /\ asked' = asked
    BY DEF Undisturbed, OutHighByte, NoCall, Histories, ProgrammedInv, CpuTypes,
       InHandler, Away
  <1>2. Place = "HighByte" /\ Place' = "Idle"
    BY <1>1 DEF Place, InHandler, Away
  <1>3. r = Divisor /\ Divisor \in Nat \ {0}
    <2>1. pit.low = cpu.arg % Byte /\ cpu.arg = Divisor /\ Divisor \in Nat \ {0} /\ Divisor < Byte
          /\ Byte \in Nat
      BY <1>2, TimerAssumption DEF ProgrammedInv, Programmed, Setting
    <2>2. Divisor \div Byte = 0 /\ Divisor % Byte = Divisor
      BY <2>1
    <2>. QED  BY <2>1, <2>2
  <1>. HIDE DEF r
  <1>4. pit' = [pit EXCEPT !.reload = Divisor, !.low = 0, !.program = "written"]
    BY <1>1, <1>3
  <1>5. CpuTypes'
    BY <1>1 DEF CpuTypes, ProgrammedInv, InHandler, NoCall, Away
  <1>6. PitTypes' /\ pit'.reload = Divisor /\ pit'.program = "written"
    BY <1>3, <1>4 DEF PitTypes, ProgrammedInv
  <1>7. Programmed'
    BY <1>1, <1>2, <1>6 DEF Programmed, ProgrammedInv, Setting
  <1>. QED  BY <1>5, <1>6, <1>7 DEF ProgrammedInv

\* Steps that leave the timer and its divisor alone, in and out of the handler.
LEMMA ProgrammedKept ==
  ASSUME ProgrammedInv, CpuTypes', UNCHANGED <<Divisor, pit, asked>>,
         Setting' => Place' = Place /\ cpu'.arg = cpu.arg, Setting => Setting'
  PROVE  ProgrammedInv'
  BY DEF ProgrammedInv, PitTypes, Programmed, Setting

LEMMA ProgrammedStep == ProgrammedInv /\ [TimerNext]_timerVars => ProgrammedInv'
  <1>. SUFFICES ASSUME ProgrammedInv, [TimerNext]_timerVars PROVE ProgrammedInv'
    OBVIOUS
  <1>. USE DEF Undisturbed, Goto, Hardware, Histories, NoCall
  <1>0. CpuTypes
    BY DEF ProgrammedInv
  <1>1. CASE SetDivisor
    <2>1. PICK d \in Divisors : Program(d, 0)
      BY <1>1 DEF SetDivisor
    <2>2. d \in Nat /\ Undisturbed(NoCall)
      BY <1>1, TimerAssumption DEF SetDivisor
    <2>. QED  BY <2>1, <2>2, ProgramStep
  <1>2. CASE SetFrequency
    <2>1. PICK f \in Frequencies :
            IF f = 0
            THEN Goto("Panic") /\ UNCHANGED <<Divisor, TimeSinceBoot, Hardware, Histories>>
            ELSE Program(DivisorFor(f), f)
      BY <1>2 DEF SetFrequency
    <2>2. f \in Nat /\ Undisturbed(NoCall)
      BY <1>2, TimerAssumption DEF SetFrequency
    <2>3. CASE f = 0
      <3>1. cpu.pc = "Idle" /\ pic' = pic /\ ran' = TRUE /\ cpu' = [cpu EXCEPT !.pc = "Panic"]
            /\ UNCHANGED <<Divisor, pit, asked>>
        BY <2>1, <2>2, <2>3
      <3>2. CpuTypes' /\ Place = "Idle" /\ Place' = "Panic"
        BY <1>0, <3>1 DEF CpuTypes, InHandler, Place, Away
      <3>. QED  BY <3>1, <3>2, ProgrammedKept DEF Setting
    <2>4. CASE f > 0
      BY <2>1, <2>2, <2>4, ProgramStep, FrequencyReached
    <2>. QED  BY <2>2, <2>3, <2>4
  <1>3. CASE Sleepd
    <2>1. PICK a \in Sleeps : cpu' = [cpu EXCEPT !.pc = "Test", !.arg = a]
      BY <1>3 DEF Sleepd
    <2>2. cpu.pc = "Idle" /\ pic' = pic /\ ran' = TRUE /\ a \in Nat /\ UNCHANGED <<Divisor, pit, asked>>
      BY <1>3, TimerAssumption DEF Sleepd
    <2>3. CpuTypes' /\ Place = "Idle" /\ Place' = "Test"
      BY <1>0, <2>1, <2>2 DEF CpuTypes, InHandler, Place, Away
    <2>. QED  BY <2>2, <2>3, ProgrammedKept DEF Setting
  <1>4. CASE OutLowByte
    BY <1>4, LowByteStep
  <1>5. CASE OutHighByte
    BY <1>5, HighByteStep
  <1>6. CASE SleepTest
    <2>1. /\ cpu.pc = "Test" /\ pic' = pic /\ ran' = TRUE /\ UNCHANGED <<Divisor, pit, asked>>
          /\ \/ cpu' = [cpu EXCEPT !.pc = "Halt"]
             \/ cpu' = [cpu EXCEPT !.pc = "Idle", !.arg = 0]
      BY <1>6 DEF SleepTest, SleepOn, SleepOver
    <2>2. CpuTypes' /\ Place = "Test" /\ Place' \in {"Halt", "Idle"}
      <3>1. CASE cpu' = [cpu EXCEPT !.pc = "Halt"]
        BY <1>0, <2>1, <3>1 DEF CpuTypes, InHandler, Place, Away
      <3>2. CASE cpu' = [cpu EXCEPT !.pc = "Idle", !.arg = 0]
        BY <1>0, <2>1, <3>2 DEF CpuTypes, InHandler, Place, Away
      <3>. QED  BY <2>1, <3>1, <3>2
    <2>. QED  BY <2>1, <2>2, ProgrammedKept DEF Setting
  <1>7. CASE Hlt
    <2>1. /\ cpu.pc = "Halt" /\ pic' = pic /\ ran' = TRUE /\ UNCHANGED <<Divisor, pit, asked>>
          /\ cpu' = [cpu EXCEPT !.pc = "Halted"]
      BY <1>7 DEF Hlt
    <2>2. CpuTypes' /\ Place = "Halt" /\ Place' = "Halted"
      BY <1>0, <2>1 DEF CpuTypes, InHandler, Place, Away
    <2>. QED  BY <2>1, <2>2, ProgrammedKept DEF Setting
  <1>8. CASE PITInt_Handler
    <2>1. /\ cpu.pc \notin {"Tick", "EndMaster", "Iret", "Input", "Panic"}
          /\ pic' = [irr |-> FALSE, isr |-> TRUE] /\ ran' = TRUE /\ UNCHANGED <<Divisor, pit, asked>>
          /\ cpu' = [cpu EXCEPT !.pc = "Tick",
                                !.back = IF cpu.pc = "Halted" THEN "Test" ELSE cpu.pc]
      BY <1>8 DEF PITInt_Handler, Deliverable, InterruptsOn, Return
    <2>2. CpuTypes'
      BY <1>0, <2>1 DEF CpuTypes, InHandler, Away
    <2>3. Place' = IF Place = "Halted" THEN "Test" ELSE Place
      BY <1>0, <2>1 DEF CpuTypes, InHandler, Place, Away
    <2>4. cpu'.arg = cpu.arg
      BY <1>0, <2>1 DEF CpuTypes
    <2>. QED  BY <2>1, <2>2, <2>3, <2>4, ProgrammedKept DEF Setting
  <1>9. CASE Tick \/ PIC_EndMaster
    <2>1. /\ ran' = TRUE /\ UNCHANGED <<Divisor, pit, asked>>
          /\ \/ /\ cpu.pc = "Tick" /\ pic' = pic /\ cpu' = [cpu EXCEPT !.pc = "EndMaster"]
             \/ /\ cpu.pc = "EndMaster" /\ pic' = [pic EXCEPT !.isr = FALSE]
                /\ cpu' = [cpu EXCEPT !.pc = "Iret"]
      BY <1>9 DEF Tick, PIC_EndMaster
    <2>2. CpuTypes'
      BY <1>0, <2>1 DEF CpuTypes, InHandler, Away
    <2>3. Place' = Place /\ cpu'.arg = cpu.arg
      BY <1>0, <2>1 DEF CpuTypes, InHandler, Place, Away
    <2>. QED  BY <2>1, <2>2, <2>3, ProgrammedKept DEF Setting
  <1>10. CASE Iret
    <2>1. /\ ran' = TRUE /\ UNCHANGED <<Divisor, pit, asked, pic>>
          /\ cpu.pc = "Iret" /\ cpu' = [cpu EXCEPT !.pc = cpu.back, !.back = NoCall]
      BY <1>10 DEF Iret
    <2>2. CpuTypes'
      BY <1>0, <2>1 DEF CpuTypes, InHandler, Away
    <2>3. Place' = Place /\ cpu'.arg = cpu.arg
      BY <1>0, <2>1 DEF CpuTypes, InHandler, Place, Away
    <2>. QED  BY <2>1, <2>2, <2>3, ProgrammedKept DEF Setting
  <1>11. CASE Clock
    <2>1. /\ UNCHANGED <<Divisor, cpu, asked>> /\ ran' = FALSE
          /\ \/ pit.count > 1 /\ pit' = [pit EXCEPT !.count = @ - 1] /\ pic' = pic
             \/ /\ pit' = [pit EXCEPT !.count = pit.reload, !.period = pit.reload,
                             !.program = IF @ = "written" THEN "running" ELSE @]
                /\ pic' = [pic EXCEPT !.irr = TRUE]
      BY <1>11 DEF Clock
    <2>2. CpuTypes' /\ Place' = Place
      BY <1>0, <2>1 DEF CpuTypes, InHandler, Place, Away
    <2>3. PitTypes' /\ pit'.reload = pit.reload /\ pit'.low = pit.low
          /\ \/ pit'.program = pit.program /\ pit'.period = pit.period
             \/ (pit'.program = "none" <=> pit.program = "none") /\ pit'.period = pit.reload
      <3>1. CASE pit.count > 1 /\ pit' = [pit EXCEPT !.count = @ - 1]
        BY <3>1 DEF ProgrammedInv, PitTypes
      <3>2. CASE pit' = [pit EXCEPT !.count = pit.reload, !.period = pit.reload,
                           !.program = IF @ = "written" THEN "running" ELSE @]
        <4>1. PICK next \in {"none", "written", "running"} :
                /\ next = "none" <=> pit.program = "none"
                /\ pit' = [pit EXCEPT !.count = pit.reload, !.period = pit.reload, !.program = next]
          BY <3>2 DEF ProgrammedInv, PitTypes
        <4>2. /\ pit.reload \in Nat \ {0} /\ pit.low \in Nat
              /\ pit' = [count |-> pit.reload, period |-> pit.reload, reload |-> pit.reload,
                         low |-> pit.low, program |-> next]
          BY <4>1 DEF ProgrammedInv, PitTypes
        <4>. QED  BY <4>1, <4>2 DEF PitTypes
      <3>. QED  BY <2>1, <3>1, <3>2
    <2>4. Programmed'
      BY <2>1, <2>2, <2>3 DEF ProgrammedInv, PitTypes, Programmed, Setting
    <2>. QED  BY <2>2, <2>3, <2>4 DEF ProgrammedInv
  <1>12. CASE InputInterrupt
    <2>1. /\ cpu.pc \notin {"Tick", "EndMaster", "Iret", "Input", "Panic"}
          /\ ran' = TRUE /\ UNCHANGED <<Divisor, pit, pic, asked>>
          /\ cpu' = [cpu EXCEPT !.pc = "Input",
                                !.back = IF cpu.pc = "Halted" THEN "Test" ELSE cpu.pc]
      BY <1>12 DEF InputInterrupt, InterruptsOn, Return
    <2>2. CpuTypes'
      BY <1>0, <2>1 DEF CpuTypes, InHandler, Away
    <2>3. Place' = IF Place = "Halted" THEN "Test" ELSE Place
      BY <1>0, <2>1 DEF CpuTypes, InHandler, Place, Away
    <2>4. cpu'.arg = cpu.arg
      BY <1>0, <2>1 DEF CpuTypes
    <2>. QED  BY <2>1, <2>2, <2>3, <2>4, ProgrammedKept DEF Setting
  <1>13. CASE InputRuns
    <2>1. ran' = TRUE /\ UNCHANGED <<Divisor, pit, pic, cpu, asked>>
      BY <1>13 DEF InputRuns
    <2>2. CpuTypes' /\ Place' = Place
      BY <1>0, <2>1 DEF CpuTypes, InHandler, Place, Away
    <2>. QED  BY <2>1, <2>2, ProgrammedKept DEF Setting
  <1>14. CASE InputReturns
    <2>1. /\ ran' = TRUE /\ UNCHANGED <<Divisor, pit, asked, pic>>
          /\ cpu.pc = "Input" /\ cpu' = [cpu EXCEPT !.pc = cpu.back, !.back = NoCall]
      BY <1>14 DEF InputReturns
    <2>2. CpuTypes'
      BY <1>0, <2>1 DEF CpuTypes, InHandler, Away
    <2>3. Place' = Place /\ cpu'.arg = cpu.arg
      BY <1>0, <2>1 DEF CpuTypes, InHandler, Place, Away
    <2>. QED  BY <2>1, <2>2, <2>3, ProgrammedKept DEF Setting
  <1>15. CASE UNCHANGED timerVars
    BY <1>15 DEF timerVars, ProgrammedInv, CpuTypes, PitTypes, Programmed, InHandler, Place,
       Setting, Away
  <1>. QED
    BY <1>1, <1>2, <1>3, <1>4, <1>5, <1>6, <1>7, <1>8, <1>9, <1>10, <1>11, <1>12, <1>13,
       <1>14, <1>15
       DEF TimerNext, SetStep, SleepStep, Handler, InputStep

LEMMA ProgrammedMeans == ProgrammedInv => ProgrammedAsAsked
  <1>. SUFFICES ASSUME ProgrammedInv PROVE ProgrammedAsAsked
    OBVIOUS
  <1>1. GetFrequency > 0
    BY WeightIs DEF ProgrammedInv, Programmed, GetFrequency
  <1>2. {cpu.pc, cpu.back} \cap {"LowByte", "HighByte"} = {} => ~Setting
    BY DEF Setting, Place, Away, InHandler
  <1>3. asked > 0 =>
          /\ GetFrequency >= IF asked > BaseFrequency THEN BaseFrequency ELSE asked
          /\ Divisor = MaxDivisor \/ GetFrequencyOf(Divisor + 1) < asked
    BY FrequencyReached DEF ProgrammedInv, Programmed, GetFrequency
  <1>. QED  BY <1>1, <1>2, <1>3 DEF ProgrammedInv, Programmed, ProgrammedAsAsked

-----------------------------------------------------------------------------

(* The sleep.                                                              *)

LEMMA SleepingIs == CpuTypes => (Sleeping <=> Place \in {"Test", "Halt", "Halted"})
  BY DEF CpuTypes, InHandler, Place, Sleeping, NoCall, Away

\* In a sleep on a settled timer every period is the divisor.
LEMMA SettledPeriod ==
  ASSUME ProgrammedInv, SleepInv, settled
  PROVE  /\ Place \in {"Test", "Halt", "Halted"} /\ Sleeping /\ pit.program = "running"
         /\ pit.period \in 1 .. BaseFrequency /\ pit.period \in Nat \ {0}
         /\ pit.reload = pit.period /\ Divisor = pit.period
         /\ pit.count \in Nat \ {0} /\ Into \in Nat /\ Into < pit.period
         /\ cpu.arg \in Nat /\ cpu.arg + Rounding \in 0 .. MaxUnits /\ MaxUnits \in Nat
         /\ MaxTime \in Nat
  <1>1. Sleeping /\ Place \in {"Test", "Halt", "Halted"} /\ cpu.arg \in 0 .. MaxUnits - Rounding
    BY SleepingIs DEF ProgrammedInv, SleepInv
  <1>2. pit.program = "running" /\ ~Setting
    BY <1>1 DEF SleepInv, Setting
  <1>3. pit.reload = Divisor /\ pit.period = Divisor /\ Divisor \in 1 .. BaseFrequency
    BY <1>2 DEF ProgrammedInv, Programmed
  <1>4. /\ pit.count \in Nat \ {0} /\ pit.period \in Nat \ {0} /\ pit.count <= pit.period
    BY DEF ProgrammedInv, PitTypes
  <1>5. Into \in Nat /\ Into < pit.period
    BY <1>4 DEF Into
  <1>6. MaxUnits \in Nat /\ Rounding \in Nat /\ MaxTime \in Nat
    BY TimerAssumption DEF MaxUnits
  <1>. QED  BY <1>1, <1>2, <1>3, <1>4, <1>5, <1>6

LEMMA RequestsNumber ==
  ASSUME NEW k \in Nat
  PROVE  Requests(k) \in Nat /\ Requests(k) >= k
  BY DEF Requests, One

\* Time beyond the bound is counted no further.
LEMMA UpToMaxTimeAdds ==
  ASSUME MaxTime \in Nat, NEW t \in Nat, NEW d \in Nat
  PROVE  UpToMaxTime(UpToMaxTime(t) + d) = UpToMaxTime(t + d)
  BY DEF UpToMaxTime

LEMMA UpToMaxUnitsAdds ==
  ASSUME MaxUnits \in Nat, NEW t \in Nat, NEW d \in Nat
  PROVE  UpToMaxUnits(UpToMaxUnits(t) + d) = UpToMaxUnits(t + d)
  BY DEF UpToMaxUnits

\* A call of Sleepd.
LEMMA SleepBegins ==
  ASSUME ProgrammedInv, SleepInv, Sleepd
  PROVE  SleepInv'
  <1>1. PICK a \in Sleeps : cpu' = [cpu EXCEPT !.pc = "Test", !.arg = a]
    BY DEF Sleepd
  <1>2. /\ cpu.pc = "Idle" /\ cpu.back = "Idle" /\ ~Sleeping /\ ~pic.irr /\ pic' = pic /\ pit' = pit
        /\ TimeSinceBoot' = 0 /\ elapsed' = 0 /\ settled' = (pit.program = "running")
    <2>1. cpu.pc = "Idle" /\ cpu.back = "Idle" /\ ~Deliverable
      BY DEF Sleepd, Undisturbed, NoCall, ProgrammedInv, CpuTypes, InHandler, Away
    <2>2. ~Sleeping /\ ~pic.irr
      BY <2>1 DEF Sleeping, Deliverable, ProgrammedInv, CpuTypes, InterruptsOn
    <2>. QED  BY <2>1, <2>2 DEF Sleepd, Hardware, SleepInv
  <1>3. cpu' = [pc |-> "Test", back |-> "Idle", arg |-> a]
    BY <1>1, <1>2 DEF ProgrammedInv, CpuTypes
  <1>4. Sleeping' /\ Place' = "Test" /\ ~InHandler'
    BY <1>3 DEF Sleeping, Place, InHandler, Away
  <1>5. a \in 0 .. MaxUnits - Rounding /\ a \in Nat /\ MaxTime \in Nat /\ MaxUnits \in Nat
        /\ Rounding \in Nat
    BY TimerAssumption DEF MaxUnits
  <1>6. ASSUME settled' PROVE Slept(0, 0)'
    <2>1. /\ pit.count \in Nat \ {0} /\ pit.period \in Nat \ {0} /\ Into \in Nat /\ Into' = Into
          /\ pit.period \in 1 .. BaseFrequency
      <3>1. pit.count \in Nat \ {0} /\ pit.period \in Nat \ {0} /\ pit.count <= pit.period
        BY DEF ProgrammedInv, PitTypes
      <3>2. ~Setting
        BY <1>2 DEF Setting, Place, InHandler, Away
      <3>3. pit.period \in 1 .. BaseFrequency
        BY <1>2, <1>6, <3>2 DEF ProgrammedInv, Programmed
      <3>. QED  BY <1>2, <3>1, <3>3 DEF Into
    <2>2. Requests(0)' = 0
      BY <1>2, <1>3 DEF Requests, One
    <2>3. Weight(pit.period) \in Nat \ {0}
      BY <2>1, WeightIs
    <2>4. TicksFor(a + Rounding, pit.period) \in Nat
      BY <1>5, <2>3, TicksAre
    <2>5. 0 * Weight(pit.period) = 0 /\ 0 * pit.period = 0
      BY <2>1, <2>3
    <2>6. UpToMaxTime(0) = 0 /\ UpToMaxUnits(0) = 0
      BY <1>5 DEF UpToMaxTime, UpToMaxUnits
    <2>7. SleptFor(0, 0)'
      BY <1>2, <2>2, <2>5, <2>6 DEF SleptFor
    <2>8. InTime(0, 0)'
      BY <1>2, <1>3, <1>4, <2>1, <2>2, <2>4, <2>5 DEF InTime
    <2>. QED  BY <2>7, <2>8 DEF Slept
  <1>. QED  BY <1>2, <1>3, <1>4, <1>5, <1>6 DEF SleepInv

\* The processor after a step that writes one field of it or two.
LEMMA CpuRecord ==
  ASSUME CpuTypes, NEW x, NEW y, NEW z
  PROVE  /\ [cpu EXCEPT !.pc = x] = [pc |-> x, back |-> cpu.back, arg |-> cpu.arg]
         /\ [cpu EXCEPT !.pc = x, !.back = y] = [pc |-> x, back |-> y, arg |-> cpu.arg]
         /\ [cpu EXCEPT !.pc = x, !.arg = z] = [pc |-> x, back |-> cpu.back, arg |-> z]
  <1>1. PICK c : c = [cpu EXCEPT !.pc = x]
    OBVIOUS
  <1>2. c = [pc |-> x, back |-> cpu.back, arg |-> cpu.arg]
    BY <1>1 DEF CpuTypes
  <1>3. [cpu EXCEPT !.pc = x, !.back = y] = [c EXCEPT !.back = y]
    BY <1>1 DEF CpuTypes
  <1>4. [cpu EXCEPT !.pc = x, !.arg = z] = [c EXCEPT !.arg = z]
    BY <1>1 DEF CpuTypes
  <1>5. [c EXCEPT !.back = y] = [pc |-> x, back |-> y, arg |-> cpu.arg]
    BY <1>2
  <1>6. [c EXCEPT !.arg = z] = [pc |-> x, back |-> cpu.back, arg |-> z]
    BY <1>2
  <1>. QED  BY <1>1, <1>2, <1>3, <1>4, <1>5, <1>6

\* The loop's test, which ends the sleep or goes on to the halt.
LEMMA SleepTested ==
  ASSUME ProgrammedInv, SleepInv, SleepTest
  PROVE  SleepInv'
  <1>. USE DEF NoCall
  <1>1. /\ cpu.pc = "Test" /\ cpu.back = "Idle" /\ ~pic.irr /\ pic' = pic /\ pit' = pit /\ Sleeping
        /\ ~InHandler /\ Place = "Test"
    BY DEF SleepTest, Undisturbed, Deliverable, Hardware, ProgrammedInv, CpuTypes,
       InHandler, Sleeping, Place, Away, InterruptsOn
  <1>2. CASE SleepOver
    <2>1. /\ cpu' = [pc |-> "Idle", back |-> "Idle", arg |-> 0]
          /\ TimeSinceBoot' = 0 /\ elapsed' = 0 /\ settled' = FALSE
      BY <1>1, <1>2, CpuRecord DEF SleepOver, ProgrammedInv
    <2>2. ~Sleeping'
      BY <2>1 DEF Sleeping
    <2>. QED  BY <2>1, <2>2 DEF SleepInv
  <1>3. CASE MayBeLess /\ SleepOn
    <2>1. /\ cpu' = [pc |-> "Halt", back |-> "Idle", arg |-> cpu.arg] /\ cpu'.arg = cpu.arg
          /\ UNCHANGED <<TimeSinceBoot, elapsed, settled>>
      BY <1>1, <1>3, CpuRecord DEF SleepOn, Goto, ProgrammedInv
    <2>2. Sleeping' /\ ~InHandler' /\ Place' = "Halt"
      BY <2>1 DEF Sleeping, InHandler, Place, Away
    <2>3. ASSUME settled PROVE \E k, e \in Nat : Slept(k, e)'
      <3>1. PICK k, e \in Nat : Slept(k, e)
        BY <2>3 DEF SleepInv
      <3>2. /\ cpu.arg + Rounding \in 0 .. MaxUnits /\ MaxUnits \in Nat
            /\ pit.period \in 1 .. BaseFrequency /\ pit.period \in Nat \ {0}
        BY <2>3, SettledPeriod
      <3>3. PICK w \in Nat \ {0} : w = Weight(pit.period)
        BY <3>2, WeightIs
      <3>4. PICK n \in Nat : n = TicksFor(cpu.arg + Rounding, pit.period)
        BY <3>2, <3>3, TicksAre
      <3>5. k < n
        <4>1. k * w \in Nat /\ (k * w < cpu.arg + Rounding <=> k < n)
          BY <3>2, <3>3, <3>4, TicksAre
        <4>2. UpToMaxUnits(k * w) < cpu.arg + Rounding
          BY <1>3, <3>1, <3>3 DEF Slept, SleptFor, MayBeLess
        <4>. QED  BY <3>2, <4>1, <4>2 DEF UpToMaxUnits
      <3>6. Requests(k) = k /\ Requests(k)' = k /\ Into' = Into
        BY <1>1, <2>1 DEF Requests, One, Into
      <3>7. SleptFor(k, e)'
        BY <1>1, <2>1, <3>1, <3>6 DEF Slept, SleptFor
      <3>8. pit.period > Latency => InTime(k, e)'
        BY <1>1, <2>1, <2>2, <3>1, <3>4, <3>5, <3>6 DEF Slept, InTime
      <3>. QED  BY <1>1, <3>7, <3>8 DEF Slept
    <2>. QED  BY <1>1, <2>1, <2>2, <2>3 DEF SleepInv
  <1>. QED  BY <1>2, <1>3 DEF SleepTest

LEMMA SleepHalts ==
  ASSUME ProgrammedInv, SleepInv, Hlt
  PROVE  SleepInv'
  <1>. USE DEF NoCall
  <1>1. /\ cpu.pc = "Halt" /\ cpu.back = "Idle" /\ ~pic.irr /\ pic' = pic /\ pit' = pit /\ Sleeping
        /\ ~InHandler /\ Place = "Halt" /\ UNCHANGED <<TimeSinceBoot, elapsed, settled>>
    BY DEF Hlt, Undisturbed, Deliverable, Hardware, Histories, ProgrammedInv,
       CpuTypes, InHandler, Sleeping,
           Place, Away, InterruptsOn
  <1>2. cpu' = [pc |-> "Halted", back |-> "Idle", arg |-> cpu.arg] /\ cpu'.arg = cpu.arg
    BY <1>1, CpuRecord DEF Hlt, Goto, ProgrammedInv
  <1>3. Sleeping' /\ ~InHandler' /\ Place' = "Halted"
    BY <1>2 DEF Sleeping, InHandler, Place, Away
  <1>4. ASSUME settled PROVE \E k, e \in Nat : Slept(k, e)'
    <2>1. PICK k, e \in Nat : Slept(k, e)
      BY <1>4 DEF SleepInv
    <2>2. /\ cpu.arg + Rounding \in 0 .. MaxUnits /\ MaxUnits \in Nat
          /\ pit.period \in 1 .. BaseFrequency /\ pit.period \in Nat \ {0}
      BY <1>4, SettledPeriod
    <2>3. PICK w \in Nat \ {0} : w = Weight(pit.period)
      BY <2>2, WeightIs
    <2>4. PICK n \in Nat : n = TicksFor(cpu.arg + Rounding, pit.period)
      BY <2>2, <2>3, TicksAre
    <2>5. Requests(k) = k /\ Requests(k)' = k /\ Into' = Into
      BY <1>1, <1>2 DEF Requests, One, Into
    <2>6. SleptFor(k, e)'
      BY <1>1, <1>2, <2>1, <2>5 DEF Slept, SleptFor
    <2>7. pit.period > Latency => InTime(k, e)'
      BY <1>1, <1>2, <1>3, <2>1, <2>4, <2>5 DEF Slept, InTime
    <2>. QED  BY <1>1, <2>6, <2>7 DEF Slept
  <1>. QED  BY <1>1, <1>2, <1>3, <1>4 DEF SleepInv

\* The interrupt begins, and with it the handler.
LEMMA SleepInterrupted ==
  ASSUME ProgrammedInv, InputInv, SleepInv, PITInt_Handler
  PROVE  SleepInv'
  <1>1. /\ cpu.pc \notin {"Tick", "EndMaster", "Iret", "Input", "Panic"} /\ cpu.back = "Idle" /\ pic.irr
        /\ pic' = [irr |-> FALSE, isr |-> TRUE] /\ ran' = TRUE /\ pit' = pit /\ input' = input
        /\ ~InHandler /\ Place = cpu.pc
        /\ UNCHANGED <<TimeSinceBoot, elapsed, settled>>
    BY DEF PITInt_Handler, Deliverable, Histories, ProgrammedInv, CpuTypes,
       InHandler, Place, NoCall, Away, InterruptsOn, Return
  <1>2. /\ cpu'.pc = "Tick" /\ cpu'.back = (IF cpu.pc = "Halted" THEN "Test" ELSE cpu.pc)
        /\ cpu'.arg = cpu.arg
    BY CpuRecord DEF PITInt_Handler, ProgrammedInv, Return
  <1>3. /\ InHandler' /\ Place' = (IF Place = "Halted" THEN "Test" ELSE Place)
        /\ Sleeping' <=> Sleeping
    BY <1>1, <1>2 DEF InHandler, Place, Sleeping, Away
  <1>4. ASSUME settled PROVE \E k, e \in Nat : Slept(k, e)'
    <2>1. PICK k, e \in Nat : Slept(k, e)
      BY <1>4 DEF SleepInv
    <2>2. /\ cpu.arg + Rounding \in 0 .. MaxUnits /\ MaxUnits \in Nat /\ Into \in Nat
          /\ InputSteps - input \in Int
          /\ pit.period \in 1 .. BaseFrequency /\ pit.period \in Nat \ {0}
      BY <1>4, SettledPeriod, TimerAssumption DEF InputInv
    <2>3. PICK w \in Nat \ {0} : w = Weight(pit.period)
      BY <2>2, WeightIs
    <2>4. PICK n \in Nat : n = TicksFor(cpu.arg + Rounding, pit.period)
      BY <2>2, <2>3, TicksAre
    <2>5. Requests(k) = k + 1 /\ Requests(k)' = k + 1 /\ Into' = Into
      BY <1>1, <1>2 DEF Requests, One, Into
    <2>6. SleptFor(k, e)'
      BY <1>1, <2>1, <2>5 DEF Slept, SleptFor
    <2>7. ASSUME pit.period > Latency PROVE InTime(k, e)'
      <3>1. InTime(k, e)
        BY <2>1, <2>7 DEF Slept
      <3>2. Prompt'
        <4>1. Prompt /\ Due = 0 /\ Due' = 1
          BY <1>1, <1>2, <3>1 DEF InTime, Due
        <4>. QED  BY <1>1, <2>2, <2>5, <4>1 DEF Prompt, One
      <3>. QED  BY <1>1, <1>2, <1>3, <2>4, <2>5, <3>1, <3>2 DEF InTime
    <2>. QED  BY <1>1, <2>6, <2>7 DEF Slept
  <1>. QED  BY <1>1, <1>2, <1>3, <1>4 DEF SleepInv

\* The handler goes on: the tick, or the end of the interrupt.
LEMMA SleepTicks ==
  ASSUME ProgrammedInv, InputInv, SleepInv, Tick
  PROVE  SleepInv'
  <1>1. /\ cpu.pc = "Tick" /\ pic' = pic /\ ran' = TRUE /\ pit' = pit /\ input' = input /\ InHandler
        /\ TimeSinceBoot' = (IF Sleeping THEN UpToMaxUnits(TimeSinceBoot + Weight(Divisor))
                             ELSE TimeSinceBoot)
        /\ UNCHANGED <<elapsed, settled>>
    BY DEF Tick, Goto, Hardware, Histories, InHandler, Away
  <1>2. cpu'.pc = "EndMaster" /\ cpu'.back = cpu.back /\ cpu'.arg = cpu.arg
    BY CpuRecord DEF Tick, Goto, ProgrammedInv
  <1>3. InHandler' /\ Place' = Place /\ (Sleeping' <=> Sleeping)
    BY <1>1, <1>2 DEF InHandler, Place, Sleeping, Away
  <1>4. ASSUME settled PROVE \E k, e \in Nat : Slept(k, e)'
    <2>1. PICK k, e \in Nat : Slept(k, e)
      BY <1>4 DEF SleepInv
    <2>2. /\ cpu.arg + Rounding \in 0 .. MaxUnits /\ MaxUnits \in Nat /\ Into \in Nat
          /\ InputSteps - input \in Int /\ Sleeping
          /\ pit.period \in 1 .. BaseFrequency /\ pit.period \in Nat \ {0}
          /\ Divisor = pit.period
      BY <1>4, SettledPeriod, TimerAssumption DEF InputInv
    <2>3. PICK w \in Nat \ {0} : w = Weight(pit.period)
      BY <2>2, WeightIs
    <2>4. PICK n \in Nat : n = TicksFor(cpu.arg + Rounding, pit.period)
      BY <2>2, <2>3, TicksAre
    <2>5. Requests(k + 1)' = Requests(k) /\ Into' = Into /\ k + 1 \in Nat
      BY <1>1, <1>2 DEF Requests, One, Into
    <2>6. TimeSinceBoot' = UpToMaxUnits((k + 1) * w)
      <3>1. TimeSinceBoot = UpToMaxUnits(k * w)
        BY <2>1, <2>3 DEF Slept, SleptFor
      <3>2. TimeSinceBoot' = UpToMaxUnits(UpToMaxUnits(k * w) + w)
        BY <1>1, <2>2, <2>3, <3>1
      <3>3. k * w \in Nat /\ (k + 1) * w = k * w + w
        OBVIOUS
      <3>. QED  BY <2>2, <3>2, <3>3, UpToMaxUnitsAdds
    <2>7. SleptFor(k + 1, e)'
      BY <1>1, <2>1, <2>3, <2>5, <2>6 DEF Slept, SleptFor
    <2>8. ASSUME pit.period > Latency PROVE InTime(k + 1, e)'
      <3>1. InTime(k, e)
        BY <2>1, <2>8 DEF Slept
      <3>2. Prompt'
        <4>1. Prompt /\ Due = 1 /\ Due' = 2
          BY <1>1, <1>2, <3>1 DEF InTime, Due
        <4>. QED  BY <1>1, <2>2, <2>5, <4>1 DEF Prompt, One
      <3>. QED  BY <1>1, <1>2, <1>3, <2>4, <2>5, <3>1, <3>2 DEF InTime
    <2>. QED  BY <1>1, <2>5, <2>7, <2>8 DEF Slept
  <1>. QED  BY <1>1, <1>2, <1>3, <1>4 DEF SleepInv

LEMMA SleepReleases ==
  ASSUME ProgrammedInv, InputInv, SleepInv, PIC_EndMaster \/ Iret
  PROVE  SleepInv'
  <1>1. /\ cpu.pc \in {"EndMaster", "Iret"} /\ pic'.irr = pic.irr /\ ran' = TRUE /\ pit' = pit /\ input' = input
        /\ InHandler /\ Place = cpu.back /\ UNCHANGED <<TimeSinceBoot, elapsed, settled>>
    BY DEF PIC_EndMaster, Iret, Goto, Hardware, Histories, InHandler,
       Place, ProgrammedInv, CpuTypes, Away
  <1>2. /\ cpu'.arg = cpu.arg
        /\ \/ cpu.pc = "EndMaster" /\ cpu'.pc = "Iret" /\ cpu'.back = cpu.back
           \/ cpu.pc = "Iret" /\ cpu'.pc = cpu.back /\ cpu'.back = "Idle"
    BY CpuRecord DEF PIC_EndMaster, Iret, Goto, ProgrammedInv, NoCall
  <1>3. /\ cpu.back \in {"Idle", "LowByte", "HighByte", "Test", "Halt"}
        /\ Place' = Place /\ (Sleeping' <=> Sleeping)
    BY <1>1, <1>2 DEF InHandler, Place, Sleeping, ProgrammedInv, CpuTypes, Away
  <1>4. ASSUME settled PROVE \E k, e \in Nat : Slept(k, e)'
    <2>1. PICK k, e \in Nat : Slept(k, e)
      BY <1>4 DEF SleepInv
    <2>2. /\ cpu.arg + Rounding \in 0 .. MaxUnits /\ MaxUnits \in Nat /\ Into \in Nat
          /\ InputSteps - input \in Int
          /\ pit.period \in 1 .. BaseFrequency /\ pit.period \in Nat \ {0}
      BY <1>4, SettledPeriod, TimerAssumption DEF InputInv
    <2>3. PICK w \in Nat \ {0} : w = Weight(pit.period)
      BY <2>2, WeightIs
    <2>4. PICK n \in Nat : n = TicksFor(cpu.arg + Rounding, pit.period)
      BY <2>2, <2>3, TicksAre
    <2>5. Requests(k)' = Requests(k) /\ Into' = Into
      BY <1>1, <1>2, <1>3 DEF Requests, One, Into
    <2>6. SleptFor(k, e)'
      BY <1>1, <2>1, <2>5 DEF Slept, SleptFor
    <2>7. ASSUME pit.period > Latency PROVE InTime(k, e)'
      <3>1. InTime(k, e) /\ ~pic.irr
        BY <1>1, <2>1, <2>7 DEF Slept, InTime
      <3>2. Prompt'
        <4>1. Prompt /\ Due \in 2 .. 3 /\ Due' = Due + 1
          BY <1>1, <1>2, <1>3, <3>1 DEF InTime, Due
        <4>. QED  BY <1>1, <2>2, <2>5, <4>1 DEF Prompt, One
      <3>. QED  BY <1>1, <1>2, <1>3, <2>4, <2>5, <3>1, <3>2 DEF InTime
    <2>. QED  BY <1>1, <2>6, <2>7 DEF Slept
  <1>. QED  BY <1>1, <1>2, <1>3, <1>4 DEF SleepInv

\* The handlers of the inputs.
LEMMA SleepDisturbed ==
  ASSUME ProgrammedInv, InputInv, SleepInv, InputInterrupt \/ InputRuns \/ InputReturns
  PROVE  SleepInv'
  <1>1. /\ pit' = pit /\ pic' = pic /\ ran' = TRUE /\ input' = input - 1
        /\ UNCHANGED <<TimeSinceBoot, elapsed, settled>>
        /\ ~InHandler /\ pic.irr \in BOOLEAN
    BY DEF InputInterrupt, InputRuns, InputReturns, InterruptsOn, Histories, InHandler,
           ProgrammedInv, CpuTypes, Away
  <1>2. /\ cpu'.arg = cpu.arg /\ ~InHandler' /\ (Sleeping' <=> Sleeping)
        /\ \/ Place' = Place
           \/ Place = "Halted" /\ Place' = "Test" /\ ~pic.irr
    <2>1. CASE InputInterrupt
      <3>1. /\ cpu'.pc = "Input" /\ cpu'.arg = cpu.arg /\ ~pic.irr
            /\ cpu'.back = IF cpu.pc = "Halted" THEN "Test" ELSE cpu.pc
            /\ ~Away /\ cpu.back = "Idle"
        BY <2>1, CpuRecord DEF InputInterrupt, InterruptsOn, Return, Away, InHandler,
           ProgrammedInv, CpuTypes, NoCall
      <3>2. Away' /\ ~InHandler'
        BY <3>1 DEF Away, InHandler
      <3>. QED  BY <3>1, <3>2 DEF Place, Sleeping, Away, InHandler
    <2>2. CASE InputRuns
      BY <1>1, <2>2 DEF InputRuns, InHandler, Away, Place, Sleeping
    <2>3. CASE InputReturns
      <3>1. /\ cpu.pc = "Input" /\ cpu'.pc = cpu.back /\ cpu'.back = "Idle" /\ cpu'.arg = cpu.arg
            /\ cpu.back \in {"Idle", "LowByte", "HighByte", "Test", "Halt"}
        BY <2>3, CpuRecord DEF InputReturns, ProgrammedInv, CpuTypes, NoCall
      <3>. QED  BY <3>1 DEF InHandler, Away, Place, Sleeping
    <2>. QED  BY <2>1, <2>2, <2>3
  <1>3. ASSUME settled PROVE \E k, e \in Nat : Slept(k, e)'
    <2>1. PICK k, e \in Nat : Slept(k, e)
      BY <1>3 DEF SleepInv
    <2>2. /\ cpu.arg + Rounding \in 0 .. MaxUnits /\ MaxUnits \in Nat /\ Into \in Nat
          /\ input \in Int /\ InputSteps \in Int
          /\ pit.period \in 1 .. BaseFrequency /\ pit.period \in Nat \ {0}
      BY <1>3, SettledPeriod, TimerAssumption DEF InputInv
    <2>3. PICK w \in Nat \ {0} : w = Weight(pit.period)
      BY <2>2, WeightIs
    <2>4. PICK n \in Nat : n = TicksFor(cpu.arg + Rounding, pit.period)
      BY <2>2, <2>3, TicksAre
    <2>5. Requests(k)' = Requests(k) /\ Into' = Into /\ Due' = Due
      BY <1>1, <1>2 DEF Requests, One, Into, Due, InHandler, Away
    <2>6. SleptFor(k, e)'
      BY <1>1, <2>1, <2>5 DEF Slept, SleptFor
    <2>7. ASSUME pit.period > Latency PROVE InTime(k, e)'
      <3>1. InTime(k, e)
        BY <2>1, <2>7 DEF Slept
      <3>2. Prompt => Prompt'
        <4>1. Due \in Int
          BY DEF Due
        <4>. QED  BY <1>1, <2>2, <2>5, <4>1 DEF Prompt, One
      <3>. QED  BY <1>1, <1>2, <2>4, <2>5, <3>1, <3>2 DEF InTime
    <2>. QED  BY <1>1, <2>6, <2>7 DEF Slept
  <1>. QED  BY <1>1, <1>2, <1>3 DEF SleepInv

\* Outside a sleep nothing is counted.
LEMMA AwakeKept ==
  ASSUME ~Sleeping', TimeSinceBoot' = 0, elapsed' = 0, settled' = FALSE
  PROVE  SleepInv'
  BY DEF SleepInv

\* The calls that program the timer: no sleep is in progress.
LEMMA AwakeSteps ==
  ASSUME ProgrammedInv, SleepInv,
         SetDivisor \/ SetFrequency \/ OutLowByte \/ OutHighByte
  PROVE  SleepInv'
  <1>. USE DEF NoCall
  <1>1. cpu.pc \in {"Idle", "LowByte", "HighByte"} /\ cpu.back = "Idle"
    BY DEF SetDivisor, SetFrequency, OutLowByte, OutHighByte, Undisturbed,
       ProgrammedInv, CpuTypes, InHandler, Away
  <1>2. ~Sleeping /\ TimeSinceBoot = 0 /\ elapsed = 0 /\ settled = FALSE
    BY <1>1 DEF Sleeping, SleepInv
  <1>3. /\ UNCHANGED <<TimeSinceBoot, elapsed, settled>>
        /\ \/ cpu'.pc = "LowByte" /\ cpu'.back = "Idle"
           \/ cpu'.pc = "Panic" /\ cpu'.back = "Idle"
           \/ cpu'.pc = "HighByte" /\ cpu'.back = "Idle"
           \/ cpu'.pc = "Idle" /\ cpu'.back = "Idle"
    <2>1. CpuTypes
      BY DEF ProgrammedInv
    <2>2. CASE SetDivisor \/ SetFrequency
      <3>1. /\ UNCHANGED <<TimeSinceBoot, elapsed, settled>>
            /\ \/ \E x : cpu' = [cpu EXCEPT !.pc = "LowByte", !.arg = x]
               \/ cpu' = [cpu EXCEPT !.pc = "Panic"]
        BY <2>2 DEF SetDivisor, SetFrequency, Program, Goto, Histories
      <3>. QED  BY <1>1, <2>1, <3>1, CpuRecord
    <2>3. CASE OutLowByte \/ OutHighByte
      <3>1. /\ UNCHANGED <<TimeSinceBoot, elapsed, settled>>
            /\ \/ cpu' = [cpu EXCEPT !.pc = "HighByte"]
               \/ cpu' = [cpu EXCEPT !.pc = "Idle", !.arg = 0]
        BY <2>3 DEF OutLowByte, OutHighByte, Goto, Histories
      <3>. QED  BY <1>1, <2>1, <3>1, CpuRecord
    <2>. QED  BY <2>2, <2>3
  <1>4. ~Sleeping'
    BY <1>3 DEF Sleeping
  <1>. QED  BY <1>2, <1>3, <1>4, AwakeKept

\* A clock inside a period.
LEMMA SleepClock ==
  ASSUME ProgrammedInv, InputInv, SleepInv, settled, Clock, pit.count > 1,
         NEW k \in Nat, NEW e \in Nat, Slept(k, e)
  PROVE  Slept(k, e + 1)'
  <1>1. /\ pit' = [pit EXCEPT !.count = @ - 1] /\ pic' = pic /\ cpu' = cpu /\ ran' = FALSE
        /\ input' = input
        /\ TimeSinceBoot' = TimeSinceBoot /\ elapsed' = UpToMaxTime(elapsed + 1)
        /\ ran \/ Waits
    BY SettledPeriod DEF Clock
  <1>2. /\ MaxTime \in Nat /\ pit.period \in Nat \ {0} /\ pit.count \in Nat /\ Into \in Nat
        /\ cpu.arg \in Nat /\ InputSteps - input \in Int /\ Place \in {"Test", "Halt", "Halted"} /\ pit.period \in 1 .. BaseFrequency
    BY SettledPeriod, TimerAssumption DEF InputInv
  <1>3. pit'.period = pit.period /\ pit'.count = pit.count - 1
    BY <1>1 DEF ProgrammedInv, PitTypes
  <1>4. /\ Requests(k)' = Requests(k) /\ Into' = Into + 1 /\ Due' = Due /\ Place' = Place
        /\ InHandler' = InHandler
    BY <1>1, <1>2, <1>3 DEF Requests, Into, Due, Place, InHandler, Away
  <1>5. SleptFor(k, e + 1)'
    <2>1. elapsed' = UpToMaxTime(e + 1)
      BY <1>1, <1>2, UpToMaxTimeAdds DEF Slept, SleptFor
    <2>2. Requests(k) >= 1 => e >= (Requests(k) - 1) * pit.period + 1 + Into
      BY DEF Slept, SleptFor
    <2>3. PICK m \in Int : m = (Requests(k) - 1) * pit.period
      BY <1>2, RequestsNumber
    <2>4. Requests(k) >= 1 => e + 1 >= m + 1 + (Into + 1)
      BY <1>2, <2>2, <2>3
    <2>. QED  BY <1>1, <1>3, <1>4, <2>1, <2>3, <2>4 DEF Slept, SleptFor
  <1>6. ASSUME pit.period > Latency PROVE InTime(k, e + 1)'
    <2>1. InTime(k, e)
      BY <1>6 DEF Slept
    <2>2. e + 1 <= Requests(k) * pit.period + (Into + 1)
      <3>1. PICK m \in Int : m = Requests(k) * pit.period
        BY <1>2, RequestsNumber
      <3>. QED  BY <1>2, <2>1, <3>1 DEF InTime
    <2>3. Prompt /\ ran => Prompt'
      <3>1. Due \in Int
        BY DEF Due
      <3>. QED  BY <1>1, <1>2, <1>4, <3>1 DEF Prompt, One
    <2>4. ~ran => Place = "Halted" /\ ~InHandler /\ ~pic.irr
      BY <1>1, <1>2 DEF Waits, Deliverable, InHandler, Place, NoCall,
         ProgrammedInv, CpuTypes, Away, InterruptsOn
    <2>5. (InHandler => ~pic.irr) /\ (InHandler \/ pic.irr => Prompt')
      BY <2>1, <2>3, <2>4 DEF InTime, ProgrammedInv, CpuTypes
    <2>. QED  BY <1>1, <1>3, <1>4, <2>1, <2>2, <2>3, <2>4, <2>5 DEF InTime, ProgrammedInv,
              CpuTypes
  <1>. QED  BY <1>3, <1>5, <1>6 DEF Slept

\* The clock that ends a period and requests an interrupt.
LEMMA SleepWraps ==
  ASSUME ProgrammedInv, InputInv, SleepInv, settled, Clock, ~(pit.count > 1),
         NEW k \in Nat, NEW e \in Nat, Slept(k, e)
  PROVE  Slept(k, e + 1)' /\ pit'.program = "running"
  <1>1. /\ pit' = [pit EXCEPT !.count = pit.reload, !.period = pit.reload,
                    !.program = IF @ = "written" THEN "running" ELSE @]
        /\ pic' = [pic EXCEPT !.irr = TRUE] /\ cpu' = cpu /\ ran' = FALSE
        /\ input' = InputSteps
        /\ TimeSinceBoot' = TimeSinceBoot /\ elapsed' = UpToMaxTime(elapsed + 1)
    BY SettledPeriod DEF Clock
  <1>2. /\ MaxTime \in Nat /\ pit.period \in Nat \ {0} /\ pit.count = 1 /\ Into \in Nat
        /\ cpu.arg \in Nat /\ cpu.arg + Rounding \in Nat /\ Place \in {"Test", "Halt", "Halted"} /\ pit.reload = pit.period
        /\ pit.program = "running" /\ pit.period \in 1 .. BaseFrequency
        /\ InputSteps \in Nat /\ input \in 0 .. InputSteps
    BY SettledPeriod, TimerAssumption DEF InputInv
  <1>3. pit'.period = pit.period /\ pit'.count = pit.period /\ pit'.program = "running"
    <2>1. /\ pit.low \in Nat
          /\ pit' = [pit EXCEPT !.count = pit.period, !.period = pit.period, !.program = "running"]
      BY <1>1, <1>2 DEF ProgrammedInv, PitTypes
    <2>. QED  BY <1>2, <2>1 DEF ProgrammedInv, PitTypes
  <1>4. pic'.irr = TRUE
    BY <1>1 DEF ProgrammedInv, CpuTypes
  <1>5. /\ Into = pit.period - 1 /\ Into' = 0 /\ Due' = (IF InHandler THEN Due ELSE 0)
        /\ Place' = Place /\ InHandler' = InHandler
        /\ Requests(k)' = Requests(k) + One(~pic.irr)
    BY <1>1, <1>2, <1>3, <1>4 DEF Requests, Into, Due, Place, InHandler, One, Away
  <1>6. Requests(k) \in Nat
    BY RequestsNumber
  <1>7. PICK x \in Nat : x = Requests(k)
    BY <1>6
  <1>8. PICK m \in Nat : m = x * pit.period
    BY <1>2
  <1>9. (x - 1) * pit.period = m - pit.period /\ (x + 1 - 1) * pit.period = m
        /\ (x + 1) * pit.period = m + pit.period
    BY <1>2, <1>8
  <1>10. SleptFor(k, e + 1)'
    <2>1. elapsed' = UpToMaxTime(e + 1)
      BY <1>1, <1>2, UpToMaxTimeAdds DEF Slept, SleptFor
    <2>2. x >= 1 => e >= (m - pit.period) + 1 + Into
      BY <1>7, <1>9 DEF Slept, SleptFor
    <2>3. x = 0 => m = 0
      BY <1>2, <1>8
    <2>4. Requests(k)' >= 1 => e + 1 >= (Requests(k)' - 1) * pit.period + 1 + 0
      <3>1. CASE pic.irr
        BY <1>2, <1>5, <1>7, <1>9, <2>2, <3>1 DEF One
      <3>2. CASE ~pic.irr
        <4>1. Requests(k)' = x + 1 /\ e >= m
          BY <1>2, <1>5, <1>7, <2>2, <2>3, <3>2 DEF One
        <4>. QED  BY <1>9, <4>1
      <3>. QED  BY <3>1, <3>2
    <2>. QED  BY <1>1, <1>3, <1>5, <2>1, <2>4 DEF Slept, SleptFor
  <1>11. ASSUME pit.period > Latency PROVE InTime(k, e + 1)'
    <2>1. InTime(k, e)
      BY <1>11 DEF Slept
    <2>2. ~Prompt
      <3>1. Due \in 0 .. 4
        BY DEF Due
      <3>. QED  BY <1>2, <1>5, <1>11, <3>1 DEF Prompt, Latency, One
    <2>3. ~InHandler /\ ~pic.irr
      BY <2>1, <2>2 DEF InTime
    <2>4. Requests(k)' = x + 1 /\ Prompt'
      <3>1. Due' = 0
        BY <1>5, <2>3
      <3>. QED  BY <1>1, <1>2, <1>5, <1>7, <2>3, <3>1 DEF One, Prompt
    <2>5. e + 1 <= (x + 1) * pit.period + 0
      <3>1. e <= m + Into
        BY <1>7, <1>8, <2>1 DEF InTime
      <3>. QED  BY <1>2, <1>5, <1>9, <3>1
    <2>6. PICK n \in Int : n = TicksFor(cpu.arg + Rounding, pit.period)
      BY <1>2, WeightIs, TicksAre
    <2>7. /\ Place = "Test" => x <= n
          /\ Place = "Halt" => x <= n - 1
          /\ Place = "Halted" => x <= n
      BY <1>7, <2>1, <2>2, <2>3, <2>6 DEF InTime
    <2>8. /\ Place = "Test" => x + 1 <= n \/ x + 1 = n + 1
          /\ Place = "Halt" => x + 1 <= n - 1 \/ x + 1 = n
          /\ Place = "Halted" => x + 1 <= n \/ x + 1 = n + 1
      BY <2>7
    <2>. QED  BY <1>1, <1>3, <1>4, <1>5, <2>3, <2>4, <2>5, <2>6, <2>8 DEF InTime
  <1>. QED  BY <1>3, <1>10, <1>11 DEF Slept

LEMMA SleepInitially == TimerInit => SleepInv
  <1>. SUFFICES ASSUME TimerInit PROVE SleepInv
    OBVIOUS
  <1>1. settled = FALSE /\ TimeSinceBoot = 0 /\ elapsed = 0 /\ cpu.pc = "Idle" /\ cpu.back = "Idle"
    BY DEF TimerInit, NoCall
  <1>2. ~Sleeping
    BY <1>1 DEF Sleeping
  <1>. QED  BY <1>1, <1>2 DEF SleepInv

\* The steps of the inputs are counted.
LEMMA InputCounted ==
  ASSUME CpuTypes, InputInv, [TimerNext]_timerVars
  PROVE  InputInv'
  <1>0. InputSteps \in Nat
    BY TimerAssumption
  <1>1. CASE InputInterrupt \/ InputRuns
    BY <1>0, <1>1 DEF InputInterrupt, InputRuns, InputInv
  <1>2. CASE InputReturns
    <2>1. cpu'.pc # "Input" /\ input' = input - 1 /\ input >= 1
      BY <1>2, CpuRecord DEF InputReturns, CpuTypes, InputInv
    <2>. QED  BY <1>0, <2>1 DEF InputInv
  <1>3. CASE Clock
    BY <1>0, <1>3 DEF Clock, InputInv
  <1>4. CASE UNCHANGED timerVars
    BY <1>4 DEF timerVars, InputInv
  <1>5. CASE \/ SetDivisor \/ SetFrequency \/ OutLowByte \/ OutHighByte \/ Sleepd
             \/ SleepTest \/ Hlt \/ PITInt_Handler \/ Tick \/ PIC_EndMaster \/ Iret
    <2>1. input' = input /\ (cpu'.pc = "Input" => cpu.pc = "Input")
      <3>1. CASE SetDivisor \/ SetFrequency
        <4>1. input' = input /\ \E x : \/ cpu' = [cpu EXCEPT !.pc = "LowByte", !.arg = x]
                                      \/ cpu' = [cpu EXCEPT !.pc = "Panic"]
          BY <3>1 DEF SetDivisor, SetFrequency, Program, Goto, Hardware
        <4>2. PICK x : \/ cpu' = [cpu EXCEPT !.pc = "LowByte", !.arg = x]
                       \/ cpu' = [cpu EXCEPT !.pc = "Panic"]
          BY <4>1
        <4>3. cpu'.pc \in {"LowByte", "Panic"}
          BY <4>2, CpuRecord
        <4>. QED  BY <4>1, <4>3
      <3>5. CASE OutLowByte
        BY <3>5, CpuRecord DEF OutLowByte, Goto
      <3>6. CASE OutHighByte
        BY <3>6, CpuRecord DEF OutHighByte, NoCall
      <3>2. CASE Sleepd \/ SleepTest \/ Hlt
        BY <3>2, CpuRecord DEF Sleepd, SleepTest, SleepOn, SleepOver, Hlt, Goto, Hardware, NoCall
      <3>3. CASE PITInt_Handler \/ Tick \/ PIC_EndMaster
        BY <3>3, CpuRecord DEF PITInt_Handler, Tick, PIC_EndMaster, Goto, Hardware, Return
      <3>4. CASE Iret
        <4>1. cpu'.pc = cpu.back
          BY <3>4, CpuRecord DEF Iret
        <4>. QED  BY <3>4, <4>1 DEF Iret, CpuTypes, Hardware
      <3>. QED  BY <1>5, <3>1, <3>2, <3>3, <3>4, <3>5, <3>6
    <2>. QED  BY <2>1 DEF InputInv
  <1>. QED
    BY <1>1, <1>2, <1>3, <1>4, <1>5
    DEF TimerNext, SetStep, SleepStep, Handler, InputStep

LEMMA SleepKept == ProgrammedInv /\ InputInv /\ SleepInv /\ [TimerNext]_timerVars => SleepInv'
  <1>. SUFFICES ASSUME ProgrammedInv, InputInv, SleepInv, [TimerNext]_timerVars PROVE SleepInv'
    OBVIOUS
  <1>1. CASE SetDivisor \/ SetFrequency \/ OutLowByte \/ OutHighByte
    BY <1>1, AwakeSteps
  <1>2. CASE Sleepd
    BY <1>2, SleepBegins
  <1>3. CASE SleepTest
    BY <1>3, SleepTested
  <1>4. CASE Hlt
    BY <1>4, SleepHalts
  <1>5. CASE PITInt_Handler
    BY <1>5, SleepInterrupted
  <1>6. CASE Tick
    BY <1>6, SleepTicks
  <1>7. CASE PIC_EndMaster \/ Iret
    BY <1>7, SleepReleases
  <1>8. CASE Clock
    <2>1. cpu' = cpu /\ TimeSinceBoot' = TimeSinceBoot /\ settled' = settled
          /\ elapsed' = (IF Sleeping THEN UpToMaxTime(elapsed + 1) ELSE elapsed)
      BY <1>8 DEF Clock
    <2>2. Sleeping' <=> Sleeping
      BY <2>1 DEF Sleeping
    <2>3. ASSUME settled PROVE pit'.program = "running" /\ \E k, e \in Nat : Slept(k, e)'
      <3>1. PICK k, e \in Nat : Slept(k, e)
        BY <2>3 DEF SleepInv
      <3>2. CASE pit.count > 1
        <4>1. pit'.program = pit.program /\ pit.program = "running"
          BY <1>8, <2>3, <3>2 DEF Clock, SleepInv, ProgrammedInv, PitTypes
        <4>. QED  BY <1>8, <2>3, <3>1, <3>2, <4>1, SleepClock
      <3>3. CASE ~(pit.count > 1)
        BY <1>8, <2>3, <3>1, <3>3, SleepWraps
      <3>. QED  BY <3>2, <3>3
    <2>. QED  BY <2>1, <2>2, <2>3 DEF SleepInv
  <1>9. CASE InputInterrupt \/ InputRuns \/ InputReturns
    BY <1>9, SleepDisturbed
  <1>10. CASE UNCHANGED timerVars
    BY <1>10 DEF timerVars, SleepInv, Sleeping, Slept, SleptFor, InTime, Requests, Into,
       Prompt, Due, Place,
                InHandler, Away
  <1>. QED
    BY <1>1, <1>2, <1>3, <1>4, <1>5, <1>6, <1>7, <1>8, <1>9, <1>10
    DEF TimerNext, SetStep, SleepStep, Handler, InputStep

\* The step that ends a sleep.
LEMMA SleepMeans ==
  ASSUME ProgrammedInv, InputInv, SleepInv, [TimerNext]_timerVars, settled,
         cpu.pc = "Test", cpu'.pc = NoCall
  PROVE  /\ (TicksFor(cpu.arg - Rounding, pit.period) - 1) * pit.period < elapsed
         /\ pit.period > Latency =>
              elapsed <= (TicksFor(cpu.arg + Rounding, pit.period) + 1) * pit.period + Latency
  <1>1. SleepTest /\ MayNotBeLess
    <2>1. cpu'.pc # cpu.pc /\ cpu'.pc \notin {"Tick", "Halt", "Input"}
      BY DEF NoCall
    <2>2. SleepTest
      <3>1. CpuTypes
        BY DEF ProgrammedInv
      <3>2. ~PITInt_Handler /\ ~InputInterrupt
        BY <2>1, <3>1, CpuRecord DEF PITInt_Handler, InputInterrupt, Return
      <3>. QED
        BY <2>1, <3>2 DEF TimerNext, SetDivisor, SetFrequency, Sleepd, SetStep,
           OutLowByte, OutHighByte, SleepStep, Hlt, Handler, Tick, PIC_EndMaster, Iret,
           InputStep, InputRuns, InputReturns, Clock, Undisturbed, timerVars, NoCall
    <2>3. SleepOn => cpu'.pc = "Halt"
      BY CpuRecord DEF SleepOn, Goto, ProgrammedInv
    <2>. QED  BY <2>1, <2>2, <2>3 DEF SleepTest
  <1>2. PICK k, e \in Nat : Slept(k, e)
    BY DEF SleepInv
  <1>3. /\ cpu.arg + Rounding \in 0 .. MaxUnits /\ MaxUnits \in Nat /\ MaxTime \in Nat
        /\ Into \in Nat /\ Into < pit.period /\ cpu.arg \in Nat
        /\ pit.period \in 1 .. BaseFrequency /\ pit.period \in Nat \ {0}
        /\ Rounding \in Nat /\ Unit \in Nat \ {0} /\ InputSteps \in Nat /\ input \in 0 .. InputSteps
    BY SettledPeriod, TimerAssumption DEF InputInv
  <1>4. PICK w \in Nat \ {0} : w = Weight(pit.period) /\ pit.period * Unit <= w
    BY <1>3, WeightIs
  <1>5. PICK m, n \in Nat :
          m = TicksFor(cpu.arg - Rounding, pit.period) /\ n = TicksFor(cpu.arg + Rounding, pit.period)
    <2>1. cpu.arg - Rounding \in Int /\ cpu.arg + Rounding \in Int
      BY <1>3
    <2>2. TicksFor(cpu.arg - Rounding, pit.period) \in Nat
      BY <1>4, <2>1, TicksAre
    <2>3. TicksFor(cpu.arg + Rounding, pit.period) \in Nat
      BY <1>4, <2>1, TicksAre
    <2>. QED  BY <2>2, <2>3
  <1>6. Requests(k) = k /\ Place = "Test" /\ Due = 4
    BY <1>1 DEF SleepTest, Undisturbed, Deliverable, Requests, One, Place, InHandler, Due,
       ProgrammedInv, CpuTypes, Away, InterruptsOn
  <1>7. m <= k
    <2>1. k * w \in Nat /\ (k * w < cpu.arg - Rounding <=> k < m)
      <3>1. cpu.arg - Rounding \in Int
        BY <1>3
      <3>. QED  BY <1>4, <1>5, <3>1, TicksAre
    <2>2. UpToMaxUnits(k * w) + Rounding >= cpu.arg
      BY <1>1, <1>2, <1>4 DEF Slept, SleptFor, MayNotBeLess
    <2>3. ~(k * w < cpu.arg - Rounding)
      BY <1>3, <2>1, <2>2 DEF UpToMaxUnits
    <2>. QED  BY <2>1, <2>3
  <1>8. (m - 1) * pit.period < elapsed
    <2>1. elapsed = UpToMaxTime(e) /\ (k >= 1 => e >= (k - 1) * pit.period + 1 + Into)
      BY <1>2, <1>6 DEF Slept, SleptFor
    <2>2. CASE m = 0
      <3>1. (m - 1) * pit.period = 0 - pit.period
        BY <1>3, <2>2
      <3>. QED  BY <1>3, <2>1, <3>1 DEF UpToMaxTime
    <2>3. CASE m >= 1
      <3>1. PICK j \in Nat : j = m - 1
        BY <2>3
      <3>2. j * w < cpu.arg - Rounding /\ j * w \in Nat
        <4>1. cpu.arg - Rounding \in Int /\ j < m
          BY <1>3, <3>1
        <4>. QED  BY <1>4, <1>5, <4>1, TicksAre
      <3>3. PICK x \in Nat : x = j * pit.period
        BY <1>3
      <3>4. x * Unit <= j * w
        <4>1. PICK q \in Nat : q = pit.period * Unit
          BY <1>3
        <4>2. q * j <= w * j
          BY <1>4, <4>1, ProductLess
        <4>3. x * Unit = q * j /\ w * j = j * w
          BY <1>3, <3>3, <4>1
        <4>. QED  BY <4>2, <4>3
      <3>5. PICK i \in Nat : i = k - 1
        BY <1>7, <2>3
      <3>6. x <= i * pit.period /\ i * pit.period \in Nat
        BY <1>3, <1>7, <3>1, <3>3, <3>5, ProductLess
      <3>7. e > x
        BY <1>3, <2>1, <3>5, <3>6
      <3>8. x < MaxTime
        <4>1. x * Unit < MaxTime * Unit
          BY <1>3, <3>2, <3>3, <3>4 DEF MaxUnits
        <4>. QED  BY <1>3, <3>3, <4>1, FactorLess
      <3>. QED  BY <1>3, <2>1, <3>1, <3>3, <3>7, <3>8 DEF UpToMaxTime
    <2>. QED  BY <2>2, <2>3
  <1>9. ASSUME pit.period > Latency PROVE elapsed <= (n + 1) * pit.period + Latency
    <2>1. InTime(k, e) /\ elapsed <= e /\ elapsed \in Nat
      BY <1>2, <1>3, <1>9 DEF Slept, SleptFor, UpToMaxTime
    <2>2. e <= k * pit.period + Into /\ (k <= n \/ (k = n + 1 /\ Prompt))
      BY <1>5, <1>6, <2>1 DEF InTime
    <2>3. PICK y \in Nat : y = n * pit.period /\ (n + 1) * pit.period = y + pit.period
      BY <1>3
    <2>4. CASE k <= n
      <3>1. k * pit.period <= y /\ k * pit.period \in Nat
        BY <1>3, <2>3, <2>4, ProductLess
      <3>. QED  BY <1>3, <2>1, <2>2, <2>3, <3>1 DEF Latency
    <2>5. CASE k = n + 1 /\ Prompt
      <3>1. Into <= 4 + InputSteps
        BY <1>3, <1>6, <2>5 DEF Prompt, One
      <3>. QED  BY <1>3, <2>1, <2>2, <2>3, <2>5, <3>1 DEF Latency
    <2>. QED  BY <2>2, <2>4, <2>5
  <1>. QED  BY <1>5, <1>8, <1>9

-----------------------------------------------------------------------------

\* What SetDivisor and SetFrequency (pit.cpp) leave behind: whatever was asked for, in
\* whatever order with interrupts and sleeps, the timer has the divisor the software
\* counts with, and a frequency asked for is reached with the largest such divisor.
THEOREM ProgrammedAsAskedCorrect == TimerSpec => []ProgrammedAsAsked
  <1>1. TimerInit => ProgrammedInv
    BY ProgrammedInitially
  <1>2. ProgrammedInv /\ [TimerNext]_timerVars => ProgrammedInv'
    BY ProgrammedStep
  <1>3. ProgrammedInv => ProgrammedAsAsked
    BY ProgrammedMeans
  <1>. QED  BY <1>1, <1>2, <1>3, PTL DEF TimerSpec

\* How long Sleepd (pit.cpp) takes on a timer that runs as programmed: all the ticks
\* that make up its time as the kernel counts it, and at most one more, wherever in the
\* loop the interrupts of timer and inputs come.
THEOREM SleepLengthCorrect == TimerSpec => SleepLength
  <1>. DEFINE Ends ==
         settled /\ cpu.pc = "Test" /\ cpu'.pc = NoCall =>
           /\ (TicksFor(cpu.arg - Rounding, pit.period) - 1) * pit.period < elapsed
           /\ pit.period > Latency =>
                elapsed <= (TicksFor(cpu.arg + Rounding, pit.period) + 1) * pit.period + Latency
  <1>1. TimerInit => ProgrammedInv /\ InputInv /\ SleepInv
    <2>1. TimerInit => InputInv
      BY TimerAssumption DEF TimerInit, InputInv, NoCall
    <2>. QED  BY <2>1, ProgrammedInitially, SleepInitially
  <1>2. ProgrammedInv /\ InputInv /\ SleepInv /\ [TimerNext]_timerVars
          => ProgrammedInv' /\ InputInv' /\ SleepInv'
    BY ProgrammedStep, SleepKept, InputCounted DEF ProgrammedInv
  <1>3. ProgrammedInv /\ InputInv /\ SleepInv /\ [TimerNext]_timerVars => [Ends]_timerVars
    BY SleepMeans
  <1>. HIDE DEF Ends
  <1>4. TimerSpec => [][Ends]_timerVars
    BY <1>1, <1>2, <1>3, PTL DEF TimerSpec
  <1>. QED  BY <1>4, PTL DEF SleepLength, Ends

====
