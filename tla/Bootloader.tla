----------------------------- MODULE Bootloader -----------------------------
(***************************************************************************)
(* The UEFI application that loads the kernel (bootloader/main.c), and of  *)
(* the firmware what it depends on: the memory map, which every allocation *)
(* changes, and the key that says which map ExitBootServices was given.    *)
(* The map is the set of page frames that are not free; its size is its    *)
(* number of descriptors, the runs of frames of one kind.                  *)
(***************************************************************************)
EXTENDS Integers, Sequences, FiniteSets

CONSTANTS
  Machines,       \* Records: kernel, font, gop, config, NumberOfTableEntries, startsR,
                  \* used, and what AcpiTables reads.
  FrameCount,     \* Page frames of the memory.
  Garbage         \* Values of an uninitialised MapSize.

ASSUME LoaderAssumption ==
  /\ FrameCount \in Nat /\ Garbage \subseteq Nat
  /\ \A m \in Machines : Len(m.config) >= 2 * m.NumberOfTableEntries - 1

VARIABLES
  machine,
  pc,             \* The step of efi_main, and then of the kernel.
  used,           \* The memory map.
  content,        \* The segment of the kernel written last to each frame, or Null.
  phdr,           \* The program header in hand.
  Map, MapSize, MapKey,
  rsdp,
  allocated,      \* History: the segments whose pages were allocated.
  exited          \* History: ExitBootServices accepted the key.

loaderVars == <<machine, pc, used, content, phdr, Map, MapSize, MapKey, rsdp, allocated, exited>>

Frames == 1 .. FrameCount
Null == 0
NoMap == [room |-> 0, taken |-> {}, whole |-> FALSE]

\* The size of the memory map.
Descriptors(u) ==
  Cardinality({f \in Frames : f = 1 \/ ((f \in u) # (f - 1 \in u))})

Pages(s) == s.first .. s.first + s.memPages - 1
FilePages(s) == s.first .. s.first + s.filePages - 1

\* The linker script puts each segment of the kernel on pages of its own.
ASSUME FileAssumption ==
  \A m \in Machines :
    LET segments == m.kernel.segments
    IN  \A i \in 1 .. Len(segments) :
          /\ FilePages(segments[i]) \subseteq Pages(segments[i])
          /\ \A j \in 1 .. Len(segments) :
               i # j => Pages(segments[i]) \cap Pages(segments[j]) = {}

At(step, next) == pc = step /\ pc' = next

\* AllocatePool finds room in a page of the pool or takes a new one.
AllocatePool ==
  \/ UNCHANGED <<used, content>>
  \/ \E f \in Frames \ used :
       used' = used \cup {f} /\ content' = [content EXCEPT ![f] = Null]

mapVars == <<Map, MapSize, MapKey>>
kept == <<machine, rsdp, exited>>

-----------------------------------------------------------------------------
(* efi_main.                                                               *)

LoadKernel ==
  /\ At("LoadKernel", IF machine.kernel.found THEN "ReadHeader" ELSE "EFI_LOAD_ERROR")
  /\ UNCHANGED <<kept, used, content, phdr, mapVars, allocated>>

\* The second GetInfo is given the address of the pointer for a buffer, and writes
\* the file's information over the stack around it.
ReadHeader ==
  /\ pc = "ReadHeader"
  /\ pc' \in {IF machine.kernel.valid THEN "LoadSegment" ELSE "EFI_COMPROMISED_DATA", "Crashed"}
  /\ AllocatePool
  /\ UNCHANGED <<kept, phdr, mapVars, allocated>>

\* Whether AllocatePages succeeds is not looked at: the segment is read to its
\* address in any case.
LoadSegment ==
  /\ pc = "LoadSegment" /\ phdr <= Len(machine.kernel.segments)
  /\ LET s == machine.kernel.segments[phdr]
         granted == s.aligned /\ Pages(s) \subseteq Frames \ used
     IN  /\ used' = IF granted THEN used \cup Pages(s) ELSE used
         /\ allocated' = IF granted THEN allocated \cup {phdr} ELSE allocated
         /\ content' = [f \in Frames |-> IF f \in FilePages(s) THEN phdr ELSE content[f]]
  /\ phdr' = phdr + 1
  /\ UNCHANGED <<kept, pc, mapVars>>

SegmentsLoaded ==
  /\ At("LoadSegment", "LoadPSF1Font")
  /\ phdr > Len(machine.kernel.segments)
  /\ UNCHANGED <<kept, used, content, phdr, mapVars, allocated>>

\* The header is read into the pool before its magic numbers are compared.
LoadPSF1Font ==
  /\ At("LoadPSF1Font", IF machine.font = "psf1" THEN "InitializeGOP" ELSE "EFI_LOAD_ERROR")
  /\ IF machine.font = "missing" THEN UNCHANGED <<used, content>> ELSE AllocatePool
  /\ UNCHANGED <<kept, phdr, mapVars, allocated>>

InitializeGOP ==
  /\ At("InitializeGOP", IF machine.gop THEN "GetMapSize" ELSE "EFI_LOAD_ERROR")
  /\ UNCHANGED <<kept, used, content, phdr, mapVars, allocated>>

\* The first GetMemoryMap has no buffer: it tells the size, unless the size it was
\* given by chance is enough and it only complains of the buffer.
GetMapSize ==
  /\ At("GetMapSize", "AllocateMap")
  /\ MapSize' \in {Descriptors(used)} \cup (IF MapSize >= Descriptors(used) THEN {MapSize} ELSE {})
  /\ MapKey' \in {MapKey, used}
  /\ UNCHANGED <<kept, used, content, phdr, Map, allocated>>

\* A size no memory is left for leaves Map as it is.
AllocateMap ==
  /\ At("AllocateMap", "GetMemoryMap")
  /\ IF MapSize > FrameCount
     THEN UNCHANGED <<used, content, Map>>
     ELSE AllocatePool /\ Map' = [NoMap EXCEPT !.room = MapSize]
  /\ UNCHANGED <<kept, phdr, MapSize, MapKey, allocated>>

\* The second one fills the buffer, unless the allocation of the buffer made the map
\* too big for it.  Its status is not looked at either.
GetMemoryMap ==
  /\ At("GetMemoryMap", IF Map = NoMap THEN "EFI_LOAD_ERROR" ELSE "FindRSDP")
  /\ IF Map # NoMap /\ Descriptors(used) <= Map.room
     THEN Map' = [Map EXCEPT !.taken = used, !.whole = TRUE] /\ MapKey' = used
     ELSE UNCHANGED Map /\ MapKey' \in {MapKey, used}
  /\ MapSize' = Descriptors(used)
  /\ UNCHANGED <<kept, used, content, phdr, allocated>>

\* The loop counts twice: it takes the table of each entry by the GUID of the entry
\* twice as far, and of the signature it compares the first character only.
RSDPMatches ==
  {i \in 1 .. machine.NumberOfTableEntries :
     /\ machine.config[2 * i - 1].guid = "ACPI 2.0"
     /\ machine.config[i].table \in machine.startsR}

\* Printing may allocate, and so change the map.
FindRSDP ==
  /\ At("FindRSDP", "ExitBootServices")
  /\ rsdp' = IF RSDPMatches = {} THEN Null
             ELSE machine.config[CHOOSE i \in RSDPMatches : \A j \in RSDPMatches : j <= i].table
  /\ AllocatePool
  /\ UNCHANGED <<machine, exited, phdr, mapVars, allocated>>

\* ExitBootServices with a key fetched again for it, and the map that was there.
ExitWithFreshKey ==
  /\ At("ExitBootServices", "PrepareACPI")
  /\ exited' = TRUE
  /\ UNCHANGED <<machine, rsdp, used, content, phdr, mapVars, allocated>>

\* The kernel is started whether the key was accepted or not; if it was, the print
\* before that uses a console that is gone.
ExitBootServices ==
  /\ pc = "ExitBootServices"
  /\ exited' = (MapKey = used)
  /\ pc' \in {"PrepareACPI"} \cup (IF exited' THEN {"Crashed"} ELSE {})
  /\ UNCHANGED <<machine, rsdp, used, content, phdr, mapVars, allocated>>

LoaderInit ==
  /\ machine \in Machines
  /\ pc = "LoadKernel" /\ used = machine.used /\ phdr = 1
  /\ content = [f \in Frames |-> Null]
  /\ Map = NoMap /\ MapSize \in Garbage /\ MapKey = {}
  /\ rsdp = Null /\ allocated = {} /\ exited = FALSE

LoaderNext ==
  \/ LoadKernel \/ ReadHeader \/ LoadSegment \/ SegmentsLoaded
  \/ LoadPSF1Font \/ InitializeGOP
  \/ GetMapSize \/ AllocateMap \/ GetMemoryMap
  \/ FindRSDP \/ ExitBootServices

-----------------------------------------------------------------------------

LoaderSteps ==
  {"LoadKernel", "ReadHeader", "LoadSegment", "LoadPSF1Font", "InitializeGOP", "GetMapSize",
   "AllocateMap", "GetMemoryMap", "FindRSDP", "ExitBootServices"}

LoaderFailed == {"EFI_LOAD_ERROR", "EFI_COMPROMISED_DATA", "Crashed"}

\* When the kernel starts after the firmware accepted the key and gave the whole map,
\* the map handed over is still the machine's map, and each segment whose pages were
\* allocated lies in memory that map does not call free, as it was read from the file.
HandedOver ==
  pc \notin LoaderSteps \cup LoaderFailed /\ exited /\ Map.whole =>
    /\ Map.taken = used
    /\ \A i \in allocated :
         LET s == machine.kernel.segments[i]
         IN  /\ Pages(s) \subseteq Map.taken
             /\ \A f \in FilePages(s) : content[f] = i
=============================================================================
