# MatesOS: a TLA+ verification of the kernel's core

MatesOS is a hobby operating system for x86-64: a UEFI bootloader
(`src/gnu-efi/bootloader/main.c`; the rest of `src/gnu-efi` is vendored) and a
kernel in C++ (`src/kernel/src`). This directory models the bootloader and the kernel
in TLA+: memory management, interrupts and input, the timer, the screen, device
discovery, the AHCI driver and the firmware's tables. TLC checks the models on small
machines; TLAPS proves, for machines of every size and runs of every length, the page
frame allocator, the heap and the page tables with the abstract specifications they
implement, the memory the boot lays out over both, the safety of the PS/2 input, of the
screen and of device discovery, the bootloader's hand-over, the kernel's reading of the
firmware's tables, and the timer's divisor and the length of a sleep.

Every definition is a translation of code; `PROJECT.json` maps each one to its
lines. Operators introduced by a comment of the form "X without ..." or "X with
... forgotten" are planted bugs: no specification uses them, they exist to show
that a property notices when the code is changed that way.

## 1. Inventory

### 1.1 Components

| component | state it keeps | operations |
|---|---|---|
| page frame allocator (`memory_management/PageFrameAllocator`, `utils/Bitmap`, `utils/efiMemory`) | bitmap, four byte counters, next-fit cursor, `Initialized` | `ReadEFIMemoryMap`, `RequestPage`, `FreePage(s)`, `LockPage(s)`, `ReservePage(s)`, `UnreservePage(s)` |
| page table manager (`PageTableManager`, `paging`, `PageMapIndexer`) | the tree of tables in memory, `PML4` | `MapMemory`, `IndentityMapMemory` (page, range), `WalkMemory`, `UnmapMemory`, `RemapMemory` |
| kernel heap (`heap`) | segment headers in memory, `heapStart`, `heapEnd`, `LastHdr`, `usedPages` | `CreateHeap`, `malloc`, `calloc`, `free`, `Split`, `CombineForward/Backward`, `ExpandHeap`, `WalkHeap` |
| kernel initialisation (`kernel.cpp`, `utils/kernelUtil`) | none of its own | the boot sequence, `PrepareMemory`, `PrepareInterrupts`, `PrepareACPI` |
| interrupts and PIC (`interrupts`) | the IDT, the PICs' masks and in-service bits | handlers for IRQ 0, 1, 12 and three faults, `RemapPIC`, `PIC_EndMaster/Slave` |
| PS/2 mouse and keyboard (`userinput`) | packet, cycle, `skip`, ready flag, position; shift flags | `InitPS2Mouse`, `HandlePS2Mouse`, `ProcessMousePacket`, `HandleKeyboard` |
| timer (`scheduling/pit`) | `TimeSinceBoot`, `Divisor` | `Tick`, `Sleep(d)`, `SetDivisor`, `SetFrequency` |
| AHCI driver (`ahci`) | ports, command list, tables (shared with the controller) | probing, `Configure`, `StartCMD`, `StopCMD`, `Read` |
| PCI scan and driver manager (`PCI`, `utils/driver`) | device table (32), driver table (512) | enumeration, `add_driver`, `activate_all`, `get_by_index` |
| ACPI, MADT, FACP (`acpi`, `apic/madt`, `facp`) | tables of the firmware, `s_madt_info`, power-off registers | table search and enumeration, `MADTInit`, `InitFACP`, shutdown |
| renderer and statistics screen (`renderer`) | text cursor, cursor overlay buffers | `Print`, `Scroll`, overlay draw and clear, `ShowOSStats` |
| panic and helpers (`utils/panic`, `utils/helpers`) | none | `Panic` (interrupts off, halted for good), checksum |
| bootloader | the boot information handed to the kernel | load kernel and font, memory map, `ExitBootServices` |
| libraries, CPU, GDT, port I/O, APIC registers | none | straight-line code |

### 1.2 Interactions

* Boot is one sequential program: bootloader, `InitializeKernel`
  (`PrepareMemory`, `CreateHeap`, `PrepareInterrupts`, `InitPS2Mouse`,
  `PrepareACPI`, drivers), then `sti` and a loop of `hlt`.
* `MapMemory` asks the frame allocator for tables; the heap asks it for pages
  and asks `MapMemory` to map them; the AHCI driver asks it for the frames it
  shares with the controller. The three memory components meet in the frames.
* The tables, the heap's headers and the bitmap live in the memory they
  manage. Two stray writes leave it: the heap stores into a header at address
  0, and a page table is put at address 0 when there is no frame for it.
* From `sti` on, interrupt handlers run between any two instructions of the main
  loop and share with it the mouse packet, the time and the renderer. No
  handler allocates memory.

### 1.3 What is hard, and what makes each component correct

* *Frame allocator*: a cursor that only moves forward, so everything that clears
  a bit must pull it back; three unsigned counters updated by six operations over
  overlapping ranges; a bitmap of whole bytes with one byte too many, whose bounds
  are off by one; an initialisation whose four steps overlap. Correct if a request
  is refused only when nothing is free, no page is handed out twice, nothing but
  usable memory is ever served and the counters agree with the bitmap.
* *Heap*: pointer surgery in three functions, unsigned arithmetic on lengths,
  recursion through an expansion that can fail half-way. Correct if the list is
  intact and coalesced, blocks do not overlap, memory is accounted for and every
  call returns.
* *Page tables*: tables made on demand and shared between pages, no check for a
  refused frame. Correct if a call changes the translation of the page it names
  and of no other.
* *Boot composition*: the identity mapped range and the frames that can be served
  are computed separately; the framebuffer is locked after tables were allocated.
  Correct if kernel, bitmap, tables, framebuffer and heap keep apart and are mapped.
* *Interrupts and PS/2*: one output buffer for two devices, polling that times
  out, a packet stream that can lose synchronisation, acknowledgement of two PICs.
  Correct if no request is lost, each handler reads its own device's bytes, and what
  the devices send arrives.
* *Timer*: a tick between the test of a sleep and its halt; handlers of the inputs, which
  delay ticks; ticks that count as a fraction of a second which is not the period's
  length; a divisor in use by the software before the hardware has it. Correct if sleeps return, with the length their
  ticks give them.
* *Screen*: the pointer is drawn into the text, which changes under it. Correct if
  it leaves no trace and nothing is printed outside the screen.
* *PCI and AHCI*: fixed-size tables; unbounded waits for a controller that runs
  concurrently, on memory the driver exchanges. Correct if no port is reprogrammed
  while it works, no two share memory, and every port settles.
* *Firmware*: a memory map that every allocation changes, tables walked by their own
  lengths. Correct if the map handed over is the machine's and the tables are
  read as written.

`PROJECT.json` lists the hazards one by one, each at its line, with the properties
that would notice it going wrong, or with a note that says why none does: the model
does what the code does there, and a premise of the properties leaves it out (section 6).

## 2. Plan

| # | module | about | composes, implements | status |
|---|---|---|---|---|
| 1 | `PageFrameAllocator` | the bitmap allocator | implements `PagePool` | done, proved |
| 2 | `Heap` | the segment list | implements `HeapBlocks` | done, proved |
| 3 | `PageTable` | the table tree | implements `AddressSpace`; takes its frames as `PagePool` serves them | done, proved |
| 4 | `PS2Input` | 8042 buffer, IRQ 1 and 12, PICs, packet assembly, polling with timeouts | | done, proved |
| 5 | `BootMemory` | `PrepareMemory` and `CreateHeap` in order, over one memory | instances of 1 and 3 | done, proved |
| 6 | `PciScan` | enumeration, driver manager | | done, proved |
| 7 | `Ahci` | port configuration and the read command against controllers that run concurrently | | done, proved |
| 8 | `Devices` | the scan, the activation of what it found, reads | 6 and 7 | done, proved |
| 9 | `Timer` | sleep against tick, divisor arithmetic | | done, proved |
| 10 | `Screen` | text, the pointer over it, the pointer's arithmetic | | done, proved |
| 11 | `Bootloader` | loading the kernel, memory map protocol | | done, proved |
| 12 | `AcpiTables` | root table, FACP, MADT, shutdown and restart | 11 | done, proved |

Runs: one per component or composition for its invariants, refinement and (heap,
input, timer, devices, firmware) liveness, on the smallest machine that reaches
every branch; one per disagreement between the code and what it says of itself.

Proofs, in this order: the allocator with its refinement of `PagePool`; the
bootloader's `HandedOver`; the drivers' `OnlyIdlePortsReprogrammed`; the screen's
cursors; the heap with its refinement of `HeapBlocks`; the page tables with their
refinement of `AddressSpace`; the input's four safety properties; the pointer over the
text; the scan and the ports it starts; that nothing overlaps in the boot's memory and
everything in it is reachable; that the heap loses no unit; that the firmware's tables
are read as they are; the timer's divisor and the length of a sleep. All are done: every
invariant and action property a passing run checks is a theorem. No module uses `RECURSIVE`.

## 3. The modules

### PagePool and PageFrameAllocator

`PagePool` is the promise: a pool of frames; a request takes the lowest free one
and is refused only when there is none.

`PageFrameAllocator` is the code. `g_Allocator` is the object: `bits` is the set
of the bitmap's indices that are 1, `pageBitmapIndex` the global cursor,
`totalMemory` and the others the byte counters, counted in pages modulo
`CounterSpan` (2^52 pages in the kernel, as they are 64-bit). `Get` and `Set`
accept the index `Size * 8`, one past the last bit; that bit is in whatever the
byte behind the buffer held, which is chosen by `stray` (the byte lies in a page
that is locked with the bitmap, so nobody else writes it). `reserved` records
for each set bit which category counted it. `MapRead` is `ReadEFIMemoryMap` after
its checks, four operations in the code's order: reserve everything, release
conventional memory, reserve the first MiB, lock the bitmap's own pages.
`LockPages`, `ReservePages`, `FreePages` and `UnreservePages` are operators on the
object for a set of pages (the code loops over them; no page is named twice and
the counters commute), from which the actions `Lock`, `Reserve`, `Free` and
`Unreserve` are built. Calls name any run of pages up to one behind the last
accepted index. Two guards express what callers do: they free only what they were
given (or what is already free), and release only conventional memory nobody took.
`held` and `returned` are history.

`Panic` halts: the maps the kernel rejects end in `panicked`, where nothing is
enabled, hence `CHECK_DEADLOCK FALSE`.

### HeapBlocks and Heap

`HeapBlocks` is the promise: blocks that do not overlap, do not move and keep
their size until released.

`Heap` is the code, in units of 16 bytes (the granularity `malloc` rounds requests
up to). `heap.seg` maps the address of each header in the list to its fields;
`nullLast` is the `last` field of a header at address 0, which is identity mapped
memory and which `Split` writes when the segment has no successor. `malloc` is
split at its loop: `Request`, then `NextSegment` until `TakeSegment` (first fit,
with the second subtraction of the header, unsigned) or `StartExpansion`, `MapPage`
once per page, `ExpansionFails` at any page (other users empty the allocator) or
`FinishExpansion`, after which the search starts over as the recursive call does.
`free` with both combinations is one action. `calloc` clears the size asked for;
if the block is shorter it overwrites the next header and the model stops in
`smashed`. `live`, `lost` and `expansions` are history. `WalkHeap` only prints;
`new` and `delete` are `calloc` and `free`. Requests of size 0 and `free(NULL)`
return at once and change nothing. Callers free each block once.

Fairness is `WF_vars(HeapStep)`: the kernel has one processor and no thread, and no
interrupt handler calls the heap, so a call that was entered keeps executing.
Nothing is assumed of the callers: no request is ever forced, and an expansion may
always fail.

### AddressSpace and PageTable

`AddressSpace` is the promise: a partial map from pages to pages, each call changing
the page it names.

`PageTable` is the code. `mem` maps the frames used as tables to their contents; an
entry is its Present flag and its address, since no other flag is ever read.
`WithTable` is one level of `MapMemory`, three of which are followed by the leaf.
`IndentityMapMemory` on a range is a run of steps (`StartIdentityMap`,
`IdentityMapPage`, `EndIdentityMap`); `MapRequested` is how the heap maps a page it
has just requested. Frames are served as `PagePool` serves them. When none is left
`RequestPage` returns NULL, which `MapMemory` does not test: the table is put at
frame 0. Frame 0 is reserved, so one table there still works; a second one wipes
it. `refused` counts them, the promises are made for at most one (`Intact`) and the
model stops after the second, hence `CHECK_DEADLOCK FALSE`.

### PS2Input

Boot and handlers of the mouse and the keyboard, run concurrently with the hardware.
`InitPS2Mouse` is a sequence of port accesses and waits, written as in the code and
executed one instruction a step (`Out`, `In`, `Wait`); a wait may time out although
the answer is still to come. Afterwards the kernel unmasks IRQ 1 and 12, executes
`sti` and halts between interrupts. A handler is taken (`Interrupt`), reads port
0x60 (`ReadData`), and does the rest with its end of interrupt
(`KeyboardInt_Handler`, `MouseInt_Handler`); the gates are interrupt gates, so no
handler interrupts another, but bytes and requests arrive in between. Until `sti`
interrupts are taken to be off, as the comment there says.

The controller, the interrupt controllers and the devices are external. The output
buffer is one byte for both devices and keeps its last byte when it was read. A
request is latched on the rising edge of its line and kept when the byte is polled,
as the emulator the Makefile runs the kernel in does; `skip` in `HandlePS2Mouse`
relies on it. The firmware may leave a key in the buffer whose edge `RemapPIC`
dropped. A scancode taken for the status byte switches on and off what its bits say.
Of a packet the places of its bytes and their bit 3 are kept, not the distances.

`disturbed` records that a key was pressed or the mouse moved before the kernel had
settled (interrupts on, stale requests served, first byte skipped), or that a wait
timed out. `NoLostRequest`, `SettledForGood` and `BufferDrains` hold in any case.
`PacketsWhole`, `KernelCatchesUp` and `InputArrives` are about
undisturbed boots, and not true otherwise: a key pressed during the boot is taken for
an answer of the mouse, shifts the answers, and can end up as the controller's
configuration.

Fairness is `WF_vars(KernelStep)`, the processor executing on and taking interrupts,
and `WF_vars(ControllerStep)`, the controller moving its bytes. Nobody has to touch
the devices; when nobody does, everything stops, hence `CHECK_DEADLOCK FALSE`.

### BootMemory

`PrepareMemory` and `CreateHeap` as the kernel runs them, in one memory: an instance of
`PageFrameAllocator` and one of `PageTable` over shared variables, of which the actions
of this module are the calls in order. `IdentityMap` maps a page a step and requests
the tables it needs from the allocator; `LoadCR3` makes the processor translate with
them, from where an access to a page that is not mapped ends in `PageFault`. The code
maps as many pages as the descriptors of the memory map add up to, from the first
descriptor on. With a hole in the map that is too short: memory behind it can be served
and not be reached, and `EverythingReachable` says exactly how far it holds. That the
first descriptor is the lowest (`Ordered`) is what the firmware usually does. What the
addresses chosen by the linker script, the kernel and the firmware amount to is
`Addressable`: memory begins low and the kernel lies in it, the tables have an entry for
every page that is mapped, and the heap's addresses (`HeapStart` on) are those of no
memory and of no framebuffer (`IdentityMapped`). Every machine of the run is both, and
some of them end in a page fault.

`WellPlaced` is what the code relies on without a test: kernel and framebuffer apart and
outside conventional memory, which is the loader's and the firmware's part; room for the
bitmap in the largest conventional part; and no framebuffer among the up to seven pages
behind the last one that only the bitmap's last byte counts. These may be requested for
a page table before the framebuffer is locked. Every machine of the run that
gets past its memory map is well placed.

### PciScan, Ahci and Devices

`PciScan` is `EnumeratePCI` with its loops over segments, buses, devices and functions,
one iteration a step, and the driver table it fills. A configuration space is named by
where it is; `FunctionAt` is the second way the code has to find one. The scan leaves out
the last bus of each segment (`<` instead of `<=`), and so does the look-up.
`get_by_index` is total once there is a driver; without one its comparison wraps and it
returns what is in the table, or behind it (`"behind the table"`).

`Ahci` is the driver of a controller. Its ports' registers are shared with the controllers,
which are external and may at any time start, stop, complete or fail what `st`, `fre` and
`ci` tell them to. The firmware may have left a disk's port running. `Configure` is
followed register by register: `StopCMD_ST`, `StopCMD_FRE`, `StopCMD_Wait`, then the
command list, received frames and tables, each with a frame that may be refused, then
`StartCMD`. Read is modelled for callers that pass what it needs, although nothing in the
kernel calls it yet. What the code does that a reader may not expect, and the
properties therefore exclude or state:

* the command list is cleared through the low 32 bits of its address (`Low`); from 4 GiB
  on other memory is cleared. `StartedPortsAreComplete` and `OnlyIdlePortsReprogrammed`
  are promised while frames below last (`AllLow`);
* the table of slot i is put i times 256 bytes behind the start of the frame requested
  for it (`TablePlace`), from slot 16 on in the next frame, which may be anyone's. What is
  cleared is the start of the frame, as much as a table takes: the table itself for slot 0
  only. `cleared` is the set of frames cleared so far, and `StartedPortsAreComplete` says that a
  cleared start is where the list, the received frames and the table of slot 0 are; of the
  other tables it says that they have a frame each. Only slot 0 is used;
* a failed command leaves the port halted, with its error returned; nobody clears `st`,
  so the next read waits for ever. `ReadReturns` is about ports that are not halted;
* registers of ports 30 and 31 are in a page the driver does not map (`PageFault`);
* the power state is taken modulo 7 instead of masked, so DevSleep passes for active.

`Devices` composes them: the scan, then `activate_all`, then reads, with the controllers
at work from the start. Fairness: the kernel runs on (`Scan`, `activate_all`,
`ReadContinues`), and so does each controller: that it acts on its registers in the
end is what the unbounded waits rely on. Nobody has to read.

### Timer

`Sleepd` is its test, its `hlt` and the test again; the handler is `PITInt_Handler`,
`Tick`, `PIC_EndMaster`, `Iret`, and may come between any two. Periods are counted in clocks
of the interval timer, an external counter that takes its new period when the one in
progress is over. An interrupt that can be delivered goes before the next step, and the
processor makes at least one step in a clock (`ran`), unless it halts: that is what
makes "how long" a question.

The kernel's time is another matter. Each tick adds 1 / `GetFrequency()` seconds, a double,
with a frequency that is rounded down: a fraction of a second that is no whole number of
clocks and mostly more than the period. With divisor 60 a tick lasts 60 clocks and counts as
1193182 / 19886 = 60.0011 of them, so that a sleep of 10 seconds is over after 198,860 ticks and
is a little short. `TimeSinceBoot` is therefore counted in units, `Unit` of them to a clock,
such that the `Weight` of every divisor's tick is a whole number of units (a common multiple of the
frequencies serves; `TimerAssumption` says no more). What the additions of doubles
lose or gain during a sleep is at most `Rounding` units, and the test may go either way
where that decides (`MayBeLess`, `MayNotBeLess`). How much that is depends on how long the
machine has run: half a unit in the last place of `TimeSinceBoot` for each tick.
`SleepLength` gives the clocks a sleep takes in terms of the ticks it needs
(`TicksFor`), for every `Unit` and `Rounding`.

The other interrupts the kernel unmasks are those of keyboard and mouse. `PS2Input` models
what they do; here they are steps with interrupts off, which hold up a tick and wake a
processor that halts (`InputInterrupt`, `InputRuns`, `InputReturns`). In one period they take
at most `InputSteps` steps, however they are divided among handlers. A real device needs
0.6 ms for a byte, and a period is 84 microseconds at most with the divisors `SetDivisor` lets
through: the steps of one byte of each device are enough. An emulator may deliver what its
devices have queued at once; `InputSteps` is a constant without a bound, so that `SleepLength`
holds there too, with a `Latency` to match.

`SetFrequency(0)` divides by zero, an exception without a gate of its own, which the model
takes for the kernel's end. `SetDivisor` lets divisors down to 1 through: with a period
shorter than the handlers (`Latency`, in steps, which counts those of the inputs too)
interrupts are all the processor does, and a sleep does not return. `SleepReturns` and the upper
bound of `SleepLength` are not about such periods.

Fairness: the processor runs on (`SetStep`, `SleepStep`, `Handler`, `InputStep`) and so does
the clock. Nobody has to type or to move the mouse.

### Screen

The frame buffer as the function it is, from places in memory to colours. Printing,
`Scroll`, `ClearChar` and `ClearScreen` change it cell by cell, `ProcessMousePacket` puts
back what was under the pointer, where the screen still shows the pointer's colour, and
draws it again. `text` is history: what was printed last in each cell, and so what the
screen should show. Two things lose the pixels under the pointer: to scroll with the
pointer drawn (it is scrolled as if it were text, with the next movement it stays), and to
print in the pointer's own colour over it. The model stops there (`smeared`). The
code's oddities: 256 - byte is computed in a byte, so the most negative movement moves
nothing; an overflow bit adds 255; `ClearChar` at the very first place of the screen
erases the last one of that line; a first cursor outside the grid is ignored.

### Bootloader and AcpiTables

`Bootloader` is `efi_main`. Of the firmware it has the memory map: the set of frames
that are not free, whose size is its number of descriptors and which is its own key.
Every allocation may take a new frame and so change both. The code does not look at the
status of `AllocatePages`, `Read`, `GetMemoryMap` and `ExitBootServices`; what happens
then is followed:

* the second `GetInfo` writes the file's information over the stack around a pointer (the
  model goes on, or crashes);
* a segment whose pages were refused is read to its address all the same;
* the first `GetMemoryMap` is given whatever `MapSize` was (`Garbage`); the allocation
  of the buffer may make the map one descriptor too large for it, whereupon the buffer
  stays unfilled;
* the loop over the configuration tables counts twice, so entry i is found by the GUID
  of entry 2i, read from behind the table if need be, and of the signature `strcmp` compares
  the first character only (`RSDPMatches`);
* a print after the map was read may change it; the refused `ExitBootServices` is ignored
  and the kernel started.

`HandedOver` says what is left of the protocol's promise in spite of all this.

`AcpiTables` goes on with the kernel: `PrepareACPI`'s search, `InitFACP`, the walk over
the MADT, shutdown and restart. A table is a record at an address; an address that is no
table faults. What is followed: `strcmp` stops at a zero, so a blank signature answers any
search; the root is tested for null after it was read; the search for `_S5_` covers twice
the table's bytes, and a match at its last place passes for none; when `InitFACP` returns
early the reset flag stays unset and `Reboot` writes nothing; `Shutdown` writes the sleep types
only if `SCI_EN` was set, and then, in any case, three values to the ports of virtual machines
(`Backup`); the machine may go off at each of these writes, and when it is still on after the
last the processor runs into `__unreachable_code` (`Panic`); the MADT is walked by the
length each record states (zero: for ever) up to an unsigned difference that wraps for
a table shorter than its header; the tables of `MADTInformation` are not bounded: a
record too many lands on the table's own counter (`Store`), the next one anywhere
(`Corrupted`). `IO-APIC` addresses are mapped by the page table manager, here the set `mapped`.

`TablesRead` compares what the walk leaves with the MADT itself. A MADT is `Regular` if its
records follow one another without a gap up to its end, none is of length zero, and there
are no more of a type than `MADTInformation` has room for; the record that starts at an
offset has then a place among those of its type (`Number`), and is found at that place of
the kernel's table. Of a MADT that is not regular, of which the run has eight, nothing is claimed.
`ports` is the sequence of writes made, and `TablesRead` says what they can be: the reset
register of the FACP; or the sleep types of its DSDT, followed by the backup; or, only
when the DSDT has no package `_S5_` in its own bytes, the backup alone.

`BootEnds` says that every boot comes to an end, with the kernel running or stopped, unless
it stays for ever at a record of length zero of a type the walk does not store
(`AtEndlessRecord`). One of a type that is stored fills its table until the walk faults.

Fairness: `WF_vars(Loader)` and `WF_vars(Kernel)`, one processor running one program.
Nobody has to shut down.

## 4. What the runs check

| run | states | result |
|---|---|---|
| `page_frames` | 23,598 | `TypeOK`, `NothingFreeBelowCursor`, `CountersMatchBitmap`, `ServedPagesAreUsable` and the refinement `ImplementsPool` hold |
| `heap` | 169,538 | `TypeOK`, `ChainIntact`, `Coalesced`, `HeapAccounted`, `BlocksMatchSegments`, `AtMostTwoExpansions`, the refinement `ImplementsBlocks` and the liveness `MallocReturns` hold |
| `page_table` | 48,399 | `TypeOK`, `TablesAreATree`, `WalkAgrees`, `IdentityRunComplete` and the refinement `ImplementsAddressSpace` hold |
| `ps2_input` | 865,429 | `NoLostRequest`, `PacketsWhole`, `KernelCatchesUp`, the action property `SettledForGood` and the liveness `BufferDrains`, `InputArrives` hold |
| `boot_memory` | 13,900 | `NothingOverlaps` and `EverythingReachable` hold |
| `devices` | 26,797 | `ScanMatchesLookup`, `StartedPortsAreComplete`, the action property `OnlyIdlePortsReprogrammed` and the liveness `PortsSettle`, `ReadReturns` hold |
| `firmware` | 184,892 | `HandedOver`, `TablesRead` and the liveness `BootEnds` hold |
| `screen` | 43,407 | `CursorsInBounds`, `PointerLeavesNoTrace` and the action property `PointerFollowsMouse` hold |
| `timer` | 1,120,615 | `ProgrammedAsAsked`, the action property `SleepLength` and the liveness `SleepReturns` hold |
| `free_ram` | | `FreeRAMIsRequestable` is violated |
| `heap_short_block` | | `BlocksHoldRequest` is violated |
| `heap_null_header` | | `SplitStaysInHeap` is violated |

Bounds, and why they are enough:

* `MCPageFrameAllocator`: five maps. One without a hole whose bitmap has a tail
  page; one with a hole, a full last byte and a conventional page exactly at the
  index one past the last bit; and the three kinds of map the kernel rejects.
  `LowPages = 1` so that page 0 is low memory, `PageBytes = 2` so that the bitmap's
  size in pages is not the same as in bytes, `CounterSpan = 64` above every count
  that does not wrap, calls of one or two pages so that ranges overlap and pass the
  end.
* `MCHeap`: pages of six units, one to start with and at most three; requests of
  one unit (smallest), four (a whole page minus its header) and seven (two pages,
  and a first expansion that is too small). All splits, both combinations, segments
  shorter than a header, failures at the first and at a later page, and a second
  expansion occur.
* `MCPageTable`: two entries per table, four levels, so 16 pages; callers use four
  pages that share all, three and one of the tables. Seven tables are needed and
  six frames are there: both the table at frame 0 and the wiped one are reached.
  The physical pages callers name include page 0, the root table and a frame of
  the pool, which the identity mapping of all memory makes legal.

* `MCPS2Input`: a shift key and Escape, two changes of keys (a press and its release)
  and two movements (so that one packet follows another, which is what processes
  it). Keys of which bit 3 is set and clear, configurations that switch the mouse or
  the keyboard's interrupt off, and shutdown in a handler all occur, before, during
  and after the boot. The mouse reports a movement when it has sent the last one.
* `MCBootMemory`: tables of four entries, four levels; memory from two to seven times
  what one table maps, a first descriptor at 0 or 1, with and without a hole and a
  reserved part, the framebuffer in the reserved part, in the hole or far away. Frames that
  run out before the first table, amid the mapping and amid the heap, memory behind a
  hole, and a page fault occur.
* `MCDevices`: every set of functions on two buses of two devices of two functions;
  device and driver tables that overflow; two ports with disks, on one controller and on
  two; no frame to enough frames for two ports, a command list beyond `LowFrames`; slots
  of which one is not in the frame requested for it.
* `MCTimer`: twenty clocks in a second, three units to a clock; divisors whose ticks count as
  more than their period (6, with 6 2/3 clocks; 8 and 9, with 10) and as their period (10, the
  first one), beyond the clamp and below the handlers' length; two steps of the inputs
  in a period; sleeps of no, some and many ticks, with one unit of rounding; the firmware's own
  period. `MaxTime` is above the longest sleep with its slack.
* `MCScreen`: two by two characters with a column and a line left over, memory wider
  than the screen; a pointer of three pixels, cut off at two edges; bytes of three bits
  with their sign and overflow; two colours, one the pointer's.
* `MCFirmware`: seven frames, two segments, a map of two to six descriptors; files,
  fonts, configuration tables and firmware tables of which one thing at a time is
  unlike usual; tables of `MADTInformation` that take one record (two processors),
  exactly filled, one over and two over; a `size_t` of four bits.

The three violations are disagreements the code has with itself:

1. **"Free RAM" is not what can be requested.** `freeMemory` starts as the P pages
   of memory, but `ReservePages(0, totalPages)` reserves and counts P + 1, and up
   to seven bits at the bitmap's end are requestable but counted nowhere.
2. **A 16-byte segment answers any request.** `Split` may leave a free segment of
   16 bytes; `malloc` subtracts the 32-byte header from its length in unsigned
   arithmetic and takes it for one of almost 2^64 bytes. `calloc` then clears
   memory past its end. `BlocksMatchSegments` says exactly how far the promise
   holds: a block is shorter than asked only if it is shorter than a header.
3. **Splitting the last segment writes through NULL**, at the very first `malloc`.
   Page 0 is identity mapped, so nothing faults, but it is also where
   `MapMemory` puts a table when there is no frame.

## 5. What is proved

### The page frame allocator

`PageFrameAllocator_proofs` proves, for every set of memory maps, every size of
page, of low memory and of counters, and runs of any length:

* `TypeCorrect`, `CursorCorrect`, `CountersCorrect`, `ServedCorrect`:
  `Spec => []P` for the four invariants the run checks;
* `PoolRefinement`: `Spec => ImplementsPool`.

The assumptions are those the module names: memory maps are sequences of
descriptors with natural start and length (`MapsAssumption`) and the sizes are
positive (`SizesAssumption`).

The inductive invariant is the conjunction of the four. They need each other: that
the cursor may skip to the lowest clear bit needs the bits to be within the accepted
indices; that a freed page is usable needs `held` to be contained in what can be
served and disjoint from `reserved`; that freeing is counted in the right counter
needs the same. Lemmas establish once what `LockPages`, `ReservePages`, `FreePages`
and `UnreservePages` do to a well-formed object; `MapRead` is four applications of
them; each action is then one step of the induction. Counters are handled by lemmas
on `%`: adding the cardinality of newly set bits modulo the span is the cardinality
of the union modulo the span. The refinement maps each action to one of `PagePool`'s
or to a stutter; that a request takes the LOWEST free page is where
`NothingFreeBelowCursor` is used, since the code looks only from the cursor up.

### The heap

`Heap_proofs` proves, for every size of page, of request and of heap, and any sequence of
calls: `Spec => []P` for `TypeOK`, `ChainIntact`, `Coalesced`, `BlocksMatchSegments`
`HeapAccounted` and `AtMostTwoExpansions`, and `HeapRefinement`, `Spec => ImplementsBlocks`. The only
assumption is `HeapAssumption`.

First the lemmas about the operators on the list, each for a list of any length:
`Split`, `Merge`, `CombineForward` and `CombineBackward`, freeing, taking and extending
keep a list a list (it tiles its stretch of memory, each header's links name its
neighbours) and leave every other segment as it was. Over them stands

    HeapInv == ListInv /\ CallInv /\ LiveInv /\ ExpansionInv

`ListInv`: the segments tile the mapped pages, no two neighbours are free. `CallInv`:
what the call in progress is doing, so that the place a search has reached is still a
segment and what an expansion has mapped so far lies behind the end. `LiveInv`: the
segments in use are the blocks handed out. `ExpansionInv` is what
`AtMostTwoExpansions` needs: after one expansion the last segment holds the request
without its header, after two with it. The refinement maps a step to an acquisition, a
release or a stutter; that the new block overlaps no other is the tiling.

`HeapAccounted` adds lengths, over a list that two operations in three change at two
places. It counts the segments' units as a set of pairs, a segment and a place in it
(`SegmentUnits`), and not with a fold, so that facts about cardinality answer for any
number of segments. `OneIsTwo` is the step all the operations share: if one segment
becomes two, what it loses in length is the new one's length and header; a merge is the
same read backwards. `AccountInv`, inductive next to `HeapInv`, is the equation with
the units known to be finitely many.

### The page tables

`PageTable_proofs` proves, for tables of any size and any pool of frames, `Spec => []P`
for `TypeOK`, `TablesAreATree`, `WalkAgrees` and `IdentityRunComplete`, and
`PageTableRefinement`, `Spec => ImplementsAddressSpace`, under `PageTableAssumption`.

`PageTableInv == TreeInv /\ RunInv`. `TreeInv` distinguishes how many tables were put at
address 0: none or one (`Sound`), in which case the tables have levels, every present
entry above the leaves names a table one level down, no table has two parents, none is
lost, and the free frames are none of them; or two (`Broken`), after which the model
stops. `RunInv` says which pages an identity mapping in progress has done. That one
operation changes the translation of no other page is the strengthening put to use:
two pages' walks part at some level, and from there on their tables differ
because the tree has no table twice. The indices are taken out of a page
number by division and modulo; lemmas of their own establish that the four of them
determine the page.

### The boot's memory

`BootMemory_proofs` proves `NothingEverOverlaps`, `Spec => []NothingOverlaps`, for every
machine (any memory map, kernel and framebuffer), tables of any size and any heap:
under `WellPlaced`, kernel, bitmap, page tables, framebuffer, heap and what can still be
requested share no page, at any step of the initialisation. And it proves
`EverythingIsReachable`, `Spec => []EverythingReachable`: with an `Ordered` map and
`Addressable` memory, what is used or can still be requested is identity mapped from the
moment the processor uses the tables, as far as the map's sizes reach, and no access
faults but for what lies beyond. The assumption of both is `MachinesAssumption`: the maps
are sequences of descriptors, the sizes positive, the tables' sizes those of `PageTable`.

`BootInv` says that what is free may be served (`ServablePages`: neither low memory nor
the bitmap), that tables and heap were taken from it and are apart from each other, and
that from the second step on none of it is the kernel. It speaks of all clear bits
(`Free`), not only of those the cursor has still to pass, so that the cursor needs no
argument. Two groups of lemmas carry it: what locking does to the free bits, and that
`Mapped` adds those frames to the tree that it takes from the pool, NULL apart (`Grows`),
whatever the tables say. The second holds after a refused request too. The framebuffer needs
no part in the invariant: nothing that may be served is a page of it, so it does not
matter that it is locked late.

The second theorem reuses the proofs about page tables: `BootMemory_proofs` has an instance of
`PageTable_proofs`, whose lemmas about mapping one page (`MappedStep`, `WalkTranslates`)
take the root and the frames as arguments. `ReachInv`, inductive next to `BootInv`, has three
parts. `Basics`: the tables are a tree, and nothing in use is below the first descriptor, so
that the run of pages mapped from there on is the only thing to look at (`UsedAbove`).
`Covered`: what the step in progress has mapped is mapped, one page more in each step, and
stays so: each of `IdentityMap`'s steps, the framebuffer's and the heap's change the
translation of the page they name only, and the heap's pages are no memory. `NoFault`: a
fault is an access to a page that lies beyond the map's sizes.

### The PS/2 devices

`PS2Input_proofs` proves `NoLostRequest`, `SettledForGood`, `PacketsWhole` and
`KernelCatchesUp` under `InputAssumption`, for any number of keys and movements in
any order of devices, controller, boot and handlers.

Two of them hold whatever the devices did while the kernel booted, and rest on
`Basic`: which instruction the boot is at, with what may be pending there (`Phases`:
nothing is handled before `sti`, towards the end only one acknowledgement can
still be on its way, the machine is switched off only in the keyboard's
handler), and `Requested`: from the first byte read by polling, each line that is up has
its request latched.

The other two are about undisturbed boots, whose invariant is a story in four parts,
one of which is always going on (`Undisturbed`). `Boot`: each command, its answer and
the byte they leave are where the program's position says. `Stale`: the boot's requests are
being served, the handlers read the last acknowledgement again, and the first byte is
dropped by `skip`. `Flow`: of the bytes in the queue, the buffer and the handler each
continues the packet where the one before it ended, what the kernel has shown, what is
ready and what is on its way add up to what was moved (`MouseFlow`), and
the last scancode on its way about each shift key, or else the kernel's flag, says
whether it is down (`KeyFlow`). `Off`: the keyboard's handler shut the machine down.

### The bootloader and the firmware's tables

`Platform_proofs` proves `HandedOverCorrect`, `Spec => []HandedOver` of `AcpiTables`:
for every machine, file, number of frames and memory map, whatever the firmware
allocates in between, a kernel started after the firmware accepted the key and gave the
whole map has the machine's own memory map, and every segment allocated for it lies
whole in memory that map reserves. (The code calls the kernel in the other cases too;
of those the property says nothing.) It rests on `FileAssumption`: what a file holds of
a segment fits its pages and segments do not overlap, which the linker script sees to.

The property speaks of the moment of the call; the invariant `LoaderInv` carries what
makes it so. `Loaded`: a segment's frames stay taken and keep its contents, because an
allocation takes a free frame and another segment has other frames. `KeyOfMap`: the
buffer holds the map its key stands for, and a key that `ExitBootServices` accepts is
that of the map that is still there, since every allocation changes the key. The
kernel's own steps (ACPI) leave all of it alone.

`TablesReadCorrect`, `Spec => []TablesRead`, holds for tables of any number and length.
`TablesInv` has two parts. `FacpInv` says that what `InitFACP` keeps is the FACP's and its
DSDT's, or nothing (`SCI_EN` is 0 then); what `Shutdown` writes follows from it (`ShutdownTells`). `MadtInv` is what the walk has come to: it is at
the start of a record or at the end, and of each type the records before that place
(`Before`) are read, each at its own number (`Read`); the last override before it gave the
address of the local APIC (`Heard`). A step reads exactly one record more: none begins
between a record's start and its end (`NextOffset`). So the induction is over the
steps of the program, not over the data. For that `Regular` and `TablesRead` are stated
over offsets and numbers; a recursive function that collects the records in a sequence
would say the same and could not be proved about. The assumption is
`AcpiAssumption`: sizes and rooms are numbers. That a table is no longer than a size can
say is part of `Regular`.

### The timer

`Platform_proofs` also holds the timer's two theorems. (It extends `AcpiTables` and `Timer`,
which share no constant and no variable; `Timer` names its specification `TimerSpec` for that.)

`ProgrammedAsAskedCorrect`, `TimerSpec => []ProgrammedAsAsked`: whatever was asked for, and
wherever a tick came in between, once `SetDivisor` or `SetFrequency` has returned the
interval timer has the divisor the software counts with, and for a frequency it is the
largest divisor in range that reaches it. `ProgrammedInv` follows the two bytes: until the
second is written the call's argument is the divisor, and the first byte is its low part.
The kernel may be in the handler meanwhile, so the invariant speaks of the `Place` the
handler returns to.

`SleepLengthCorrect`, `TimerSpec => SleepLength`: let `m` and `n` be the ticks whose sum reaches
the sleep's argument, less and plus the rounding. On a timer that runs as programmed the
sleep takes more than `m - 1` periods and, where a period leaves time for the
handlers, at most `n + 1` and the handlers' few steps. How `Weight` relates to the period does
not matter; with `Unit` and `Rounding` arbitrary it is the code's fraction, not a
whole number of clocks, that decides `m` and `n`. `SleepInv` says that there are numbers
`k`, of ticks counted, and `e`, of clocks gone by, that the time and the history agree with.
A request is a tick counted, or one in the handler, or one pending (`Requests`). The lower
bound needs only that of the requests made all but the first are a period apart. For the
upper one no request may be lost: one made while another waits would be, and `InTime` excludes
it: what the handlers of the inputs have used up of their steps (`InputInv`) and what the
tick's handler still has to do (`Due`) give the step at which a request is done with
(`Prompt`), and the next is a period away. It also bounds the requests at each step of the
loop: while the sleep goes on there are at most `n`, and one more only when that one has just come.

Both rest on `TimerAssumption`, whose last part is a fact about the kernel's numbers: the argument
of `SetDivisor` has 16 bits, and a frequency up to 18 gives a divisor that does not fit.
What is left of those divisors is 751 or more, and so they all end as 100. With other
numbers a frequency could come out far too high.

### Device discovery

`Devices_proofs` proves three properties of `Devices`, for every machine, any number of
segments, buses, controllers, ports, slots and frames, and every interleaving of the
controllers' steps and the kernel's.

`IdlePortsCorrect`, `Spec => OnlyIdlePortsReprogrammed`: no step changes the addresses of
a port whose controller is processing commands, and no read overwrites a command that is
being executed, whatever the firmware left running. `DriverInv` says of the port being
configured which of its four bits are off at each step of `StopCMD` (`StoppedFirst`: a
controller clears `cr` and `fr` but does not set them again unless told), of every port
that a command is outstanding only in the read in progress or behind an error that
halted it (`IssuedByRead`), and of every command list that its frame was handed out, so
that a frame requested for a table is no port's list.

`ScanCorrect`, `Spec => []ScanMatchesLookup`. A place is `Passed` when the four loops have
been there; `ScanInv` says that the table lists exactly the functions found at the places
passed, as long as it has room, and none twice. That a function is not met again under
another segment is `SegmentsAssumption`: no two segments of the MCFG describe the
same bus. For the drivers it says the same of the functions before the place the second
loop has reached.

`StartedPortsCorrect`, `Spec => []StartedPortsAreComplete`, stands on both. `OrderInv` says
that a port settled (configured or refused) is behind the place of the two loops over
drivers and their ports; since no driver is in the table twice, which is `ScanInv`'s, the
port in hand is not settled. So refused ports are left at rest (`RefusedInv`; that they
were at rest when they were refused is `StoppedFirst`), and what the port in hand has got
so far belongs to no other (`MemoryInv`): its list, its received frames, and the tables of
the slots that fit into one frame, each in a frame requested for it and unlike
the others; and which of these frames had their start cleared, with the table of slot 0 at
that start. That these are as many frames as were asked for is a bijection from the
slots.

Assumptions: `ScanAssumption`, `AhciAssumption` and `SegmentsAssumption`;
`FramesAssumption`, frame 0 is never served (the allocator reserves low memory, which
`ServedCorrect` proves); `PortsAssumption`, a controller has at most 32 ports.

For these proofs two definitions were put differently, without a change in what they
say: the ports found by `ProbePorts` are the sequence in the order of their numbers
(`Probed`) instead of a sorted set, and `ScanMatchesLookup` speaks of the order of the
drivers (`InOrderOf`) instead of a filtered sequence; the library defines both by
recursion over data, of which nothing can be proved here.

### The screen

`Screen_proofs` proves, for every screen, font, pointer and width of a byte, and every
sequence of packets and text:

* `CursorsCorrect`, `Spec => []CursorsInBounds`. It is inductive as it stands;
  the lemmas are about what movements with their sign and overflow bits may add, and
  about the column and line a division leaves.
* `PointerTraceless`, `Spec => []PointerLeavesNoTrace`. `ScreenInv` adds that each visible
  pixel is clean: it equals the text's colour or, where it is covered and shows the
  pointer's colour, the pixel that was kept does. The lemmas are that a place of the
  frame buffer is that of one pixel only (division by a width, with memory wider than
  the screen), that a pixel lies in one cell, and what drawing and scrolling leave at
  each place.
* `PointerMoves`, `Spec => PointerFollowsMouse`: the code's 256 - byte, in a byte, is the
  two's complement of a movement but for the most negative one.

Assumption: `ScreenAssumption`, of which the last part says that the pointer's picture is
a set of places right of and below its tip.

### Only model-checked

* `MallocReturns`, `BufferDrains`, `InputArrives`, `PortsSettle`, `ReadReturns`, `BootEnds`
  and `SleepReturns`: liveness under fairness, beyond the proof system.

## 6. What is not modelled

Glyphs, number formatting and the text of messages, with them the statistics screen and
the string library but for `strcmp`; `memset` and its kin other than as part of the
actions that call them; flags of page table entries that the kernel sets but never
reads; page table caching (after boot the kernel only adds mappings, or changes ones
nobody has used). Of the renderer: changing font, frame buffer and background colour,
which only the start and the panic screen do. Of the processor: GDT, feature bits and
the contents of the interrupt gates, which are constants, and the local and IO-APIC
accessors, which nothing calls. `PROJECT.json` names each.

Some of what can go wrong does so in the models, and a premise of the properties leaves it
out. Of these nothing is shown but that the code goes that way:

* a framebuffer in memory the map calls conventional, where a page table may already be
  when it is locked (`WellPlaced`), and memory behind a hole, beyond the end of what is mapped;
* commands to the mouse lost, answers shifted and a configuration written that switches a device
  or its interrupt off: `PacketsWhole`, `KernelCatchesUp` and `InputArrives` speak of
  undisturbed boots, the others of bytes the controller interrupts for;
* a driver asked for by its index when there is none (nothing calls `get_by_index`);
* command lists beyond 4 GiB (`AllLow`), and reads on a port that a failed command halted;
* tables of `MADTInformation` that overflow (`Regular`);
* a kernel started after a refused `ExitBootServices`, or on a map that was not filled;
* the pointer scrolled with the text, or text printed in its colour over it (`smeared`);
* periods shorter than the handlers (`Latency`).

Not modelled is a sleep with interrupts off, which would never end; the kernel calls none.

Four fifths of the source lines under `src/` are vendored: headers and the library of
`gnu-efi`. They are not modelled, apart from the few services the bootloader calls, as
external definitions of `Bootloader`. The share of all lines the definitions map is
small for that reason; of the kernel and the bootloader, about 6,000 lines with their
headers, what is left are declarations, constants, formatting and output.
