-------------------------------- MODULE Ahci --------------------------------
(***************************************************************************)
(* The AHCI driver (ahci/ahci.cpp) and the controllers it shares its       *)
(* registers and its memory with.  The controllers run concurrently; what  *)
(* they may do is external, taken from what the driver relies on.          *)
(*                                                                         *)
(* Memory is counted in frames.  A pointer in one 32-bit register reaches  *)
(* the frames below LowFrames only.                                        *)
(***************************************************************************)
EXTENDS Integers, Sequences, FiniteSets, FiniteSetsExt, SequencesExt

CONSTANTS
  Slots,          \* Commands in a command list (32).
  SlotsPerFrame,  \* Command tables in a frame (16).
  PortsInPage,    \* Ports whose registers are in the page the driver maps (30).
  LowFrames,      \* Frames below 4 GiB.
  Tags            \* What a command may ask for.

ASSUME AhciAssumption ==
  /\ Slots \in Nat /\ SlotsPerFrame \in 1 .. Slots
  /\ PortsInPage \in Nat \ {0} /\ LowFrames \in Nat \ {0}

VARIABLES
  hba,            \* The registers of each port of each controller, and what the
                  \* memory they point to holds.
  frames,         \* The frames the allocator has left.
  drv,            \* Where activate_all, Configure and Read are.
  configured,     \* The ports with configured set.
  failed,         \* History: the ports whose Configure returned false.
  owner,          \* History: which port a frame was requested for.
  cleared         \* History: the frames whose start, as much as a table takes, was
                  \* cleared since they were requested.

ahciVars == <<hba, frames, drv, configured, failed, owner, cleared>>

-----------------------------------------------------------------------------
(* Registers.  st and fre are the driver's bits of cmdSts, cr and fr the   *)
(* controller's.  ci and tfes belong to slot 0, the only one ever issued.  *)
(* list and fis are base registers, always the start of a frame; table      *)
(* holds the addresses in the command headers, each a frame and a position  *)
(* in it, counted in tables; tag is what the table of slot 0 asks for.      *)

NULL == 0

NoTables == [i \in 0 .. Slots - 1 |-> <<NULL, 0>>]

Stopped(kind) ==
  [kind |-> kind, st |-> FALSE, fre |-> FALSE, cr |-> FALSE, fr |-> FALSE,
   ci |-> FALSE, tfes |-> FALSE, busy |-> TRUE, halted |-> FALSE,
   list |-> NULL, fis |-> NULL, table |-> NoTables, tag |-> NULL]

\* The firmware may have used a port and left it running.
LeftRunning(kind) ==
  [Stopped(kind) EXCEPT !.st = TRUE, !.fre = TRUE, !.cr = TRUE, !.fr = TRUE]

\* CheckPortType.  IPM is taken modulo 7: a device in DevSleep (8) passes for active.
CheckPortType(kind) ==
  IF kind.det # 3 \/ kind.ipm % 7 # 1 THEN "None" ELSE kind.signature

\* The ports ProbePorts adds.
IsDisk(kind) == kind.implemented /\ CheckPortType(kind) \in {"SATA", "SATAPI"}

Low(f) == f % LowFrames

NoPort == <<>>
Idle == [pc |-> "ActivateNext", k |-> 1, ports |-> <<>>, j |-> 1, slot |-> 0]

Port == drv.ports[drv.j]
Reg == hba[Port]

SetPort(r) == hba' = [hba EXCEPT ![Port] = r]

Goto(pc) == drv' = [drv EXCEPT !.pc = pc]

-----------------------------------------------------------------------------
(* Port::Configure.  The port in hand is drv.ports[drv.j].                 *)

AllocatorFrames == <<frames, owner, cleared>>

StopCMD_ST ==
  /\ drv.pc = "StopCMD"
  /\ SetPort([Reg EXCEPT !.st = FALSE])
  /\ Goto("StopFRE")
  /\ UNCHANGED <<AllocatorFrames, configured, failed>>

\* FRE left set.
StopCMD_STOnly ==
  /\ drv.pc = "StopFRE"
  /\ Goto("StopWait")
  /\ UNCHANGED <<hba, AllocatorFrames, configured, failed>>

StopCMD_FRE ==
  /\ drv.pc = "StopFRE"
  /\ SetPort([Reg EXCEPT !.fre = FALSE])
  /\ Goto("StopWait")
  /\ UNCHANGED <<AllocatorFrames, configured, failed>>

\* StopCMD waiting for the command list only.
StopCMD_HalfWait ==
  /\ drv.pc = "StopWait" /\ ~Reg.cr
  /\ Goto("CommandList")
  /\ UNCHANGED <<hba, AllocatorFrames, configured, failed>>

StopCMD_Wait ==
  /\ drv.pc = "StopWait" /\ ~Reg.fr /\ ~Reg.cr
  /\ Goto("CommandList")
  /\ UNCHANGED <<hba, AllocatorFrames, configured, failed>>

\* RequestPage: the lowest frame left.
Requested(f) ==
  /\ frames # {} /\ f = Min(frames)
  /\ frames' = frames \ {f}
  /\ owner' = [x \in DOMAIN owner \cup {f} |-> IF x = f THEN Port ELSE owner[x]]

\* The command list is cleared through the lower half of its address: of a frame
\* that is not low another one is cleared, which may be a list in use.
ConfigureCommandList ==
  /\ drv.pc = "CommandList"
  /\ \E f \in frames :
       /\ Requested(f)
       /\ hba' = [p \in DOMAIN hba |->
                    IF p = Port THEN [Reg EXCEPT !.list = f, !.table = NoTables]
                    ELSE IF hba[p].list = Low(f) THEN [hba[p] EXCEPT !.table = NoTables]
                    ELSE hba[p]]
       /\ cleared' = (cleared \ {f}) \cup {Low(f)}
  /\ Goto("Fis")
  /\ UNCHANGED <<configured, failed>>

ConfigureFis ==
  /\ drv.pc = "Fis"
  /\ \E f \in frames :
       /\ Requested(f)
       /\ SetPort([Reg EXCEPT !.fis = f])
       /\ cleared' = cleared \cup {f}
  /\ drv' = [drv EXCEPT !.pc = "Table", !.slot = 0]
  /\ UNCHANGED <<configured, failed>>

\* The table of slot i is put i tables behind the start of the frame f requested
\* for it, for the later slots in the frame behind it.
TablePlace(f, i) == <<f + i \div SlotsPerFrame, i % SlotsPerFrame>>

\* The first table put into the frame of the received frames.
TableWithFis ==
  /\ drv.pc = "Table" /\ drv.slot < Slots
  /\ \E f \in frames :
       /\ Requested(f)
       /\ SetPort([Reg EXCEPT !.table[drv.slot] =
                    IF drv.slot = 0 THEN <<Reg.fis, 0>> ELSE TablePlace(f, drv.slot)])
       /\ cleared' = cleared \cup {f}
  /\ drv' = [drv EXCEPT !.slot = @ + 1]
  /\ UNCHANGED <<configured, failed>>

\* What is cleared is the start of the frame, wherever in it the table is put.
ConfigureTable ==
  /\ drv.pc = "Table" /\ drv.slot < Slots
  /\ \E f \in frames :
       /\ Requested(f)
       /\ SetPort([Reg EXCEPT !.table[drv.slot] = TablePlace(f, drv.slot)])
       /\ cleared' = cleared \cup {f}
  /\ drv' = [drv EXCEPT !.slot = @ + 1]
  /\ UNCHANGED <<configured, failed>>

\* A refused page ends Configure; the port stays stopped with what it has.
ConfigureFails ==
  /\ drv.pc \in {"CommandList", "Fis"} \/ (drv.pc = "Table" /\ drv.slot < Slots)
  /\ frames = {}
  /\ failed' = failed \cup {Port}
  /\ drv' = [drv EXCEPT !.pc = "NextPort"]
  /\ UNCHANGED <<hba, AllocatorFrames, configured>>

StartCMD_FRE ==
  /\ drv.pc = "Table" /\ drv.slot = Slots
  /\ ~Reg.cr
  /\ SetPort([Reg EXCEPT !.fre = TRUE])
  /\ Goto("StartST")
  /\ UNCHANGED <<AllocatorFrames, configured, failed>>

StartCMD_ST ==
  /\ drv.pc = "StartST"
  /\ SetPort([Reg EXCEPT !.st = TRUE])
  /\ configured' = configured \cup {Port}
  /\ Goto("NextPort")
  /\ UNCHANGED <<AllocatorFrames, failed>>

-----------------------------------------------------------------------------
(* AHCIDriver::activate, for each driver of the driver manager.            *)

\* The ports in the order of their numbers.
Probed(disks) ==
  {s \in [1 .. Cardinality(disks) -> disks] :
     \A i, j \in DOMAIN s : i < j => s[i][2] < s[j][2]}

\* ProbePorts.  The registers of the first PortsInPage ports are mapped.
ProbePorts(d, secondPageMapped) ==
  LET mine == {p \in DOMAIN hba : p[1] = d /\ hba[p].kind.implemented}
      disks == {p \in mine : IsDisk(hba[p].kind)}
  IN  /\ drv.pc = "ActivateNext"
      /\ IF ~secondPageMapped /\ \E p \in mine : p[2] >= PortsInPage
         THEN Goto("PageFault")
         ELSE \E s \in Probed(disks) :
                drv' = [drv EXCEPT !.pc = "Configure", !.j = 1, !.ports = s]
      /\ UNCHANGED <<hba, AllocatorFrames, configured, failed>>

ConfigurePort ==
  /\ drv.pc = "Configure"
  /\ drv' = IF drv.j > Len(drv.ports)
            THEN [drv EXCEPT !.pc = "ActivateNext", !.k = @ + 1]
            ELSE [drv EXCEPT !.pc = "StopCMD"]
  /\ UNCHANGED <<hba, AllocatorFrames, configured, failed>>

NextPort ==
  /\ drv.pc = "NextPort"
  /\ drv' = [drv EXCEPT !.pc = "Configure", !.j = @ + 1]
  /\ UNCHANGED <<hba, AllocatorFrames, configured, failed>>

\* The loop of activate_all is over when there are n drivers.
ActivationEnds(n) ==
  /\ drv.pc = "ActivateNext" /\ drv.k > n
  /\ Goto("Ready")
  /\ UNCHANGED <<hba, AllocatorFrames, configured, failed>>

-----------------------------------------------------------------------------
(* Port::Read.  Nothing in the kernel calls it yet; its caller is expected *)
(* to have configured the port and given it a buffer.  Only lower halves   *)
(* of addresses are used, so the list and the table must be low.           *)

Readable(p) ==
  p \in configured /\ hba[p].list < LowFrames /\ hba[p].table[0][1] < LowFrames

\* The interrupt status is cleared and the command written to slot 0.
StartRead(p, tag) ==
  /\ drv.pc = "Ready" /\ Readable(p)
  /\ hba' = [hba EXCEPT ![p].tfes = FALSE, ![p].tag = tag]
  /\ drv' = [drv EXCEPT !.pc = "WaitDevice", !.ports = <<p>>, !.j = 1]
  /\ UNCHANGED <<AllocatorFrames, configured, failed>>

Returned == Goto("Ready")

\* The device stayed busy for a million tries.
DeviceStaysBusy ==
  /\ drv.pc = "WaitDevice" /\ Reg.busy
  /\ Returned
  /\ UNCHANGED <<hba, AllocatorFrames, configured, failed>>

IssueCommand ==
  /\ drv.pc = "WaitDevice" /\ ~Reg.busy
  /\ SetPort([Reg EXCEPT !.ci = TRUE])
  /\ Goto("Poll")
  /\ UNCHANGED <<AllocatorFrames, configured, failed>>

CommandDone ==
  /\ drv.pc = "Poll" /\ ~Reg.ci
  /\ Returned
  /\ UNCHANGED <<hba, AllocatorFrames, configured, failed>>

\* The error looked at when the command is over only.
ErrorAfterCompletion ==
  /\ drv.pc = "Poll" /\ ~Reg.ci /\ Reg.tfes
  /\ Returned
  /\ UNCHANGED <<hba, AllocatorFrames, configured, failed>>

CommandFailed ==
  /\ drv.pc = "Poll" /\ Reg.ci /\ Reg.tfes
  /\ Returned
  /\ UNCHANGED <<hba, AllocatorFrames, configured, failed>>

-----------------------------------------------------------------------------
(* The controllers (external).  A port runs its command list (cr) as long  *)
(* as st is set and receives frames (fr) as long as fre is; a command that *)
(* fails halts it until st is cleared, with the command still issued.      *)

HbaStarts(p) ==
  LET r == hba[p]
  IN  \/ r.fre /\ ~r.fr /\ hba' = [hba EXCEPT ![p].fr = TRUE]
      \/ r.st /\ ~r.cr /\ hba' = [hba EXCEPT ![p].cr = TRUE]

HbaStops(p) ==
  LET r == hba[p]
  IN  \/ ~r.fre /\ r.fr /\ hba' = [hba EXCEPT ![p].fr = FALSE]
      \/ ~r.st /\ r.cr
         /\ hba' = [hba EXCEPT ![p].cr = FALSE, ![p].ci = FALSE, ![p].halted = FALSE]

DeviceReady(p) ==
  /\ IsDisk(hba[p].kind) /\ hba[p].busy
  /\ hba' = [hba EXCEPT ![p].busy = FALSE]

Executing(r) == r.cr /\ r.fr /\ r.ci /\ ~r.busy /\ ~r.halted

HbaCompletes(p) ==
  /\ Executing(hba[p])
  /\ \E busy \in BOOLEAN : hba' = [hba EXCEPT ![p].ci = FALSE, ![p].busy = busy]

HbaFails(p) ==
  /\ Executing(hba[p])
  /\ hba' = [hba EXCEPT ![p].tfes = TRUE, ![p].halted = TRUE]

HbaStep(p) ==
  /\ HbaStarts(p) \/ HbaStops(p) \/ DeviceReady(p) \/ HbaCompletes(p) \/ HbaFails(p)
  /\ UNCHANGED <<frames, drv, configured, failed, owner, cleared>>

-----------------------------------------------------------------------------

ConfigureStep ==
  \/ StopCMD_ST \/ StopCMD_FRE \/ StopCMD_Wait
  \/ ConfigureCommandList \/ ConfigureFis \/ ConfigureTable \/ ConfigureFails
  \/ StartCMD_FRE \/ StartCMD_ST \/ ConfigurePort \/ NextPort

ReadStep == DeviceStaysBusy \/ IssueCommand \/ CommandDone \/ CommandFailed

\* The machine's ports and the frames left.  The firmware may have used a disk and
\* left its port running.
AhciInit(portKinds, framesLeft) ==
  /\ hba \in [DOMAIN portKinds -> UNION {{Stopped(k), LeftRunning(k)} : k \in Range(portKinds)}]
  /\ \A p \in DOMAIN portKinds :
       hba[p] \in {Stopped(portKinds[p])} \cup
         IF IsDisk(portKinds[p]) THEN {LeftRunning(portKinds[p])} ELSE {}
  /\ frames = framesLeft
  /\ drv = Idle /\ configured = {} /\ failed = {}
  /\ owner = [f \in {} |-> NoPort] /\ cleared = {}

-----------------------------------------------------------------------------
(* Properties.                                                             *)

AllLow == \A f \in DOMAIN owner : f < LowFrames

\* As long as memory below 4 GiB lasts, the memory a running port uses is its own:
\* the command list, the received frames and the command tables that fit into one
\* frame are in frames requested for this port, no two of them in the same.  The
\* list, the received frames and the table of slot 0, the only one a command is
\* ever issued with, are where memory was cleared.  (Of the other tables neither
\* is claimed of all: ahci.cpp:127 clears the start of the page and not the table,
\* and the tables of the later slots are not in the pages requested for them.)
\* A port that could not be configured stays stopped, and no port is both.
StartedPortsAreComplete ==
  /\ configured \cap failed = {}
  /\ \A p \in failed : ~(hba[p].st \/ hba[p].fre \/ hba[p].cr \/ hba[p].fr)
  /\ AllLow => \A p \in configured :
       LET r == hba[p]
           used == {r.list, r.fis} \cup {r.table[i][1] : i \in 0 .. SlotsPerFrame - 1}
       IN  /\ used \subseteq DOMAIN owner \ frames
           /\ \A f \in used : owner[f] = p
           /\ Cardinality(used) = 2 + SlotsPerFrame
           /\ {r.list, r.fis, r.table[0][1]} \subseteq cleared /\ r.table[0][2] = 0

\* No base register and no command table is written while the controller may
\* still use what it says: the port is idle when its memory is exchanged, and a
\* read never overwrites a command that is being executed.  (As long as memory
\* below 4 GiB lasts: what is cleared in its place is the list of a running port.)
OnlyIdlePortsReprogrammed ==
  [][AllLow' => \A p \in DOMAIN hba :
       LET r == hba[p] n == hba'[p]
       IN  /\ <<n.list, n.fis, n.table>> # <<r.list, r.fis, r.table>> => ~r.cr /\ ~r.fr
           /\ n.tag # r.tag => ~Executing(r)]_ahciVars

\* A read on a port that has not failed a command before returns.  (After a failed
\* one the next read waits for ever: nobody clears st, so the port stays halted.)
ReadReturns ==
  (drv.pc = "WaitDevice" /\ ~Reg.halted) ~> (drv.pc = "Ready")
=============================================================================
