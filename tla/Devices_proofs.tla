--------------------------- MODULE Devices_proofs ---------------------------
(***************************************************************************)
(* What device discovery leaves behind, for every machine, whatever the    *)
(* firmware left running, any number of segments, buses, controllers, ports, *)
(* slots and frames, and every order of the controllers' steps and the     *)
(* kernel's: no AHCI port is reprogrammed while it works; the scan lists what *)
(* the look-up by place finds; a started port has memory of its own.       *)
(***************************************************************************)
EXTENDS Devices, SequenceTheorems, FiniteSetTheorems, TLAPS

IsRegister(r) ==
  r \in [kind : {r.kind}, st : BOOLEAN, fre : BOOLEAN, cr : BOOLEAN, fr : BOOLEAN,
         ci : BOOLEAN, tfes : BOOLEAN, busy : BOOLEAN, halted : BOOLEAN,
         list : {r.list}, fis : {r.fis}, table : {r.table}, tag : {r.tag}]

\* Configure has stopped what the firmware may have left running before it goes on:
\* a controller does not start again what it was not told to.
StoppedFirst(pc, r) ==
  /\ pc \in {"StopFRE", "StopWait", "CommandList", "Fis", "Table"} => ~r.st
  /\ pc \in {"StopWait", "CommandList", "Fis", "Table"} => ~r.fre
  /\ pc \in {"CommandList", "Fis", "Table"} => ~r.cr /\ ~r.fr

\* A command is issued by the read in progress, or was halted by its failure.
IssuedByRead(p) ==
  LET r == hba[p]
  IN  /\ r.ci /\ ~(drv.pc = "Poll" /\ p = Port) => r.halted
      /\ drv.pc = "WaitDevice" /\ p = Port => ~r.tfes
      /\ drv.pc = "Poll" /\ p = Port /\ r.ci /\ r.tfes => r.halted

PortInv(p) ==
  /\ IsRegister(hba[p])
  /\ hba[p].list \in {NULL} \cup DOMAIN owner
  /\ p = Port => StoppedFirst(drv.pc, hba[p])
  /\ IssuedByRead(p)

DriverInv ==
  /\ drv = [pc |-> drv.pc, k |-> drv.k, ports |-> drv.ports, j |-> drv.j, slot |-> drv.slot]
  /\ frames \subseteq Nat \ {0} /\ frames \cap DOMAIN owner = {}
  /\ \A p \in DOMAIN hba : PortInv(p)

\* The firmware's ports satisfy the invariant.
LEMMA DriverInitially == Init => DriverInv
  <1>. SUFFICES ASSUME Init PROVE DriverInv
    OBVIOUS
  <1>1. machine \in Machines /\ frames = machine.frames
    BY DEF Init, ScanInit, AhciInit
  <1>2. ASSUME NEW p \in DOMAIN hba
        PROVE  PortInv(p)
    <2>1. hba[p] \in {Stopped(machine.ports[p]), LeftRunning(machine.ports[p])}
      <3>1. DOMAIN hba = DOMAIN machine.ports
        BY DEF Init, AhciInit
      <3>2. hba[p] \in {Stopped(machine.ports[p])} \cup
                         IF IsDisk(machine.ports[p]) THEN {LeftRunning(machine.ports[p])} ELSE {}
        BY <1>2, <3>1 DEF Init, AhciInit
      <3>. QED  BY <3>2
    <2>2. IsRegister(hba[p]) /\ hba[p].list = NULL /\ ~hba[p].ci
      <3>1. ASSUME NEW kind
            PROVE  IsRegister(Stopped(kind)) /\ Stopped(kind).list = NULL /\ ~Stopped(kind).ci
        BY DEF Stopped, IsRegister
      <3>2. ASSUME NEW kind
            PROVE  /\ IsRegister(LeftRunning(kind))
                   /\ LeftRunning(kind).list = NULL /\ ~LeftRunning(kind).ci
        BY <3>1 DEF LeftRunning, IsRegister
      <3>. QED  BY <2>1, <3>1, <3>2
    <2>. QED  BY <2>2 DEF Init, AhciInit, Idle, PortInv, StoppedFirst, IssuedByRead
  <1>. QED  BY <1>1, <1>2, FramesAssumption DEF Init, AhciInit, Idle, DriverInv

\* The steps that change no register and request no frame.
LEMMA DriverOnlyStep ==
  ASSUME DriverInv, UNCHANGED <<hba, frames, owner>>,
         ActivationEnds(Len(drivers)) \/ Activate \/ StopCMD_Wait \/ ConfigureFails
           \/ ConfigurePort \/ NextPort \/ DeviceStaysBusy \/ CommandDone \/ CommandFailed
  PROVE  DriverInv'
  <1>1. drv' = [pc |-> drv'.pc, k |-> drv'.k, ports |-> drv'.ports, j |-> drv'.j,
                slot |-> drv'.slot]
    BY DEF DriverInv, ActivationEnds, Activate, ProbePorts, StopCMD_Wait, ConfigureFails,
           ConfigurePort, NextPort, DeviceStaysBusy, CommandDone, CommandFailed, Returned, Goto
  <1>2. ASSUME NEW p \in DOMAIN hba
        PROVE  /\ p = Port' => StoppedFirst(drv'.pc, hba[p])
               /\ IssuedByRead(p)'
    <2>1. PortInv(p)
      BY <1>2 DEF DriverInv
    <2>2. CASE StopCMD_Wait
      BY <2>1, <2>2 DEF DriverInv, StopCMD_Wait, Goto, Port, Reg, PortInv, StoppedFirst,
         IssuedByRead
    <2>3. CASE DeviceStaysBusy \/ CommandDone \/ CommandFailed
      BY <2>1, <2>3 DEF DriverInv, DeviceStaysBusy, CommandDone, CommandFailed, Returned, Goto,
         Port, Reg, PortInv, StoppedFirst, IssuedByRead
    <2>4. CASE ActivationEnds(Len(drivers)) \/ Activate \/ ConfigureFails \/ ConfigurePort
                 \/ NextPort
      <3>1. drv.pc # "Poll" /\ drv'.pc \in {"Ready", "PageFault", "Configure", "NextPort",
                                            "ActivateNext", "StopCMD"}
        BY <2>4 DEF DriverInv, ActivationEnds, Activate, ProbePorts, ConfigureFails,
           ConfigurePort, NextPort, Goto
      <3>. QED  BY <2>1, <3>1 DEF PortInv, StoppedFirst, IssuedByRead
    <2>. QED  BY <2>2, <2>3, <2>4
  <1>. QED  BY <1>1, <1>2 DEF DriverInv, PortInv

\* A write to one bit of a port's registers leaves the others alone.
LEMMA RegisterSt ==
  ASSUME NEW r, IsRegister(r), NEW b \in BOOLEAN, NEW n, n = [r EXCEPT !.st = b]
  PROVE  /\ IsRegister(n) /\ n.list = r.list
         /\ n.st = b /\ n.fre = r.fre /\ n.cr = r.cr /\ n.fr = r.fr
         /\ n.ci = r.ci /\ n.tfes = r.tfes /\ n.halted = r.halted
  BY DEF IsRegister

LEMMA RegisterFre ==
  ASSUME NEW r, IsRegister(r), NEW b \in BOOLEAN, NEW n, n = [r EXCEPT !.fre = b]
  PROVE  /\ IsRegister(n) /\ n.list = r.list
         /\ n.st = r.st /\ n.fre = b /\ n.cr = r.cr /\ n.fr = r.fr
         /\ n.ci = r.ci /\ n.tfes = r.tfes /\ n.halted = r.halted
  BY DEF IsRegister

LEMMA RegisterCi ==
  ASSUME NEW r, IsRegister(r), NEW b \in BOOLEAN, NEW n, n = [r EXCEPT !.ci = b]
  PROVE  /\ IsRegister(n) /\ n.list = r.list
         /\ n.st = r.st /\ n.fre = r.fre /\ n.cr = r.cr /\ n.fr = r.fr
         /\ n.ci = b /\ n.tfes = r.tfes /\ n.halted = r.halted
  BY DEF IsRegister

\* The steps of the kernel that write the registers of the port in hand.
LEMMA RegisterStep ==
  ASSUME DriverInv, UNCHANGED <<frames, owner>>,
         StopCMD_ST \/ StopCMD_FRE \/ StartCMD_FRE \/ StartCMD_ST \/ IssueCommand
  PROVE  DriverInv'
  <1>1. drv' = [pc |-> drv'.pc, k |-> drv'.k, ports |-> drv'.ports, j |-> drv'.j,
                slot |-> drv'.slot] /\ Port' = Port
    BY DEF DriverInv, StopCMD_ST, StopCMD_FRE, StartCMD_FRE, StartCMD_ST, IssueCommand, Goto, Port
  <1>2. DOMAIN hba' = DOMAIN hba /\ \A p \in DOMAIN hba : p # Port => hba'[p] = hba[p]
    BY DEF StopCMD_ST, StopCMD_FRE, StartCMD_FRE, StartCMD_ST, IssueCommand, SetPort
  <1>3. ASSUME NEW p \in DOMAIN hba
        PROVE  PortInv(p)'
    <2>1. PortInv(p)
      BY <1>3 DEF DriverInv
    <2>2. CASE p # Port
      <3>1. drv.pc # "Poll" /\ hba'[p] = hba[p] /\ p # Port'
        BY <1>1, <1>2, <1>3, <2>2
           DEF StopCMD_ST, StopCMD_FRE, StartCMD_FRE, StartCMD_ST, IssueCommand
      <3>. QED  BY <2>1, <2>2, <3>1 DEF PortInv, IssuedByRead
    <2>3. CASE p = Port
      <3>1. IsRegister(Reg) /\ hba[p] = Reg
        BY <2>1, <2>3 DEF PortInv, Reg
      <3>2. /\ Reg.list \in {NULL} \cup DOMAIN owner /\ StoppedFirst(drv.pc, Reg)
            /\ Reg.ci /\ drv.pc # "Poll" => Reg.halted
            /\ drv.pc = "WaitDevice" => ~Reg.tfes
        BY <2>1, <2>3, <3>1 DEF PortInv, IssuedByRead
      <3>. DEFINE r == hba'[p]
                  Good == /\ IsRegister(r) /\ r.list = Reg.list /\ StoppedFirst(drv'.pc, r)
                          /\ r.ci /\ drv'.pc # "Poll" => r.halted
                          /\ drv'.pc # "WaitDevice" /\ (drv'.pc = "Poll" => ~r.tfes)
      <3>3. ASSUME StopCMD_ST PROVE Good
        <4>1. r = [Reg EXCEPT !.st = FALSE] /\ drv'.pc = "StopFRE" /\ drv.pc = "StopCMD"
          BY <1>3, <2>3, <3>3 DEF StopCMD_ST, SetPort, Goto, DriverInv
        <4>2. /\ IsRegister(r) /\ r.list = Reg.list /\ r.st = FALSE
              /\ r.fre = Reg.fre /\ r.cr = Reg.cr /\ r.fr = Reg.fr
              /\ r.ci = Reg.ci /\ r.tfes = Reg.tfes /\ r.halted = Reg.halted
          <5>. DEFINE old == Reg
                      bit == FALSE
          <5>1. IsRegister(old) /\ bit \in BOOLEAN /\ r = [old EXCEPT !.st = bit]
            BY <3>1, <4>1
          <5>. HIDE DEF old, bit, r
          <5>2. /\ IsRegister(r) /\ r.list = old.list /\ r.st = bit
                /\ r.fre = old.fre /\ r.cr = old.cr /\ r.fr = old.fr
                /\ r.ci = old.ci /\ r.tfes = old.tfes /\ r.halted = old.halted
            BY <5>1, RegisterSt
          <5>. QED  BY <5>2 DEF old, bit
        <4>. HIDE DEF r
        <4>. QED  BY <3>2, <4>1, <4>2 DEF StoppedFirst
      <3>4. ASSUME StopCMD_FRE PROVE Good
        <4>1. r = [Reg EXCEPT !.fre = FALSE] /\ drv'.pc = "StopWait" /\ drv.pc = "StopFRE"
          BY <1>3, <2>3, <3>4 DEF StopCMD_FRE, SetPort, Goto, DriverInv
        <4>2. /\ IsRegister(r) /\ r.list = Reg.list /\ r.fre = FALSE
              /\ r.st = Reg.st /\ r.cr = Reg.cr /\ r.fr = Reg.fr
              /\ r.ci = Reg.ci /\ r.tfes = Reg.tfes /\ r.halted = Reg.halted
          <5>. DEFINE old == Reg
                      bit == FALSE
          <5>1. IsRegister(old) /\ bit \in BOOLEAN /\ r = [old EXCEPT !.fre = bit]
            BY <3>1, <4>1
          <5>. HIDE DEF old, bit, r
          <5>2. /\ IsRegister(r) /\ r.list = old.list /\ r.fre = bit
                /\ r.st = old.st /\ r.cr = old.cr /\ r.fr = old.fr
                /\ r.ci = old.ci /\ r.tfes = old.tfes /\ r.halted = old.halted
            BY <5>1, RegisterFre
          <5>. QED  BY <5>2 DEF old, bit
        <4>. HIDE DEF r
        <4>. QED  BY <3>2, <4>1, <4>2 DEF StoppedFirst
      <3>5. ASSUME StartCMD_FRE PROVE Good
        <4>1. r = [Reg EXCEPT !.fre = TRUE] /\ drv'.pc = "StartST" /\ drv.pc # "Poll"
          BY <1>3, <2>3, <3>5 DEF StartCMD_FRE, SetPort, Goto, DriverInv
        <4>2. /\ IsRegister(r) /\ r.list = Reg.list /\ r.fre = TRUE
              /\ r.st = Reg.st /\ r.cr = Reg.cr /\ r.fr = Reg.fr
              /\ r.ci = Reg.ci /\ r.tfes = Reg.tfes /\ r.halted = Reg.halted
          <5>. DEFINE old == Reg
                      bit == TRUE
          <5>1. IsRegister(old) /\ bit \in BOOLEAN /\ r = [old EXCEPT !.fre = bit]
            BY <3>1, <4>1
          <5>. HIDE DEF old, bit, r
          <5>2. /\ IsRegister(r) /\ r.list = old.list /\ r.fre = bit
                /\ r.st = old.st /\ r.cr = old.cr /\ r.fr = old.fr
                /\ r.ci = old.ci /\ r.tfes = old.tfes /\ r.halted = old.halted
            BY <5>1, RegisterFre
          <5>. QED  BY <5>2 DEF old, bit
        <4>. HIDE DEF r
        <4>. QED  BY <3>2, <4>1, <4>2 DEF StoppedFirst
      <3>6. ASSUME StartCMD_ST PROVE Good
        <4>1. r = [Reg EXCEPT !.st = TRUE] /\ drv'.pc = "NextPort" /\ drv.pc # "Poll"
          BY <1>3, <2>3, <3>6 DEF StartCMD_ST, SetPort, Goto, DriverInv
        <4>2. /\ IsRegister(r) /\ r.list = Reg.list /\ r.st = TRUE
              /\ r.fre = Reg.fre /\ r.cr = Reg.cr /\ r.fr = Reg.fr
              /\ r.ci = Reg.ci /\ r.tfes = Reg.tfes /\ r.halted = Reg.halted
          <5>. DEFINE old == Reg
                      bit == TRUE
          <5>1. IsRegister(old) /\ bit \in BOOLEAN /\ r = [old EXCEPT !.st = bit]
            BY <3>1, <4>1
          <5>. HIDE DEF old, bit, r
          <5>2. /\ IsRegister(r) /\ r.list = old.list /\ r.st = bit
                /\ r.fre = old.fre /\ r.cr = old.cr /\ r.fr = old.fr
                /\ r.ci = old.ci /\ r.tfes = old.tfes /\ r.halted = old.halted
            BY <5>1, RegisterSt
          <5>. QED  BY <5>2 DEF old, bit
        <4>. HIDE DEF r
        <4>. QED  BY <3>2, <4>1, <4>2 DEF StoppedFirst
      <3>7. ASSUME IssueCommand PROVE Good
        <4>1. r = [Reg EXCEPT !.ci = TRUE] /\ drv'.pc = "Poll" /\ drv.pc = "WaitDevice"
          BY <1>3, <2>3, <3>7 DEF IssueCommand, SetPort, Goto, DriverInv
        <4>2. /\ IsRegister(r) /\ r.list = Reg.list /\ r.ci = TRUE
              /\ r.st = Reg.st /\ r.fre = Reg.fre /\ r.cr = Reg.cr
              /\ r.fr = Reg.fr /\ r.tfes = Reg.tfes /\ r.halted = Reg.halted
          <5>. DEFINE old == Reg
                      bit == TRUE
          <5>1. IsRegister(old) /\ bit \in BOOLEAN /\ r = [old EXCEPT !.ci = bit]
            BY <3>1, <4>1
          <5>. HIDE DEF old, bit, r
          <5>2. /\ IsRegister(r) /\ r.list = old.list /\ r.ci = bit
                /\ r.st = old.st /\ r.fre = old.fre /\ r.cr = old.cr
                /\ r.fr = old.fr /\ r.tfes = old.tfes /\ r.halted = old.halted
            BY <5>1, RegisterCi
          <5>. QED  BY <5>2 DEF old, bit
        <4>. HIDE DEF r
        <4>. QED  BY <3>2, <4>1, <4>2 DEF StoppedFirst
      <3>8. Good
        BY <3>3, <3>4, <3>5, <3>6, <3>7
      <3>. HIDE DEF r
      <3>9. PortInv(p)' <=> /\ IsRegister(r) /\ r.list \in {NULL} \cup DOMAIN owner
                            /\ StoppedFirst(drv'.pc, r)
                            /\ r.ci /\ drv'.pc # "Poll" => r.halted
                            /\ drv'.pc = "WaitDevice" => ~r.tfes
                            /\ drv'.pc = "Poll" /\ r.ci /\ r.tfes => r.halted
        BY <1>1, <2>3 DEF PortInv, IssuedByRead, r
      <3>. QED  BY <3>2, <3>8, <3>9
    <2>. QED  BY <2>2, <2>3
  <1>. QED  BY <1>1, <1>2, <1>3 DEF DriverInv

\* A requested frame is the port's, and no other's.
LEMMA RequestedFrame ==
  ASSUME DriverInv, NEW f \in frames, Requested(f)
  PROVE  /\ f \in Nat \ {0} /\ f \notin DOMAIN owner
         /\ DOMAIN owner' = DOMAIN owner \cup {f}
         /\ frames' \subseteq Nat \ {0} /\ frames' \cap DOMAIN owner' = {}
  BY DEF DriverInv, Requested

\* What Configure writes for a frame f, in registers r of port p.
LEMMA MemoryStep ==
  ASSUME DriverInv, ConfigureCommandList \/ ConfigureFis \/ ConfigureTable
  PROVE  DriverInv'
  <1>1. PICK f \in frames : Requested(f)
    BY DEF ConfigureCommandList, ConfigureFis, ConfigureTable
  <1>2. /\ DOMAIN owner' = DOMAIN owner \cup {f}
        /\ frames' \subseteq Nat \ {0} /\ frames' \cap DOMAIN owner' = {}
    BY <1>1, RequestedFrame
  <1>3. /\ drv' = [pc |-> drv'.pc, k |-> drv'.k, ports |-> drv'.ports, j |-> drv'.j,
                   slot |-> drv'.slot]
        /\ Port' = Port
        /\ drv.pc \in {"CommandList", "Fis", "Table"} /\ drv'.pc \in {"Fis", "Table"}
    BY DEF DriverInv, ConfigureCommandList, ConfigureFis, ConfigureTable, Goto, Port
  <1>4. DOMAIN hba' = DOMAIN hba
    BY DEF ConfigureCommandList, ConfigureFis, ConfigureTable, SetPort
  <1>5. ASSUME NEW p \in DOMAIN hba
        PROVE  PortInv(p)'
    <2>. DEFINE r == hba[p]
                n == hba'[p]
    <2>1. PortInv(p)
      BY <1>5 DEF DriverInv
    <2>2. /\ IsRegister(n)
          /\ n.list = r.list \/ n.list \in DOMAIN owner'
          /\ n.st = r.st /\ n.fre = r.fre /\ n.cr = r.cr /\ n.fr = r.fr
          /\ n.ci = r.ci /\ n.tfes = r.tfes /\ n.halted = r.halted
      <3>1. IsRegister(r)
        BY <2>1 DEF PortInv
      <3>2. CASE ConfigureCommandList
        <4>1. PICK g \in frames :
                /\ Requested(g)
                /\ n = IF p = Port THEN [Reg EXCEPT !.list = g, !.table = NoTables]
                       ELSE IF r.list = Low(g) THEN [r EXCEPT !.table = NoTables] ELSE r
          BY <1>5, <3>2 DEF ConfigureCommandList
        <4>2. g \in DOMAIN owner'
          BY <4>1, RequestedFrame
        <4>3. CASE p = Port
          <5>1. n = [r EXCEPT !.list = g, !.table = NoTables]
            BY <4>1, <4>3 DEF Reg
          <5>. QED  BY <3>1, <4>2, <5>1 DEF IsRegister
        <4>4. CASE n = [r EXCEPT !.table = NoTables]
          BY <3>1, <4>4 DEF IsRegister
        <4>. QED  BY <3>1, <4>1, <4>3, <4>4
      <3>3. CASE ConfigureFis
        <4>1. PICK g : n = IF p = Port THEN [r EXCEPT !.fis = g] ELSE r
          BY <1>5, <3>3 DEF ConfigureFis, SetPort, Reg
        <4>. QED  BY <3>1, <4>1 DEF IsRegister
      <3>4. CASE ConfigureTable
        <4>1. PICK t : n = IF p = Port THEN [r EXCEPT !.table = t] ELSE r
          BY <1>5, <3>4 DEF ConfigureTable, SetPort, Reg
        <4>. QED  BY <3>1, <4>1 DEF IsRegister
      <3>. QED  BY <3>2, <3>3, <3>4
    <2>. HIDE DEF r, n
    <2>3. p = Port' => StoppedFirst(drv'.pc, n)
      BY <1>3, <2>1, <2>2 DEF PortInv, StoppedFirst, r
    <2>4. IssuedByRead(p)'
      BY <1>3, <2>1, <2>2 DEF PortInv, IssuedByRead, r, n
    <2>. QED  BY <1>2, <2>1, <2>2, <2>3, <2>4 DEF PortInv, r, n
  <1>. QED  BY <1>2, <1>3, <1>4, <1>5 DEF DriverInv

\* A read begins on a port that executes nothing.
LEMMA StartReadStep ==
  ASSUME DriverInv, NEW q \in DOMAIN hba, NEW tag, StartRead(q, tag)
  PROVE  DriverInv'
  <1>1. drv' = [pc |-> "WaitDevice", k |-> drv.k, ports |-> <<q>>, j |-> 1, slot |-> drv.slot]
    BY DEF DriverInv, StartRead
  <1>2. drv'.pc = "WaitDevice" /\ drv.pc = "Ready" /\ Port' = q
    BY <1>1 DEF StartRead, Port
  <1>3. ASSUME NEW p \in DOMAIN hba
        PROVE  PortInv(p)'
    <2>1. PortInv(p)
      BY <1>3 DEF DriverInv
    <2>2. hba'[p] = IF p = q THEN [hba[p] EXCEPT !.tfes = FALSE, !.tag = tag] ELSE hba[p]
      BY <1>3 DEF StartRead
    <2>3. /\ IsRegister(hba'[p]) /\ hba'[p].list = hba[p].list
          /\ hba'[p].ci = hba[p].ci /\ hba'[p].halted = hba[p].halted
          /\ p = q => ~hba'[p].tfes
      BY <2>1, <2>2 DEF PortInv, IsRegister
    <2>4. owner' = owner
      BY DEF StartRead, AllocatorFrames
    <2>. QED  BY <1>2, <2>1, <2>3, <2>4 DEF PortInv, StoppedFirst, IssuedByRead
  <1>4. DOMAIN hba' = DOMAIN hba /\ UNCHANGED <<frames, owner>>
    BY DEF StartRead, AllocatorFrames
  <1>. QED  BY <1>1, <1>3, <1>4 DEF DriverInv

\* The step of a controller on its port q.
LEMMA ControllerStep ==
  ASSUME DriverInv, NEW q \in DOMAIN hba, HbaStep(q)
  PROVE  DriverInv'
  <1>1. UNCHANGED <<frames, drv, owner>> /\ DOMAIN hba' = DOMAIN hba /\ Port' = Port
    BY DEF HbaStep, HbaStarts, HbaStops, DeviceReady, HbaCompletes, HbaFails, Port
  <1>2. ASSUME NEW p \in DOMAIN hba
        PROVE  PortInv(p)'
    <2>1. PortInv(p)
      BY <1>2 DEF DriverInv
    <2>2. CASE p # q
      <3>1. hba'[p] = hba[p]
        BY <1>2, <2>2 DEF HbaStep, HbaStarts, HbaStops, DeviceReady, HbaCompletes, HbaFails
      <3>. QED  BY <1>1, <2>1, <3>1 DEF PortInv, IssuedByRead
    <2>3. CASE p = q
      <3>. DEFINE r == hba[p]
                  n == hba'[p]
      <3>1. IsRegister(r)
        BY <2>1 DEF PortInv
      <3>2. \/ r.fre /\ n = [r EXCEPT !.fr = TRUE]
            \/ r.st /\ n = [r EXCEPT !.cr = TRUE]
            \/ n = [r EXCEPT !.fr = FALSE]
            \/ n = [r EXCEPT !.cr = FALSE, !.ci = FALSE, !.halted = FALSE]
            \/ n = [r EXCEPT !.busy = FALSE]
            \/ \E busy \in BOOLEAN : n = [r EXCEPT !.ci = FALSE, !.busy = busy]
            \/ r.ci /\ ~r.halted /\ n = [r EXCEPT !.tfes = TRUE, !.halted = TRUE]
        BY <1>2, <2>3
           DEF HbaStep, HbaStarts, HbaStops, DeviceReady, HbaCompletes, HbaFails, Executing
      <3>3. /\ IsRegister(n) /\ n.list = r.list
            /\ n.st = r.st /\ n.fre = r.fre
            /\ n.cr => r.cr \/ r.st
            /\ n.fr => r.fr \/ r.fre
            /\ n.ci => r.ci /\ (r.halted => n.halted)
            /\ n.tfes => r.tfes \/ (r.ci /\ ~r.halted /\ n.halted)
        <4>. HIDE DEF r, n
        <4>1. CASE r.fre /\ n = [r EXCEPT !.fr = TRUE]
          BY <3>1, <4>1 DEF IsRegister
        <4>2. CASE r.st /\ n = [r EXCEPT !.cr = TRUE]
          BY <3>1, <4>2 DEF IsRegister
        <4>3. CASE n = [r EXCEPT !.fr = FALSE]
          BY <3>1, <4>3 DEF IsRegister
        <4>4. CASE n = [r EXCEPT !.cr = FALSE, !.ci = FALSE, !.halted = FALSE]
          BY <3>1, <4>4 DEF IsRegister
        <4>5. CASE n = [r EXCEPT !.busy = FALSE]
          BY <3>1, <4>5 DEF IsRegister
        <4>6. ASSUME NEW busy \in BOOLEAN, n = [r EXCEPT !.ci = FALSE, !.busy = busy]
              PROVE  /\ IsRegister(n) /\ n.list = r.list /\ n.st = r.st /\ n.fre = r.fre
                     /\ n.cr = r.cr /\ n.fr = r.fr /\ ~n.ci /\ n.tfes = r.tfes
          BY <3>1, <4>6 DEF IsRegister
        <4>7. CASE r.ci /\ ~r.halted /\ n = [r EXCEPT !.tfes = TRUE, !.halted = TRUE]
          BY <3>1, <4>7 DEF IsRegister
        <4>. QED  BY <3>2, <4>1, <4>2, <4>3, <4>4, <4>5, <4>6, <4>7
      <3>. HIDE DEF r, n
      <3>4. PortInv(p)' <=> /\ IsRegister(n)
                            /\ n.list \in {NULL} \cup DOMAIN owner
                            /\ p = Port => StoppedFirst(drv.pc, n)
                            /\ n.ci /\ ~(drv.pc = "Poll" /\ p = Port) => n.halted
                            /\ drv.pc = "WaitDevice" /\ p = Port => ~n.tfes
                            /\ drv.pc = "Poll" /\ p = Port /\ n.ci /\ n.tfes => n.halted
        BY <1>1 DEF PortInv, IssuedByRead, n
      <3>5. /\ r.list \in {NULL} \cup DOMAIN owner
            /\ p = Port => StoppedFirst(drv.pc, r)
            /\ r.ci /\ ~(drv.pc = "Poll" /\ p = Port) => r.halted
            /\ drv.pc = "WaitDevice" /\ p = Port => ~r.tfes
            /\ drv.pc = "Poll" /\ p = Port /\ r.ci /\ r.tfes => r.halted
        BY <2>1 DEF PortInv, IssuedByRead, r
      <3>6. p = Port => StoppedFirst(drv.pc, n)
        BY <3>3, <3>5 DEF StoppedFirst
      <3>. QED  BY <3>3, <3>4, <3>5, <3>6
    <2>. QED  BY <2>2, <2>3
  <1>. QED  BY <1>1, <1>2 DEF DriverInv

\* The inductive invariant of the ports' registers.
LEMMA DriverInvariant == Spec => []DriverInv
  <1>1. DriverInv /\ [Next]_vars => DriverInv'
    <2>. SUFFICES ASSUME DriverInv, [Next]_vars PROVE DriverInv'
      OBVIOUS
    <2>1. CASE UNCHANGED <<hba, frames, drv, owner>>
      BY <2>1 DEF DriverInv, PortInv, IssuedByRead, Port
    <2>2. CASE Scan \/ UNCHANGED vars
      BY <2>1, <2>2 DEF Scan, vars, ahciVars
    <2>3. CASE activate_all \/ ReadContinues
      <3>1. CASE StopCMD_ST \/ StopCMD_FRE \/ StartCMD_FRE \/ StartCMD_ST \/ IssueCommand
        <4>1. UNCHANGED <<frames, owner>>
          BY <3>1 DEF StopCMD_ST, StopCMD_FRE, StartCMD_FRE, StartCMD_ST, IssueCommand,
             AllocatorFrames
        <4>. QED  BY <3>1, <4>1, RegisterStep
      <3>2. CASE ConfigureCommandList \/ ConfigureFis \/ ConfigureTable
        BY <3>2, MemoryStep
      <3>3. CASE ActivationEnds(Len(drivers)) \/ Activate \/ StopCMD_Wait \/ ConfigureFails
                   \/ ConfigurePort \/ NextPort \/ DeviceStaysBusy \/ CommandDone
                   \/ CommandFailed
        <4>1. UNCHANGED <<hba, frames, owner>>
          BY <3>3 DEF ActivationEnds, Activate, ProbePorts, StopCMD_Wait, ConfigureFails,
             ConfigurePort, NextPort, DeviceStaysBusy, CommandDone, CommandFailed, AllocatorFrames
        <4>. QED  BY <3>3, <4>1, DriverOnlyStep
      <3>. QED  BY <2>3, <3>1, <3>2, <3>3 DEF activate_all, ReadContinues, ConfigureStep, ReadStep
    <2>4. CASE Read
      BY <2>4, StartReadStep DEF Read
    <2>5. CASE \E p \in DOMAIN hba : Controller(p)
      BY <2>5, ControllerStep DEF Controller
    <2>. QED  BY <2>2, <2>3, <2>4, <2>5 DEF Next
  <1>. QED  BY <1>1, DriverInitially, PTL DEF Spec

-----------------------------------------------------------------------------

\* The registers and tables that say which memory a port uses, and what it is to do
\* there, change only while it is idle.
Reprogrammed(p) ==
  LET r == hba[p] n == hba'[p]
  IN  /\ <<n.list, n.fis, n.table>> # <<r.list, r.fis, r.table>> => ~r.cr /\ ~r.fr
      /\ n.tag # r.tag => ~Executing(r)

\* A new command list is written to an idle port, and clears no other's.
LEMMA ListStepOfIdlePort ==
  ASSUME DriverInv, ConfigureCommandList, AllLow', NEW p \in DOMAIN hba
  PROVE  Reprogrammed(p)
  <1>1. PICK f \in frames :
          /\ Requested(f)
          /\ hba'[p] = IF p = Port THEN [Reg EXCEPT !.list = f, !.table = NoTables]
                       ELSE IF hba[p].list = Low(f) THEN [hba[p] EXCEPT !.table = NoTables]
                       ELSE hba[p]
    BY DEF ConfigureCommandList
  <1>2. f \in Nat \ {0} /\ f \notin DOMAIN owner /\ f < LowFrames
    BY <1>1, RequestedFrame DEF AllLow
  <1>3. Low(f) = f
    BY <1>2, AhciAssumption DEF Low
  <1>4. PortInv(p) /\ IsRegister(hba[p])
    BY DEF DriverInv, PortInv
  <1>5. CASE p = Port
    <2>1. drv.pc = "CommandList" /\ hba'[p] = [hba[p] EXCEPT !.list = f, !.table = NoTables]
      BY <1>1, <1>5 DEF ConfigureCommandList, Reg
    <2>. QED  BY <1>4, <1>5, <2>1 DEF PortInv, StoppedFirst, IsRegister, Reprogrammed
  <1>6. CASE p # Port
    <2>1. hba[p].list # Low(f)
      BY <1>2, <1>3, <1>4 DEF PortInv, NULL
    <2>. QED  BY <1>1, <1>6, <2>1 DEF Reprogrammed
  <1>. QED  BY <1>5, <1>6

\* So are the received frames and the tables.
LEMMA ConfigureStepOfIdlePort ==
  ASSUME DriverInv, ConfigureFis \/ ConfigureTable, NEW p \in DOMAIN hba
  PROVE  Reprogrammed(p)
  <1>1. PortInv(p) /\ IsRegister(hba[p]) /\ drv.pc \in {"Fis", "Table"}
    BY DEF DriverInv, PortInv, ConfigureFis, ConfigureTable
  <1>2. CASE p = Port
    <2>1. ~hba[p].cr /\ ~hba[p].fr
      BY <1>1, <1>2 DEF PortInv, StoppedFirst
    <2>2. PICK x : hba'[p] \in {[hba[p] EXCEPT !.fis = x], [hba[p] EXCEPT !.table = x]}
      BY <1>2 DEF ConfigureFis, ConfigureTable, SetPort, Reg
    <2>. QED  BY <1>1, <2>1, <2>2 DEF IsRegister, Reprogrammed
  <1>3. CASE p # Port
    BY <1>3 DEF ConfigureFis, ConfigureTable, SetPort, Reprogrammed
  <1>. QED  BY <1>2, <1>3

\* A command is written where none is executed.
LEMMA ReadOfIdlePort ==
  ASSUME DriverInv, NEW q \in DOMAIN hba, NEW tag, StartRead(q, tag), NEW p \in DOMAIN hba
  PROVE  Reprogrammed(p)
  <1>1. PortInv(p) /\ IsRegister(hba[p]) /\ drv.pc = "Ready"
    BY DEF DriverInv, PortInv, StartRead
  <1>2. hba'[p] = IF p = q THEN [hba[p] EXCEPT !.tfes = FALSE, !.tag = tag] ELSE hba[p]
    BY DEF StartRead
  <1>3. ~Executing(hba[p])
    BY <1>1 DEF PortInv, IssuedByRead, Executing
  <1>. QED  BY <1>1, <1>2, <1>3 DEF IsRegister, Reprogrammed

\* The other steps leave alone what says which memory a port uses.
LEMMA OtherSteps ==
  ASSUME DriverInv, NEW p \in DOMAIN hba, NEW q \in DOMAIN hba,
         StopCMD_ST \/ StopCMD_FRE \/ StartCMD_FRE \/ StartCMD_ST \/ IssueCommand \/ HbaStep(q)
  PROVE  Reprogrammed(p)
  <1>1. IsRegister(hba[p])
    BY DEF DriverInv, PortInv
  <1>2. CASE hba'[p] = hba[p]
    BY <1>2 DEF Reprogrammed
  <1>3. CASE StopCMD_ST \/ StopCMD_FRE \/ StartCMD_FRE \/ StartCMD_ST \/ IssueCommand
    <2>1. hba'[p] \in {hba[p], [hba[p] EXCEPT !.st = FALSE], [hba[p] EXCEPT !.st = TRUE],
                       [hba[p] EXCEPT !.fre = FALSE], [hba[p] EXCEPT !.fre = TRUE],
                       [hba[p] EXCEPT !.ci = TRUE]}
      BY <1>3 DEF StopCMD_ST, StopCMD_FRE, StartCMD_FRE, StartCMD_ST, IssueCommand, SetPort, Reg
    <2>. QED  BY <1>1, <2>1 DEF IsRegister, Reprogrammed
  <1>4. CASE HbaStep(q)
    <2>1. \/ hba'[p] \in {hba[p], [hba[p] EXCEPT !.fr = TRUE], [hba[p] EXCEPT !.cr = TRUE],
                          [hba[p] EXCEPT !.fr = FALSE],
                          [hba[p] EXCEPT !.cr = FALSE, !.ci = FALSE, !.halted = FALSE],
                          [hba[p] EXCEPT !.busy = FALSE],
                          [hba[p] EXCEPT !.tfes = TRUE, !.halted = TRUE]}
          \/ \E busy \in BOOLEAN : hba'[p] = [hba[p] EXCEPT !.ci = FALSE, !.busy = busy]
      BY <1>4 DEF HbaStep, HbaStarts, HbaStops, DeviceReady, HbaCompletes, HbaFails
    <2>. QED  BY <1>1, <2>1 DEF IsRegister, Reprogrammed
  <1>. QED  BY <1>3, <1>4

\* The memory of a port and the command in it are exchanged only while the port is
\* idle: for every machine, as long as memory below 4 GiB lasts.
THEOREM IdlePortsCorrect == Spec => OnlyIdlePortsReprogrammed
  <1>1. DriverInv /\ [Next]_vars =>
          [AllLow' => \A p \in DOMAIN hba : Reprogrammed(p)]_ahciVars
    <2>. SUFFICES ASSUME DriverInv, [Next]_vars, AllLow', NEW p \in DOMAIN hba,
                         ahciVars' # ahciVars
                  PROVE  Reprogrammed(p)
      OBVIOUS
    <2>1. CASE hba' = hba
      BY <2>1 DEF Reprogrammed
    <2>2. CASE Scan \/ UNCHANGED vars
      BY <2>2 DEF Scan, vars
    <2>3. CASE activate_all \/ ReadContinues
      <3>1. CASE StopCMD_ST \/ StopCMD_FRE \/ StartCMD_FRE \/ StartCMD_ST \/ IssueCommand
        BY <3>1, OtherSteps
      <3>2. CASE ConfigureCommandList \/ ConfigureFis \/ ConfigureTable
        BY <3>2, ListStepOfIdlePort, ConfigureStepOfIdlePort
      <3>3. CASE ActivationEnds(Len(drivers)) \/ Activate \/ StopCMD_Wait \/ ConfigureFails
                   \/ ConfigurePort \/ NextPort \/ DeviceStaysBusy \/ CommandDone
                   \/ CommandFailed
        BY <2>1, <3>3 DEF ActivationEnds, Activate, ProbePorts, StopCMD_Wait, ConfigureFails,
           ConfigurePort, NextPort, DeviceStaysBusy, CommandDone, CommandFailed
      <3>. QED  BY <2>3, <3>1, <3>2, <3>3 DEF activate_all, ReadContinues, ConfigureStep, ReadStep
    <2>4. CASE Read
      BY <2>4, ReadOfIdlePort DEF Read
    <2>5. CASE \E q \in DOMAIN hba : Controller(q)
      BY <2>5, OtherSteps DEF Controller
    <2>. QED  BY <2>2, <2>3, <2>4, <2>5 DEF Next
  <1>2. [AllLow' => \A p \in DOMAIN hba : Reprogrammed(p)]_ahciVars <=>
          [AllLow' => \A p \in DOMAIN hba :
             LET r == hba[p] n == hba'[p]
             IN  /\ <<n.list, n.fis, n.table>> # <<r.list, r.fis, r.table>> => ~r.cr /\ ~r.fr
                 /\ n.tag # r.tag => ~Executing(r)]_ahciVars
    BY DEF Reprogrammed
  <1>. QED  BY <1>1, <1>2, DriverInvariant, PTL DEF Spec, OnlyIdlePortsReprogrammed

-----------------------------------------------------------------------------
(* The scan.                                                               *)

Scanning == {"EnumerateBus", "EnumerateDevice", "EnumerateFunction"}

PlaceOf(e, b, d, f) == <<machine.mcfg[e].base, b, d, f>>

\* There is a function at place d, f of bus b of segment e, and the scan looks there.
Found(e, b, d, f) ==
  /\ e \in DOMAIN machine.mcfg /\ b \in Nat /\ d \in Nat /\ f \in Nat
  /\ machine.mcfg[e].start <= b /\ b < machine.mcfg[e].end
  /\ d < DeviceCount /\ f < FunctionCount
  /\ Present(PlaceOf(e, b, 0, 0)) /\ Present(PlaceOf(e, b, d, 0)) /\ Present(PlaceOf(e, b, d, f))

\* The loops have been there.
Passed(e, b, d, f) ==
  \/ e < scan.entry
  \/ e = scan.entry /\ b < scan.bus
  \/ /\ e = scan.entry /\ b = scan.bus /\ scan.pc \in {"EnumerateDevice", "EnumerateFunction"}
     /\ d < scan.device
  \/ /\ e = scan.entry /\ b = scan.bus /\ scan.pc = "EnumerateFunction"
     /\ d = scan.device /\ f < scan.function

\* The loops are there.
Here(e, b, d, f) ==
  /\ scan.pc = "EnumerateFunction" /\ scan.function < FunctionCount
  /\ e = scan.entry /\ b = scan.bus /\ d = scan.device /\ f = scan.function

Listed(a) ==
  \E e, b, d, f \in Nat : Found(e, b, d, f) /\ Passed(e, b, d, f) /\ a = PlaceOf(e, b, d, f)

ScanType ==
  /\ machine \in Machines
  /\ scan \in [pc : Scanning \cup {"AddDrivers", "Done"}, entry : Nat \ {0}, bus : Nat,
               device : 0 .. DeviceCount, function : 0 .. FunctionCount, i : Nat]

\* Where the loops can be.
ScanPlace ==
  /\ scan.pc \in Scanning => scan.entry \in DOMAIN machine.mcfg /\ Segment.start <= scan.bus
  /\ scan.pc \in {"EnumerateDevice", "EnumerateFunction"} =>
       scan.bus < Segment.end /\ Present(BusAddress)
  /\ scan.pc = "EnumerateFunction" => scan.device < DeviceCount /\ Present(DeviceAddress)
  /\ scan.pc \notin Scanning => scan.entry > Len(machine.mcfg)

\* The segments of the machine.
LEMMA Segments ==
  ASSUME machine \in Machines
  PROVE  /\ Len(machine.mcfg) \in Nat /\ DOMAIN machine.mcfg = 1 .. Len(machine.mcfg)
         /\ \A e \in DOMAIN machine.mcfg : machine.mcfg[e] \in [base : Nat, start : Nat, end : Nat]
         /\ \A i, j \in DOMAIN machine.mcfg :
              LET s == machine.mcfg[i] t == machine.mcfg[j]
              IN  i < j => s.base # t.base \/ s.end <= t.start \/ t.end <= s.start
  BY SegmentsAssumption, LenProperties, ElementOfSeq

\* The first place of a segment, or the end of the scan.
LEMMA FirstBusIs ==
  ASSUME machine \in Machines, NEW e \in Nat \ {0}
  PROVE  /\ FirstBus(e).entry = e /\ FirstBus(e).device = 0 /\ FirstBus(e).function = 0
         /\ FirstBus(e).bus \in Nat /\ FirstBus(e).i \in Nat
         /\ FirstBus(e) \in [pc : {"EnumerateBus", "AddDrivers"}, entry : Nat \ {0}, bus : Nat,
                             device : {0}, function : {0}, i : {0, 1}]
         /\ IF e \in DOMAIN machine.mcfg
            THEN FirstBus(e).pc = "EnumerateBus" /\ FirstBus(e).bus = machine.mcfg[e].start
            ELSE FirstBus(e).pc = "AddDrivers" /\ FirstBus(e).bus = 0 /\ FirstBus(e).i = 1
  <1>1. CASE e <= Len(machine.mcfg)
    <2>1. e \in DOMAIN machine.mcfg /\ machine.mcfg[e].start \in Nat
      BY <1>1, Segments
    <2>. QED  BY <1>1, <2>1 DEF FirstBus
  <1>2. CASE ~(e <= Len(machine.mcfg))
    <2>1. e \notin DOMAIN machine.mcfg
      BY <1>2, Segments
    <2>. QED  BY <1>2, <2>1 DEF FirstBus
  <1>. QED  BY <1>1, <1>2

\* Going on to the next bus passes by no function.
LEMMA BusStep ==
  ASSUME ScanType, ScanPlace, EnumerateBus
  PROVE  /\ ScanType' /\ ScanPlace'
         /\ \A e, b, d, f \in Nat : Found(e, b, d, f) =>
              (Passed(e, b, d, f)' <=> Passed(e, b, d, f))
  <1>0. machine' = machine /\ machine \in Machines
    BY DEF EnumerateBus, ScanType
  <1>. USE ScanAssumption
  <1>1. /\ scan.entry \in DOMAIN machine.mcfg /\ scan.entry \in Nat \ {0} /\ scan.bus \in Nat
        /\ Segment \in [base : Nat, start : Nat, end : Nat] /\ Segment.start <= scan.bus
    BY <1>0, Segments DEF ScanType, ScanPlace, EnumerateBus, Segment, Scanning
  <1>2. CASE scan.bus >= Segment.end
    <2>1. scan' = FirstBus(scan.entry + 1)
      BY <1>2 DEF EnumerateBus
    <2>. DEFINE next == scan.entry + 1
    <2>2. next \in Nat \ {0}
      BY <1>1
    <2>. HIDE DEF next
    <2>3. /\ scan'.entry = next
          /\ scan' \in [pc : {"EnumerateBus", "AddDrivers"}, entry : Nat \ {0}, bus : Nat,
                        device : {0}, function : {0}, i : {0, 1}]
          /\ IF next \in DOMAIN machine.mcfg
             THEN scan'.pc = "EnumerateBus" /\ scan'.bus = machine.mcfg[next].start
             ELSE scan'.pc = "AddDrivers" /\ scan'.bus = 0
      BY <1>0, <2>1, <2>2, FirstBusIs DEF next
    <2>4. ScanType'
      BY <1>0, <2>3 DEF ScanType, Scanning
    <2>5. ScanPlace'
      <3>1. CASE next \in DOMAIN machine.mcfg
        <4>1. machine.mcfg[next].start \in Nat
          BY <1>0, <3>1, Segments
        <4>. QED  BY <1>0, <2>3, <3>1, <4>1 DEF ScanPlace, Scanning, Segment
      <3>2. CASE next \notin DOMAIN machine.mcfg
        <4>1. next > Len(machine.mcfg)
          BY <1>0, <2>2, <3>2, Segments
        <4>. QED  BY <1>0, <2>3, <3>2, <4>1 DEF ScanPlace, Scanning
      <3>. QED  BY <3>1, <3>2
    <2>6. ASSUME NEW e \in Nat, NEW b \in Nat, NEW d \in Nat, NEW f \in Nat, Found(e, b, d, f)
          PROVE  Passed(e, b, d, f)' <=> Passed(e, b, d, f)
      <3>1. /\ e \in DOMAIN machine.mcfg /\ machine.mcfg[e].start <= b
            /\ b < machine.mcfg[e].end /\ machine.mcfg[e].start \in Nat
        BY <1>0, <2>6, Segments DEF Found
      <3>2. Passed(e, b, d, f) <=> e < scan.entry \/ (e = scan.entry /\ b < scan.bus)
        BY DEF Passed, EnumerateBus
      <3>3. Passed(e, b, d, f)' <=> e < next \/ (e = next /\ b < scan'.bus)
        BY <2>3 DEF Passed
      <3>4. ~(e = next /\ b < scan'.bus)
        BY <2>3, <3>1
      <3>5. e = scan.entry => b < scan.bus
        BY <1>1, <1>2, <3>1 DEF Segment
      <3>. QED  BY <1>1, <3>2, <3>3, <3>4, <3>5 DEF next
    <2>. QED  BY <2>4, <2>5, <2>6
  <1>3. CASE ~(scan.bus >= Segment.end) /\ Present(BusAddress)
    <2>1. scan' = [scan EXCEPT !.pc = "EnumerateDevice", !.device = 0]
      BY <1>3 DEF EnumerateBus
    <2>2. /\ scan'.pc = "EnumerateDevice" /\ scan'.device = 0 /\ scan'.entry = scan.entry
          /\ scan'.bus = scan.bus
      BY <2>1 DEF ScanType
    <2>5. ScanType'
      <3>1. 0 \in 0 .. DeviceCount /\ "EnumerateDevice" \in Scanning
        BY DEF Scanning
      <3>. QED  BY <1>0, <2>1, <3>1 DEF ScanType
    <2>3. ScanPlace'
      BY <1>0, <1>1, <1>3, <2>2 DEF ScanPlace, Scanning, Segment, BusAddress, Present
    <2>4. ASSUME NEW e \in Nat, NEW b \in Nat, NEW d \in Nat, NEW f \in Nat
          PROVE  Passed(e, b, d, f)' <=> Passed(e, b, d, f)
      BY <2>2 DEF Passed, EnumerateBus
    <2>. QED  BY <2>3, <2>4, <2>5
  <1>4. CASE ~(scan.bus >= Segment.end) /\ ~Present(BusAddress)
    <2>1. scan' = [scan EXCEPT !.bus = scan.bus + 1]
      BY <1>4 DEF EnumerateBus
    <2>2. /\ scan'.pc = "EnumerateBus" /\ scan'.entry = scan.entry
          /\ scan'.bus = scan.bus + 1
      BY <2>1 DEF ScanType, EnumerateBus
    <2>5. ScanType'
      <3>1. scan.bus + 1 \in Nat
        BY <1>1
      <3>. QED  BY <1>0, <2>1, <3>1 DEF ScanType
    <2>3. ScanPlace'
      BY <1>0, <1>1, <2>2 DEF ScanPlace, Scanning, Segment
    <2>4. ASSUME NEW e \in Nat, NEW b \in Nat, NEW d \in Nat, NEW f \in Nat, Found(e, b, d, f)
          PROVE  Passed(e, b, d, f)' <=> Passed(e, b, d, f)
      <3>1. ~(e = scan.entry /\ b = scan.bus)
        BY <1>4, <2>4 DEF Found, PlaceOf, BusAddress, Segment
      <3>. QED  BY <1>1, <2>2, <3>1 DEF Passed, EnumerateBus
    <2>. QED  BY <2>3, <2>4, <2>5
  <1>. QED  BY <1>2, <1>3, <1>4

\* Nor does going on to the next device.
LEMMA DeviceStep ==
  ASSUME ScanType, ScanPlace, EnumerateDevice
  PROVE  /\ ScanType' /\ ScanPlace'
         /\ \A e, b, d, f \in Nat : Found(e, b, d, f) =>
              (Passed(e, b, d, f)' <=> Passed(e, b, d, f))
  <1>0. machine' = machine /\ machine \in Machines
    BY DEF EnumerateDevice, ScanType
  <1>. USE ScanAssumption
  <1>1. /\ scan.entry \in DOMAIN machine.mcfg /\ scan.entry \in Nat \ {0} /\ scan.bus \in Nat
        /\ Segment \in [base : Nat, start : Nat, end : Nat] /\ Segment.start <= scan.bus
        /\ scan.bus < Segment.end /\ Present(BusAddress) /\ scan.device \in 0 .. DeviceCount
    BY <1>0, Segments DEF ScanType, ScanPlace, EnumerateDevice, Segment, Scanning
  <1>2. CASE scan.device = DeviceCount
    <2>1. scan' = [scan EXCEPT !.pc = "EnumerateBus", !.bus = scan.bus + 1]
      BY <1>2 DEF EnumerateDevice
    <2>2. /\ scan'.pc = "EnumerateBus" /\ scan'.entry = scan.entry /\ scan'.bus = scan.bus + 1
      BY <2>1 DEF ScanType
    <2>3. ScanType'
      <3>1. scan.bus + 1 \in Nat /\ "EnumerateBus" \in Scanning
        BY <1>1 DEF Scanning
      <3>. QED  BY <1>0, <2>1, <3>1 DEF ScanType
    <2>4. ScanPlace'
      BY <1>0, <1>1, <2>2 DEF ScanPlace, Scanning, Segment
    <2>5. ASSUME NEW e \in Nat, NEW b \in Nat, NEW d \in Nat, NEW f \in Nat, Found(e, b, d, f)
          PROVE  Passed(e, b, d, f)' <=> Passed(e, b, d, f)
      <3>1. d < scan.device
        BY <1>2, <2>5 DEF Found
      <3>. QED  BY <1>1, <2>2, <3>1 DEF Passed, EnumerateDevice
    <2>. QED  BY <2>3, <2>4, <2>5
  <1>3. CASE scan.device # DeviceCount /\ Present(DeviceAddress)
    <2>1. scan' = [scan EXCEPT !.pc = "EnumerateFunction", !.function = 0]
      BY <1>3 DEF EnumerateDevice
    <2>2. /\ scan'.pc = "EnumerateFunction" /\ scan'.function = 0 /\ scan'.entry = scan.entry
          /\ scan'.bus = scan.bus /\ scan'.device = scan.device
      BY <2>1 DEF ScanType
    <2>3. ScanType'
      <3>1. 0 \in 0 .. FunctionCount /\ "EnumerateFunction" \in Scanning
        BY DEF Scanning
      <3>. QED  BY <1>0, <2>1, <3>1 DEF ScanType
    <2>4. ScanPlace'
      <3>1. scan.device < DeviceCount
        BY <1>1, <1>3
      <3>. QED  BY <1>0, <1>1, <1>3, <2>2, <3>1
                DEF ScanPlace, Scanning, Segment, BusAddress, DeviceAddress, Present
    <2>5. ASSUME NEW e \in Nat, NEW b \in Nat, NEW d \in Nat, NEW f \in Nat
          PROVE  Passed(e, b, d, f)' <=> Passed(e, b, d, f)
      BY <2>2 DEF Passed, EnumerateDevice
    <2>. QED  BY <2>3, <2>4, <2>5
  <1>4. CASE scan.device # DeviceCount /\ ~Present(DeviceAddress)
    <2>0. scan.device + 1 \in 0 .. DeviceCount
      BY <1>1, <1>4
    <2>1. scan' = [scan EXCEPT !.device = scan.device + 1]
      BY <1>4 DEF EnumerateDevice
    <2>2. /\ scan'.pc = "EnumerateDevice" /\ scan'.entry = scan.entry
          /\ scan'.bus = scan.bus /\ scan'.device = scan.device + 1
      BY <2>1 DEF ScanType, EnumerateDevice
    <2>3. ScanType'
      BY <1>0, <2>0, <2>1 DEF ScanType
    <2>4. ScanPlace'
      BY <1>0, <1>1, <2>2 DEF ScanPlace, Scanning, Segment, BusAddress, Present
    <2>5. ASSUME NEW e \in Nat, NEW b \in Nat, NEW d \in Nat, NEW f \in Nat, Found(e, b, d, f)
          PROVE  Passed(e, b, d, f)' <=> Passed(e, b, d, f)
      <3>1. ~(e = scan.entry /\ b = scan.bus /\ d = scan.device)
        BY <1>4, <2>5 DEF Found, PlaceOf, DeviceAddress, Segment
      <3>. QED  BY <1>1, <2>2, <3>1 DEF Passed, EnumerateDevice
    <2>. QED  BY <2>3, <2>4, <2>5
  <1>. QED  BY <1>2, <1>3, <1>4

\* Going on to the next function passes by the one looked at.
LEMMA FunctionStep ==
  ASSUME ScanType, ScanPlace, EnumerateFunction
  PROVE  /\ ScanType' /\ ScanPlace'
         /\ \A e, b, d, f \in Nat : Found(e, b, d, f) =>
              (Passed(e, b, d, f)' <=> Passed(e, b, d, f) \/ Here(e, b, d, f))
  <1>0. machine' = machine /\ machine \in Machines
    BY DEF EnumerateFunction, ScanType
  <1>. USE ScanAssumption
  <1>1. /\ scan.entry \in DOMAIN machine.mcfg /\ scan.entry \in Nat \ {0} /\ scan.bus \in Nat
        /\ Segment \in [base : Nat, start : Nat, end : Nat] /\ Segment.start <= scan.bus
        /\ scan.bus < Segment.end /\ Present(BusAddress) /\ scan.device \in 0 .. DeviceCount
        /\ scan.device < DeviceCount /\ Present(DeviceAddress)
        /\ scan.function \in 0 .. FunctionCount
    BY <1>0, Segments DEF ScanType, ScanPlace, EnumerateFunction, Segment, Scanning
  <1>2. CASE scan.function = FunctionCount
    <2>0. scan.device + 1 \in 0 .. DeviceCount
      BY <1>1
    <2>1. scan' = [scan EXCEPT !.pc = "EnumerateDevice", !.device = scan.device + 1]
      BY <1>2 DEF EnumerateFunction
    <2>2. /\ scan'.pc = "EnumerateDevice" /\ scan'.entry = scan.entry /\ scan'.bus = scan.bus
          /\ scan'.device = scan.device + 1
      BY <2>1 DEF ScanType
    <2>3. ScanType'
      <3>1. "EnumerateDevice" \in Scanning
        BY DEF Scanning
      <3>. QED  BY <1>0, <2>0, <2>1, <3>1 DEF ScanType
    <2>4. ScanPlace'
      BY <1>0, <1>1, <2>2 DEF ScanPlace, Scanning, Segment, BusAddress, Present
    <2>5. ASSUME NEW e \in Nat, NEW b \in Nat, NEW d \in Nat, NEW f \in Nat, Found(e, b, d, f)
          PROVE  Passed(e, b, d, f)' <=> Passed(e, b, d, f) \/ Here(e, b, d, f)
      <3>1. f < scan.function /\ ~Here(e, b, d, f)
        BY <1>2, <2>5 DEF Found, Here
      <3>. QED  BY <1>1, <2>2, <3>1 DEF Passed, EnumerateFunction
    <2>. QED  BY <2>3, <2>4, <2>5
  <1>3. CASE scan.function # FunctionCount
    <2>0. scan.function + 1 \in 0 .. FunctionCount /\ scan.function < FunctionCount
      BY <1>1, <1>3
    <2>1. scan' = [scan EXCEPT !.function = scan.function + 1]
      BY <1>3 DEF EnumerateFunction
    <2>2. /\ scan'.pc = "EnumerateFunction" /\ scan'.entry = scan.entry /\ scan'.bus = scan.bus
          /\ scan'.device = scan.device /\ scan'.function = scan.function + 1
      BY <2>1 DEF ScanType, EnumerateFunction
    <2>3. ScanType'
      BY <1>0, <2>0, <2>1 DEF ScanType
    <2>4. ScanPlace'
      BY <1>0, <1>1, <2>2
         DEF ScanPlace, Scanning, Segment, BusAddress, DeviceAddress, Present
    <2>5. ASSUME NEW e \in Nat, NEW b \in Nat, NEW d \in Nat, NEW f \in Nat
          PROVE  Passed(e, b, d, f)' <=> Passed(e, b, d, f) \/ Here(e, b, d, f)
      <3>1. f < scan.function + 1 <=> f < scan.function \/ f = scan.function
        BY <1>1
      <3>. QED  BY <2>0, <2>2, <3>1 DEF Passed, Here, EnumerateFunction
    <2>. QED  BY <2>3, <2>4, <2>5
  <1>. QED  BY <1>2, <1>3

-----------------------------------------------------------------------------
(* The tables of functions and of drivers.                                 *)

\* The table lists what the scan has passed, as long as it has room, and nothing twice.
ScanTable ==
  /\ s_pci_devices \in Seq(DOMAIN machine.classes) /\ Len(s_pci_devices) <= MaxDevices
  /\ \A i \in 1 .. Len(s_pci_devices) : Listed(s_pci_devices[i])
  /\ Len(s_pci_devices) < MaxDevices =>
       \A a : Listed(a) => \E i \in 1 .. Len(s_pci_devices) : s_pci_devices[i] = a
  /\ \A i, j \in 1 .. Len(s_pci_devices) : i < j => s_pci_devices[i] # s_pci_devices[j]

AHCIs == {a \in DOMAIN machine.classes : machine.classes[a] = "AHCI"}

\* The drivers ds are those of the functions of s before place i that are in C, as long
\* as there is room.
DriversBefore(ds, s, C, i) ==
  /\ \A k \in 1 .. Len(ds) : \E m \in 1 .. Len(s) : m < i /\ s[m] = ds[k] /\ ds[k] \in C
  /\ InOrderOf(ds, s)
  /\ Len(ds) < DriverNum =>
       \A m \in 1 .. Len(s) : m < i /\ s[m] \in C => \E k \in 1 .. Len(ds) : ds[k] = s[m]

DriverTable ==
  /\ drivers \in Seq(DOMAIN machine.classes) /\ Len(drivers) <= DriverNum
  /\ scan.pc \in Scanning => drivers = <<>>
  /\ scan.pc \notin Scanning =>
       /\ scan.i \in 1 .. Len(s_pci_devices) + 1
       /\ DriversBefore(drivers, s_pci_devices, AHCIs, scan.i)
  /\ scan.pc = "Done" => scan.i = Len(s_pci_devices) + 1

ScanInv == ScanType /\ ScanPlace /\ ScanTable /\ DriverTable

\* What the enumeration passes by is listed.
LEMMA ListedStep ==
  ASSUME ScanType, ScanPlace, NEW a
  PROVE  /\ EnumerateBus \/ EnumerateDevice => (Listed(a)' <=> Listed(a))
         /\ EnumerateFunction =>
              (Listed(a)' <=> \/ Listed(a)
                              \/ /\ scan.function < FunctionCount /\ Present(FunctionAddress)
                                 /\ a = FunctionAddress)
  <1>1. ASSUME machine' = machine, NEW e, NEW b, NEW d, NEW f
        PROVE  /\ Found(e, b, d, f)' <=> Found(e, b, d, f)
               /\ PlaceOf(e, b, d, f)' = PlaceOf(e, b, d, f)
    BY <1>1 DEF Found, PlaceOf, Present
  <1>2. ASSUME EnumerateBus \/ EnumerateDevice PROVE Listed(a)' <=> Listed(a)
    <2>1. machine' = machine
      BY <1>2 DEF EnumerateBus, EnumerateDevice
    <2>2. \A e, b, d, f \in Nat : Found(e, b, d, f) => (Passed(e, b, d, f)' <=> Passed(e, b, d, f))
      BY <1>2, BusStep, DeviceStep
    <2>. QED  BY <1>1, <2>1, <2>2 DEF Listed
  <1>3. ASSUME EnumerateFunction
        PROVE  Listed(a)' <=> \/ Listed(a)
                              \/ /\ scan.function < FunctionCount /\ Present(FunctionAddress)
                                 /\ a = FunctionAddress
    <2>1. machine' = machine
      BY <1>3 DEF EnumerateFunction
    <2>2. \A e, b, d, f \in Nat : Found(e, b, d, f) =>
            (Passed(e, b, d, f)' <=> Passed(e, b, d, f) \/ Here(e, b, d, f))
      BY <1>3, FunctionStep
    <2>3. (\E e, b, d, f \in Nat : Found(e, b, d, f) /\ Here(e, b, d, f) /\ a = PlaceOf(e, b, d, f))
            <=> scan.function < FunctionCount /\ Present(FunctionAddress) /\ a = FunctionAddress
      <3>1. ASSUME NEW e, NEW b, NEW d, NEW f, Found(e, b, d, f), Here(e, b, d, f)
            PROVE  /\ scan.function < FunctionCount /\ Present(FunctionAddress)
                   /\ PlaceOf(e, b, d, f) = FunctionAddress
        BY <3>1 DEF Found, Here, PlaceOf, FunctionAddress, Segment
      <3>2. ASSUME scan.function < FunctionCount, Present(FunctionAddress)
            PROVE  LET e == scan.entry b == scan.bus d == scan.device f == scan.function
                   IN  /\ e \in Nat /\ b \in Nat /\ d \in Nat /\ f \in Nat
                       /\ Found(e, b, d, f) /\ Here(e, b, d, f)
                       /\ PlaceOf(e, b, d, f) = FunctionAddress
        <4>1. /\ scan.entry \in Nat /\ scan.bus \in Nat /\ scan.device \in Nat
              /\ scan.function \in Nat /\ scan.pc = "EnumerateFunction"
          BY <1>3, ScanAssumption DEF ScanType, EnumerateFunction
        <4>2. /\ scan.entry \in DOMAIN machine.mcfg /\ Segment.start <= scan.bus
              /\ scan.bus < Segment.end /\ Present(BusAddress) /\ Present(DeviceAddress)
              /\ scan.device < DeviceCount
          BY <4>1 DEF ScanPlace, Scanning
        <4>. QED  BY <3>2, <4>1, <4>2
                  DEF Found, Here, PlaceOf, FunctionAddress, DeviceAddress, BusAddress, Segment
      <3>. QED  BY <3>1, <3>2
    <2>. QED  BY <1>1, <2>1, <2>2, <2>3 DEF Listed
  <1>. QED  BY <1>2, <1>3

\* A function is at one place only, and the loops reach it once.
LEMMA NotYetListed ==
  ASSUME ScanType, ScanPlace, EnumerateFunction
  PROVE  ~Listed(FunctionAddress)
  <1>1. SUFFICES ASSUME NEW e \in Nat, NEW b \in Nat, NEW d \in Nat, NEW f \in Nat,
                        Found(e, b, d, f), Passed(e, b, d, f),
                        FunctionAddress = PlaceOf(e, b, d, f)
                 PROVE  FALSE
    BY DEF Listed
  <1>2. /\ b = scan.bus /\ d = scan.device /\ f = scan.function
        /\ Segment.base = machine.mcfg[e].base
    BY <1>1 DEF FunctionAddress, PlaceOf
  <1>3. /\ scan.pc = "EnumerateFunction" /\ scan.entry \in Nat
        /\ scan.bus \in Nat /\ scan.device \in Nat /\ scan.function \in Nat
    BY ScanAssumption DEF ScanType, EnumerateFunction
  <1>4. e < scan.entry
    BY <1>1, <1>2, <1>3 DEF Passed
  <1>5. /\ e \in DOMAIN machine.mcfg /\ machine.mcfg[e].start <= b /\ b < machine.mcfg[e].end
        /\ scan.entry \in DOMAIN machine.mcfg /\ Segment.start <= b /\ b < Segment.end
    BY <1>1, <1>2, <1>3 DEF Found, ScanPlace, Scanning
  <1>6. LET s == machine.mcfg[e] t == machine.mcfg[scan.entry]
        IN  /\ s.base # t.base \/ s.end <= t.start \/ t.end <= s.start
            /\ s \in [base : Nat, start : Nat, end : Nat]
            /\ t \in [base : Nat, start : Nat, end : Nat]
    BY <1>4, <1>5, Segments DEF ScanType
  <1>. QED  BY <1>2, <1>3, <1>5, <1>6 DEF Segment

\* The function looked at is listed if it is there and the table has room.
LEMMA FunctionTable ==
  ASSUME ScanType, ScanPlace, ScanTable, EnumerateFunction
  PROVE  ScanTable'
  <1>. DEFINE s == s_pci_devices
  <1>1. machine' = machine /\ s \in Seq(DOMAIN machine.classes) /\ Len(s) \in Nat
        /\ Len(s) <= MaxDevices
    BY LenProperties DEF EnumerateFunction, ScanTable
  <1>2. CASE scan.function < FunctionCount /\ Present(FunctionAddress) /\ Len(s) < MaxDevices
    <2>1. s' = Append(s, FunctionAddress) /\ FunctionAddress \in DOMAIN machine.classes
      BY <1>2, ScanAssumption DEF EnumerateFunction, ScanType, Present
    <2>a. PICK t : t = Append(s, FunctionAddress)
      OBVIOUS
    <2>2. /\ t \in Seq(DOMAIN machine.classes) /\ Len(t) = Len(s) + 1
          /\ \A i \in 1 .. Len(s) : t[i] = s[i]
          /\ t[Len(s) + 1] = FunctionAddress
      BY <1>1, <2>1, <2>a, AppendProperties
    <2>3. s' = t
      BY <2>1, <2>a
    <2>4. \A a : Listed(a)' <=> Listed(a) \/ a = FunctionAddress
      BY <1>2, ListedStep
    <2>5. /\ ~Listed(FunctionAddress) /\ \A i \in 1 .. Len(s) : Listed(s[i])
          /\ \A a : Listed(a) => \E i \in 1 .. Len(s) : s[i] = a
          /\ \A i, j \in 1 .. Len(s) : i < j => s[i] # s[j]
      BY <1>2, NotYetListed DEF ScanTable
    <2>6. \A i \in 1 .. Len(t) : i \in 1 .. Len(s) \/ i = Len(s) + 1
      BY <1>1, <2>2
    <2>7. \A i \in 1 .. Len(t) : Listed(t[i])'
      BY <2>2, <2>4, <2>5, <2>6
    <2>8. \A a : Listed(a)' => \E i \in 1 .. Len(t) : t[i] = a
      <3>1. Len(s) + 1 \in 1 .. Len(t) /\ \A i \in 1 .. Len(s) : i \in 1 .. Len(t)
        BY <1>1, <2>2
      <3>. QED  BY <2>2, <2>4, <2>5, <3>1
    <2>9. \A i, j \in 1 .. Len(t) : i < j => t[i] # t[j]
      <3>1. SUFFICES ASSUME NEW i \in 1 .. Len(t), NEW j \in 1 .. Len(t), i < j
            PROVE  t[i] # t[j]
        OBVIOUS
      <3>2. i \in 1 .. Len(s)
        BY <1>1, <2>2, <3>1
      <3>. QED  BY <2>2, <2>5, <2>6, <3>1, <3>2
    <2>10. Len(t) <= MaxDevices
      BY <1>1, <1>2, <2>2, ScanAssumption
    <2>. QED  BY <1>1, <2>2, <2>3, <2>7, <2>8, <2>9, <2>10 DEF ScanTable
  <1>3. CASE ~(scan.function < FunctionCount /\ Present(FunctionAddress) /\ Len(s) < MaxDevices)
    <2>1. s' = s
      BY <1>3, ScanAssumption DEF EnumerateFunction, ScanType
    <2>2. \A a : Listed(a) => Listed(a)'
      BY ListedStep
    <2>3. Len(s) < MaxDevices => \A a : Listed(a)' <=> Listed(a)
      BY <1>3, ListedStep
    <2>. QED  BY <1>1, <2>1, <2>2, <2>3 DEF ScanTable
  <1>. QED  BY <1>2, <1>3

\* A driver is added at the end.
LEMMA DriverAppended ==
  ASSUME NEW S, NEW C, NEW s \in Seq(S), NEW ds \in Seq(S), NEW i \in 1 .. Len(s), s[i] \in C,
         DriversBefore(ds, s, C, i), Len(ds) < DriverNum
  PROVE  LET t == Append(ds, s[i])
         IN  t \in Seq(S) /\ Len(t) = Len(ds) + 1 /\ DriversBefore(t, s, C, i + 1)
  <1>1. PICK x, t : x \in S /\ x = s[i] /\ t = Append(ds, x)
    BY ElementOfSeq
  <1>2. /\ t \in Seq(S) /\ Len(t) = Len(ds) + 1
        /\ \A k \in 1 .. Len(ds) : t[k] = ds[k]
        /\ t[Len(ds) + 1] = x
    BY <1>1, AppendProperties
  <1>3. /\ Len(ds) \in Nat /\ Len(s) \in Nat
        /\ DOMAIN ds = 1 .. Len(ds) /\ DOMAIN s = 1 .. Len(s) /\ DOMAIN t = 1 .. Len(t)
    BY <1>2, LenProperties
  <1>4. /\ \A k \in 1 .. Len(t) : k \in 1 .. Len(ds) \/ k = Len(ds) + 1
        /\ \A k \in 1 .. Len(ds) : k \in 1 .. Len(t)
        /\ Len(ds) + 1 \in 1 .. Len(t)
        /\ \A m \in 1 .. Len(s) : m < i + 1 <=> m < i \/ m = i
    BY <1>2, <1>3
  <1>5. /\ \A k \in 1 .. Len(ds) : \E m \in 1 .. Len(s) : m < i /\ s[m] = ds[k] /\ ds[k] \in C
        /\ \A m \in 1 .. Len(s) : m < i /\ s[m] \in C => \E k \in 1 .. Len(ds) : ds[k] = s[m]
    BY DEF DriversBefore
  <1>6. \A k \in 1 .. Len(t) : \E m \in 1 .. Len(s) : m < i + 1 /\ s[m] = t[k] /\ t[k] \in C
    BY <1>1, <1>2, <1>4, <1>5
  <1>7. \A m \in 1 .. Len(s) : m < i + 1 /\ s[m] \in C => \E k \in 1 .. Len(t) : t[k] = s[m]
    BY <1>1, <1>2, <1>4, <1>5
  <1>8. InOrderOf(t, s)
    <2>1. SUFFICES ASSUME NEW k \in 1 .. Len(t), NEW l \in 1 .. Len(t), k < l
          PROVE  \E m, n \in 1 .. Len(s) : m < n /\ s[m] = t[k] /\ s[n] = t[l]
      BY <1>3 DEF InOrderOf
    <2>2. k \in 1 .. Len(ds)
      BY <1>2, <1>3, <2>1
    <2>3. CASE l \in 1 .. Len(ds)
      <3>1. \A a, b \in DOMAIN ds : a < b =>
              \E m, n \in DOMAIN s : m < n /\ s[m] = ds[a] /\ s[n] = ds[b]
        BY DEF DriversBefore, InOrderOf
      <3>2. k \in DOMAIN ds /\ l \in DOMAIN ds
        BY <1>3, <2>2, <2>3
      <3>3. \E m, n \in DOMAIN s : m < n /\ s[m] = ds[k] /\ s[n] = ds[l]
        BY <2>1, <3>1, <3>2
      <3>. QED  BY <1>2, <1>3, <2>2, <2>3, <3>3
    <2>4. CASE l = Len(ds) + 1
      <3>1. PICK m \in 1 .. Len(s) : m < i /\ s[m] = t[k]
        BY <1>2, <1>5, <2>2
      <3>. QED  BY <1>1, <1>2, <2>4, <3>1
    <2>. QED  BY <1>4, <2>3, <2>4
  <1>. QED  BY <1>1, <1>2, <1>6, <1>7, <1>8 DEF DriversBefore

\* One more function is looked at.
LEMMA AddDriverStep ==
  ASSUME ScanInv, AddDriver
  PROVE  ScanInv'
  <1>. DEFINE s == s_pci_devices
              ds == drivers
  <1>1. /\ machine' = machine /\ s' = s /\ scan.pc = "AddDrivers" /\ scan.pc \notin Scanning
        /\ s \in Seq(DOMAIN machine.classes) /\ Len(s) \in Nat
        /\ ds \in Seq(DOMAIN machine.classes) /\ Len(ds) \in Nat /\ Len(ds) <= DriverNum
        /\ scan.i \in 1 .. Len(s) + 1
    BY LenProperties DEF AddDriver, ScanInv, ScanTable, DriverTable, Scanning
  <1>2. /\ scan'.pc \in {"AddDrivers", "Done"} /\ scan'.pc \notin Scanning
        /\ scan'.entry = scan.entry /\ scan'.bus = scan.bus
        /\ scan'.i \in Nat
        /\ ScanType'
    <2>1. CASE scan.i > Len(s)
      <3>1. scan' = [scan EXCEPT !.pc = "Done"]
        BY <2>1 DEF AddDriver
      <3>. QED  BY <1>1, <3>1 DEF ScanInv, ScanType, Scanning
    <2>2. CASE ~(scan.i > Len(s))
      <3>1. scan' = [scan EXCEPT !.i = scan.i + 1] /\ scan.i + 1 \in Nat
        BY <1>1, <2>2 DEF AddDriver
      <3>2. ScanType' /\ scan'.pc = scan.pc /\ scan'.entry = scan.entry /\ scan'.bus = scan.bus
            /\ scan'.i = scan.i + 1
        BY <1>1, <3>1 DEF ScanInv, ScanType
      <3>. QED  BY <1>1, <3>1, <3>2
    <2>. QED  BY <2>1, <2>2
  <1>3. ScanPlace'
    BY <1>1, <1>2 DEF ScanInv, ScanPlace, Scanning
  <1>4. \A a : Listed(a)' <=> Listed(a)
    <2>1. ASSUME NEW e, NEW b, NEW d, NEW f
          PROVE  /\ Found(e, b, d, f)' <=> Found(e, b, d, f)
                 /\ Passed(e, b, d, f)' <=> Passed(e, b, d, f)
                 /\ PlaceOf(e, b, d, f)' = PlaceOf(e, b, d, f)
      BY <1>1, <1>2 DEF Found, Passed, PlaceOf, Present
    <2>. QED  BY <2>1 DEF Listed
  <1>5. ScanTable'
    BY <1>1, <1>4 DEF ScanInv, ScanTable
  <1>6. DriversBefore(ds, s, AHCIs, scan.i) /\ AHCIs' = AHCIs
    BY <1>1 DEF ScanInv, DriverTable, AHCIs
  <1>7. scan.i \in 1 .. Len(s) => s[scan.i] \in DOMAIN machine.classes
    BY <1>1, ElementOfSeq
  <1>8. DriverTable'
    <2>1. CASE scan.i > Len(s)
      <3>1. ds' = ds /\ scan'.i = scan.i /\ scan.i = Len(s) + 1
        BY <1>1, <2>1 DEF AddDriver, ScanInv, ScanType
      <3>. QED  BY <1>1, <1>2, <1>6, <3>1 DEF DriverTable
    <2>2. CASE ~(scan.i > Len(s))
      <3>1. scan'.i = scan.i + 1 /\ scan'.pc = "AddDrivers"
        BY <1>1, <2>2 DEF AddDriver, ScanInv, ScanType
      <3>2. scan.i \in 1 .. Len(s) /\ scan.i + 1 \in 1 .. Len(s) + 1
        BY <1>1, <2>2
      <3>3. CASE s[scan.i] \in AHCIs /\ Len(ds) < DriverNum
        <4>1. ds' = Append(ds, s[scan.i])
          BY <2>2, <3>3, ScanAssumption DEF AddDriver, WithDriver, AHCIs
        <4>2. PICK S, C, x, y, i : S = DOMAIN machine.classes /\ C = AHCIs /\ x = s /\ y = ds
                                   /\ i = scan.i
          OBVIOUS
        <4>. HIDE DEF s, ds
        <4>a. /\ x \in Seq(S) /\ y \in Seq(S) /\ i \in 1 .. Len(x) /\ x[i] \in C
              /\ DriversBefore(y, x, C, i) /\ Len(y) < DriverNum
          BY <1>1, <1>6, <3>2, <3>3, <4>2
        <4>b. LET t == Append(y, x[i])
              IN  t \in Seq(S) /\ Len(t) = Len(y) + 1 /\ DriversBefore(t, x, C, i + 1)
          BY <4>a, DriverAppended
        <4>c. ds' = Append(y, x[i])
          BY <4>1, <4>2
        <4>d. /\ ds' \in Seq(DOMAIN machine.classes) /\ Len(ds') = Len(ds) + 1
              /\ DriversBefore(ds', s, AHCIs, scan.i + 1)
          BY <4>2, <4>b, <4>c
        <4>3. Len(ds) + 1 <= DriverNum
          BY <1>1, <3>3, ScanAssumption
        <4>. QED  BY <1>1, <1>2, <1>6, <3>1, <3>2, <4>d, <4>3 DEF DriverTable, s, ds
      <3>4. CASE ~(s[scan.i] \in AHCIs /\ Len(ds) < DriverNum)
        <4>1. ds' = ds
          BY <1>1, <1>7, <2>2, <3>2, <3>4, ScanAssumption DEF AddDriver, WithDriver, AHCIs
        <4>2. \A m \in 1 .. Len(s) : m < scan.i + 1 <=> m < scan.i \/ m = scan.i
          BY <1>1
        <4>3. DriversBefore(ds, s, AHCIs, scan.i + 1)
          BY <1>6, <3>4, <4>2 DEF DriversBefore
        <4>. QED  BY <1>1, <1>2, <1>6, <3>1, <3>2, <4>1, <4>3 DEF DriverTable
      <3>. QED  BY <3>3, <3>4
    <2>. QED  BY <2>1, <2>2
  <1>. QED  BY <1>2, <1>3, <1>5, <1>8 DEF ScanInv

\* Enumerating adds no driver.
LEMMA EnumerateStep ==
  ASSUME ScanInv, EnumerateBus \/ EnumerateDevice \/ EnumerateFunction
  PROVE  ScanInv'
  <1>1. machine' = machine /\ drivers' = drivers /\ scan.pc \in Scanning
    BY DEF EnumerateBus, EnumerateDevice, EnumerateFunction, Scanning
  <1>2. ScanType' /\ ScanPlace'
    BY BusStep, DeviceStep, FunctionStep DEF ScanInv
  <1>3. ScanTable'
    <2>1. CASE EnumerateBus \/ EnumerateDevice
      <3>1. s_pci_devices' = s_pci_devices /\ \A a : Listed(a)' <=> Listed(a)
        BY <2>1, ListedStep DEF ScanInv, EnumerateBus, EnumerateDevice
      <3>. QED  BY <1>1, <3>1 DEF ScanInv, ScanTable
    <2>. QED  BY <2>1, FunctionTable DEF ScanInv
  <1>4. drivers' = <<>>
    BY <1>1 DEF ScanInv, DriverTable
  <1>5. scan'.pc \notin Scanning => scan'.i = 1 /\ scan'.pc = "AddDrivers"
    <2>1. CASE EnumerateBus /\ scan' = FirstBus(scan.entry + 1)
      <3>1. machine \in Machines /\ scan.entry + 1 \in Nat \ {0}
        BY DEF ScanInv, ScanType
      <3>. QED  BY <2>1, <3>1, FirstBusIs DEF Scanning
    <2>2. CASE ~(EnumerateBus /\ scan' = FirstBus(scan.entry + 1))
      <3>1. scan'.pc \in Scanning
        BY <2>2 DEF ScanInv, ScanType, EnumerateBus, EnumerateDevice, EnumerateFunction, Scanning
      <3>. QED  BY <3>1
    <2>. QED  BY <2>1, <2>2
  <1>6. drivers' \in Seq(DOMAIN machine.classes) /\ Len(drivers') = 0 /\ Len(s_pci_devices') \in Nat
        /\ DOMAIN drivers' = {}
    BY <1>1, <1>3, <1>4, EmptySeq, LenProperties DEF ScanTable
  <1>7. DriverTable'
    <2>1. scan'.pc \notin Scanning => \A m \in 1 .. Len(s_pci_devices') : ~(m < scan'.i)
      BY <1>5, <1>6
    <2>2. scan'.pc \notin Scanning => scan'.i \in 1 .. Len(s_pci_devices') + 1
      BY <1>5, <1>6
    <2>3. 1 .. Len(drivers') = {} /\ Len(drivers') <= DriverNum
      BY <1>6, ScanAssumption
    <2>4. DriversBefore(drivers', s_pci_devices', AHCIs', scan'.i) \/ scan'.pc \in Scanning
      BY <1>6, <2>1, <2>3 DEF DriversBefore, InOrderOf
    <2>5. drivers' \in Seq(DOMAIN machine'.classes) /\ Len(drivers') <= DriverNum
      BY <1>1, <1>6, <2>3
    <2>6. scan'.pc # "Done"
      BY <1>5 DEF Scanning
    <2>7. scan'.pc \notin Scanning =>
            /\ scan'.i \in 1 .. Len(s_pci_devices') + 1
            /\ DriversBefore(drivers', s_pci_devices', AHCIs', scan'.i)
      BY <2>2, <2>4
    <2>. QED  BY <1>4, <2>5, <2>6, <2>7 DEF DriverTable
  <1>. QED  BY <1>2, <1>3, <1>7 DEF ScanInv

\* Before the scan nothing is passed and both tables are empty.
LEMMA ScanInitially == Init => ScanInv
  <1>. SUFFICES ASSUME Init PROVE ScanInv
    OBVIOUS
  <1>1. /\ machine \in Machines /\ s_pci_devices = <<>> /\ drivers = <<>>
        /\ scan = FirstBus(1)
    BY DEF Init, ScanInit
  <1>2. PICK one \in Nat \ {0} : one = 1
    OBVIOUS
  <1>3. /\ scan.entry = one
        /\ scan \in [pc : {"EnumerateBus", "AddDrivers"}, entry : Nat \ {0}, bus : Nat,
                     device : {0}, function : {0}, i : {0, 1}]
        /\ IF one \in DOMAIN machine.mcfg
           THEN scan.pc = "EnumerateBus" /\ scan.bus = machine.mcfg[one].start
           ELSE scan.pc = "AddDrivers" /\ scan.bus = 0 /\ scan.i = 1
    <2>1. scan = FirstBus(one)
      BY <1>1, <1>2
    <2>. QED  BY <1>1, <2>1, FirstBusIs
  <1>4. /\ Len(machine.mcfg) \in Nat /\ DOMAIN machine.mcfg = 1 .. Len(machine.mcfg)
        /\ \A e \in DOMAIN machine.mcfg : machine.mcfg[e].start \in Nat
    BY <1>1, Segments
  <1>5. ScanType
    BY <1>1, <1>3, ScanAssumption DEF ScanType, Scanning
  <1>6. ScanPlace
    <2>1. CASE one \in DOMAIN machine.mcfg
      BY <1>3, <1>4, <2>1 DEF ScanPlace, Scanning, Segment
    <2>2. CASE one \notin DOMAIN machine.mcfg
      BY <1>2, <1>3, <1>4, <2>2 DEF ScanPlace, Scanning
    <2>. QED  BY <2>1, <2>2
  <1>7. ASSUME NEW a PROVE ~Listed(a)
    <2>1. ASSUME NEW e \in Nat, NEW b \in Nat, NEW d \in Nat, NEW f \in Nat,
                 Found(e, b, d, f), Passed(e, b, d, f)
          PROVE  FALSE
      <3>1. e < one \/ (e = one /\ b < scan.bus)
        BY <1>3, <2>1 DEF Passed
      <3>2. e \in DOMAIN machine.mcfg /\ machine.mcfg[e].start <= b
        BY <2>1 DEF Found
      <3>. QED  BY <1>2, <1>3, <1>4, <2>1, <3>1, <3>2
    <2>. QED  BY <2>1 DEF Listed
  <1>8. \A S : <<>> \in Seq(S)
    BY EmptySeq
  <1>9. ScanTable
    BY <1>1, <1>7, <1>8, ScanAssumption DEF ScanTable
  <1>10. DriverTable
    <2>1. scan.pc \notin Scanning => scan.i = 1 /\ scan.pc = "AddDrivers"
      BY <1>3 DEF Scanning
    <2>2. DriversBefore(<<>>, <<>>, AHCIs, 1)
      BY DEF DriversBefore, InOrderOf
    <2>3. DriverNum \in Nat
      BY ScanAssumption
    <2>. QED  BY <1>1, <1>8, <2>1, <2>2, <2>3 DEF DriverTable, Scanning
  <1>. QED  BY <1>5, <1>6, <1>9, <1>10 DEF ScanInv

\* The inductive invariant of the scan and the driver table.
LEMMA ScanInvariant == Spec => []ScanInv
  <1>1. ScanInv /\ [Next]_vars => ScanInv'
    <2>. SUFFICES ASSUME ScanInv, [Next]_vars PROVE ScanInv'
      OBVIOUS
    <2>1. CASE Scan
      BY <2>1, EnumerateStep, AddDriverStep DEF Scan, ScanNext
    <2>2. CASE UNCHANGED scanVars
      <3>1. machine' = machine /\ scan' = scan /\ s_pci_devices' = s_pci_devices
            /\ drivers' = drivers
        BY <2>2 DEF scanVars
      <3>2. \A a : Listed(a)' <=> Listed(a)
        BY <3>1 DEF Listed, Found, Passed, PlaceOf, Present
      <3>3. AHCIs' = AHCIs
        BY <3>1 DEF AHCIs
      <3>4. ScanType' /\ ScanPlace'
        BY <3>1 DEF ScanInv, ScanType, ScanPlace, Segment, BusAddress, DeviceAddress, Present
      <3>5. ScanTable'
        BY <3>1, <3>2 DEF ScanInv, ScanTable
      <3>6. DriverTable'
        BY <3>1, <3>3 DEF ScanInv, DriverTable
      <3>. QED  BY <3>4, <3>5, <3>6 DEF ScanInv
    <2>3. Scan \/ UNCHANGED scanVars
      BY DEF Next, activate_all, Read, ReadContinues, Controller, vars
    <2>. QED  BY <2>1, <2>2, <2>3
  <1>. QED  BY <1>1, ScanInitially, PTL DEF Spec

-----------------------------------------------------------------------------

\* What the look-up by place finds, segment by segment.
LEMMA PlacesOfSegments ==
  ASSUME NEW a
  PROVE  /\ a \in AllPlaces <=> \E e \in DOMAIN machine.mcfg : a \in PlacesIn(e) /\ a # Null
         /\ \A e : a \in PlacesIn(e) <=>
              \E b \in 0 .. machine.mcfg[e].end, d \in 0 .. DeviceCount - 1,
                 f \in 0 .. FunctionCount - 1 : a = FunctionAt(e, b, d, f)
  BY DEF AllPlaces, PlacesIn

\* When the scan is over, what it listed is what the look-up by place finds.
LEMMA ListedAreAllPlaces ==
  ASSUME ScanType, ScanPlace, scan.pc = "Done", NEW a
  PROVE  Listed(a) <=> a \in AllPlaces
  <1>1. /\ Len(machine.mcfg) \in Nat /\ DOMAIN machine.mcfg = 1 .. Len(machine.mcfg)
        /\ \A e \in DOMAIN machine.mcfg : machine.mcfg[e] \in [base : Nat, start : Nat, end : Nat]
        /\ scan.entry > Len(machine.mcfg) /\ scan.entry \in Nat
    BY Segments DEF ScanType, ScanPlace, Scanning
  <1>2. DeviceCount \in Nat /\ FunctionCount \in Nat
    BY ScanAssumption
  <1>3. Listed(a) <=> \E e, b, d, f \in Nat : Found(e, b, d, f) /\ a = PlaceOf(e, b, d, f)
    <2>1. ASSUME NEW e \in Nat, NEW b \in Nat, NEW d \in Nat, NEW f \in Nat, Found(e, b, d, f)
          PROVE  Passed(e, b, d, f)
      <3>1. e \in DOMAIN machine.mcfg
        BY <2>1 DEF Found
      <3>2. e < scan.entry
        BY <1>1, <3>1
      <3>. QED  BY <3>2 DEF Passed
    <2>. QED  BY <2>1 DEF Listed
  <1>4. ASSUME NEW e \in Nat, NEW b \in Nat, NEW d \in Nat, NEW f \in Nat,
               Found(e, b, d, f), a = PlaceOf(e, b, d, f)
        PROVE  a \in AllPlaces
    <2>1. /\ e \in DOMAIN machine.mcfg /\ d \in 0 .. DeviceCount - 1
          /\ f \in 0 .. FunctionCount - 1
          /\ machine.mcfg[e].start \in Nat /\ machine.mcfg[e].end \in Nat
          /\ e <= Len(machine.mcfg)
      BY <1>1, <1>2, <1>4 DEF Found
    <2>. DEFINE x == b - machine.mcfg[e].start
    <2>2. x \in 0 .. machine.mcfg[e].end /\ machine.mcfg[e].start + x = b
      BY <1>4, <2>1 DEF Found
    <2>. HIDE DEF x
    <2>3. FunctionAt(e, x, d, f) = a
      BY <1>4, <2>1, <2>2 DEF FunctionAt, Found, PlaceOf
    <2>4. a # Null
      BY <1>4 DEF PlaceOf, Null
    <2>5. a \in PlacesIn(e)
      BY <2>1, <2>2, <2>3, PlacesOfSegments
    <2>. QED  BY <2>1, <2>4, <2>5, PlacesOfSegments
  <1>5. ASSUME a \in AllPlaces
        PROVE  \E e, b, d, f \in Nat : Found(e, b, d, f) /\ a = PlaceOf(e, b, d, f)
    <2>1. PICK e \in DOMAIN machine.mcfg :
            \E x \in 0 .. machine.mcfg[e].end, d \in 0 .. DeviceCount - 1,
               f \in 0 .. FunctionCount - 1 : a = FunctionAt(e, x, d, f) /\ a # Null
      BY <1>5, PlacesOfSegments
    <2>a. PICK x \in 0 .. machine.mcfg[e].end, d \in 0 .. DeviceCount - 1,
               f \in 0 .. FunctionCount - 1 : a = FunctionAt(e, x, d, f) /\ a # Null
      BY <2>1
    <2>. DEFINE b == machine.mcfg[e].start + x
    <2>2. /\ machine.mcfg[e].start \in Nat /\ machine.mcfg[e].end \in Nat
          /\ e \in Nat /\ x \in Nat /\ d \in Nat /\ f \in Nat
          /\ d < DeviceCount /\ f < FunctionCount
      <3>1. machine.mcfg[e] \in [base : Nat, start : Nat, end : Nat] /\ e \in Nat
        BY <1>1, <2>1
      <3>2. machine.mcfg[e].start \in Nat /\ machine.mcfg[e].end \in Nat
        BY <3>1
      <3>3. x \in Nat /\ d \in Nat /\ f \in Nat /\ d < DeviceCount /\ f < FunctionCount
        BY <1>2, <3>2
      <3>. QED  BY <3>1, <3>2, <3>3
    <2>3. b \in Nat /\ machine.mcfg[e].start <= b
      BY <2>2
    <2>4. /\ b < machine.mcfg[e].end
          /\ Present(PlaceOf(e, b, 0, 0)) /\ Present(PlaceOf(e, b, d, 0))
          /\ Present(PlaceOf(e, b, d, f)) /\ a = PlaceOf(e, b, d, f)
      BY <2>a DEF FunctionAt, PlaceOf
    <2>. HIDE DEF b
    <2>. QED  BY <2>1, <2>2, <2>3, <2>4 DEF Found
  <1>. QED  BY <1>3, <1>4, <1>5

\* The scan lists what the look-up by place finds, and the drivers are those of the
\* AHCI controllers in that order: for every machine, whatever the number of segments,
\* buses, devices and functions and the sizes of the two tables.
THEOREM ScanCorrect == Spec => []ScanMatchesLookup
  <1>1. ScanInv => ScanMatchesLookup
    <2>. SUFFICES ASSUME ScanInv, scan.pc = "Done" PROVE ScanMatchesLookup
      BY DEF ScanMatchesLookup
    <2>. DEFINE s == s_pci_devices
    <2>1. \A a : Listed(a) <=> a \in AllPlaces
      BY ListedAreAllPlaces DEF ScanInv
    <2>2. /\ s \in Seq(DOMAIN machine.classes) /\ Len(s) \in Nat /\ DOMAIN s = 1 .. Len(s)
          /\ drivers \in Seq(DOMAIN machine.classes) /\ Len(drivers) \in Nat
          /\ DOMAIN drivers = 1 .. Len(drivers)
          /\ Len(drivers) <= DriverNum /\ DriverNum \in Nat
      BY LenProperties, ScanAssumption DEF ScanInv, ScanTable, DriverTable
    <2>3. ToSet(s) = {s[i] : i \in 1 .. Len(s)}
          /\ ToSet(drivers) = {drivers[i] : i \in 1 .. Len(drivers)}
      BY <2>2 DEF ToSet
    <2>4. ToSet(s) \subseteq AllPlaces
      BY <2>1, <2>3 DEF ScanInv, ScanTable
    <2>5. IsInjective(s)
      <3>1. \A i, j \in DOMAIN s : i < j => s[i] # s[j]
        BY <2>2 DEF ScanInv, ScanTable
      <3>2. \A i, j \in DOMAIN s : i < j \/ j < i \/ i = j
        BY <2>2
      <3>. QED  BY <3>1, <3>2 DEF IsInjective
    <2>6. Len(s) < MaxDevices => AllPlaces \subseteq ToSet(s)
      BY <2>1, <2>3 DEF ScanInv, ScanTable
    <2>7. scan.i = Len(s) + 1 /\ DriversBefore(drivers, s, AHCIs, scan.i)
      BY DEF ScanInv, DriverTable, Scanning
    <2>8. \A m \in 1 .. Len(s) : m < scan.i
      BY <2>2, <2>7
    <2>9. /\ \A k \in 1 .. Len(drivers) :
               \E m \in 1 .. Len(s) : s[m] = drivers[k] /\ drivers[k] \in AHCIs
          /\ Len(drivers) < DriverNum =>
               \A m \in 1 .. Len(s) : s[m] \in AHCIs =>
                 \E k \in 1 .. Len(drivers) : drivers[k] = s[m]
      BY <2>7, <2>8 DEF DriversBefore
    <2>10. InOrderOf(drivers, s)
      BY <2>7 DEF DriversBefore
    <2>11. \A a \in ToSet(s) : a \in AHCIs <=> machine.classes[a] = "AHCI"
      <3>1. \A m \in 1 .. Len(s) : s[m] \in DOMAIN machine.classes
        BY <2>2, ElementOfSeq
      <3>. QED  BY <2>3, <3>1 DEF AHCIs
    <2>12. Len(drivers) < DriverNum =>
             ToSet(drivers) = {a \in ToSet(s) : machine.classes[a] = "AHCI"}
      BY <2>3, <2>9, <2>11
    <2>13. ASSUME drivers # <<>>, NEW i \in 0 .. DriverNum
           PROVE  GetByIndex(i) = IF i + 1 \in DOMAIN drivers THEN drivers[i + 1] ELSE Null
      <3>1. Len(drivers) > 0
        BY <2>2, <2>13, EmptySeq
      <3>2. GetByIndex(i) = IF i > Len(drivers) - 1 THEN Null ELSE drivers[i + 1]
        <4>1. CASE i > Len(drivers) - 1
          BY <3>1, <4>1 DEF GetByIndex
        <4>2. CASE ~(i > Len(drivers) - 1)
          <5>1. i < Len(drivers)
            BY <2>2, <4>2
          <5>. QED  BY <4>2, <5>1 DEF GetByIndex
        <4>. QED  BY <4>1, <4>2
      <3>3. i > Len(drivers) - 1 <=> i + 1 \notin DOMAIN drivers
        BY <2>2
      <3>. QED  BY <3>2, <3>3
    <2>. QED  BY <2>4, <2>5, <2>6, <2>10, <2>12, <2>13 DEF ScanMatchesLookup
  <1>. QED  BY <1>1, ScanInvariant, PTL

-----------------------------------------------------------------------------
(* The ports that are settled, and the one in hand.                        *)

Configuring == {"StopCMD", "StopFRE", "StopWait", "CommandList", "Fis", "Table", "StartST"}

Probing == Configuring \cup {"Configure", "NextPort"}

\* Where activate_all and Read are.
DriverPlace ==
  /\ DOMAIN hba = DOMAIN machine.ports
  /\ drv.k \in Nat \ {0} /\ drv.j \in Nat \ {0}
  /\ scan.pc # "Done" => drv.pc = "ActivateNext" /\ drv.k = 1
  /\ drv.pc \in Probing =>
       /\ drv.k \in DOMAIN drivers
       /\ drv.ports \in Seq(DOMAIN hba)
       /\ \A i \in DOMAIN drv.ports : drv.ports[i][1] = drivers[drv.k]
       /\ \A i, j \in DOMAIN drv.ports : i < j => drv.ports[i] # drv.ports[j]
  /\ drv.pc \in Configuring \cup {"NextPort"} => drv.j \in DOMAIN drv.ports
  /\ drv.pc \in {"WaitDevice", "Poll"} => Port \in configured

\* A port is settled by the time its place in the two loops is past.
SettledBefore(p) ==
  \/ \E i \in DOMAIN drivers : i < drv.k /\ p[1] = drivers[i]
  \/ /\ drv.pc \in Probing
     /\ \E i \in DOMAIN drv.ports :
          p = drv.ports[i] /\ (i < drv.j \/ (i = drv.j /\ drv.pc = "NextPort"))

Settled ==
  /\ configured \subseteq DOMAIN hba /\ failed \subseteq DOMAIN hba
  /\ \A p \in configured \cup failed : SettledBefore(p)

OrderInv == DriverPlace /\ Settled

\* No function is in the driver table twice.
LEMMA DriversDiffer ==
  ASSUME ScanInv, scan.pc = "Done"
  PROVE  /\ Len(drivers) \in Nat /\ DOMAIN drivers = 1 .. Len(drivers)
         /\ \A i, j \in DOMAIN drivers : i < j => drivers[i] # drivers[j]
  <1>1. /\ Len(drivers) \in Nat /\ DOMAIN drivers = 1 .. Len(drivers)
        /\ DOMAIN s_pci_devices = 1 .. Len(s_pci_devices)
    BY LenProperties DEF ScanInv, DriverTable, ScanTable
  <1>2. InOrderOf(drivers, s_pci_devices)
    BY DEF ScanInv, DriverTable, Scanning, DriversBefore
  <1>3. \A i, j \in DOMAIN s_pci_devices : i < j => s_pci_devices[i] # s_pci_devices[j]
    BY <1>1 DEF ScanInv, ScanTable
  <1>. QED  BY <1>1, <1>2, <1>3 DEF InOrderOf

\* The port in hand is not settled yet.
LEMMA InHandUnsettled ==
  ASSUME ScanInv, OrderInv, drv.pc \in Configuring
  PROVE  Port \in DOMAIN hba /\ Port \notin configured /\ Port \notin failed
  <1>1. /\ drv.pc \in Probing /\ drv.pc # "ActivateNext" /\ drv.pc # "NextPort"
        /\ drv.j \in DOMAIN drv.ports
        /\ drv.k \in DOMAIN drivers /\ drv.k \in Nat /\ drv.j \in Nat
    BY DEF OrderInv, DriverPlace, Configuring, Probing
  <1>2. scan.pc = "Done"
    BY <1>1 DEF OrderInv, DriverPlace
  <1>3. Port \in DOMAIN hba
    BY <1>1, ElementOfSeq, LenProperties DEF OrderInv, DriverPlace, Port
  <1>4. ~SettledBefore(Port)
    <2>1. \A i \in DOMAIN drivers : i < drv.k => Port[1] # drivers[i]
      BY <1>1, <1>2, DriversDiffer DEF OrderInv, DriverPlace, Port
    <2>2. \A i \in DOMAIN drv.ports : i < drv.j => Port # drv.ports[i]
      BY <1>1 DEF OrderInv, DriverPlace, Port
    <2>. QED  BY <1>1, <2>1, <2>2 DEF SettledBefore
  <1>. QED  BY <1>3, <1>4 DEF OrderInv, Settled

\* What ProbePorts puts together.
LEMMA ProbedPorts ==
  ASSUME ScanInv, OrderInv, NEW D, D \subseteq DOMAIN hba, NEW s \in Probed(D)
  PROVE  /\ s \in Seq(D)
         /\ \A i, j \in DOMAIN s : i < j => s[i] # s[j]
  <1>1. IsFiniteSet(DOMAIN hba) /\ \A p \in DOMAIN hba : p[2] \in Nat
    <2>1. machine \in Machines /\ DOMAIN hba = DOMAIN machine.ports
      BY DEF ScanInv, ScanType, OrderInv, DriverPlace
    <2>2. \A n \in 0 .. 31 : n \in Nat
      OBVIOUS
    <2>. QED  BY <2>1, <2>2, PortsAssumption
  <1>2. Cardinality(D) \in Nat
    BY <1>1, FS_Subset, FS_CardinalityType
  <1>3. s \in [1 .. Cardinality(D) -> D] /\ \A i, j \in DOMAIN s : i < j => s[i][2] < s[j][2]
    BY DEF Probed
  <1>4. s \in Seq(D)
    BY <1>2, <1>3, SeqDef
  <1>5. ASSUME NEW i \in DOMAIN s, NEW j \in DOMAIN s, i < j
        PROVE  s[i] # s[j]
    <2>1. s[i] \in D /\ s[j] \in D /\ s[i][2] < s[j][2]
      BY <1>3, <1>5
    <2>2. s[i][2] \in Nat
      BY <1>1, <2>1
    <2>. QED  BY <2>1, <2>2
  <1>. QED  BY <1>4, <1>5

\* The steps of the loops over drivers and their ports.
LEMMA LoopStep ==
  ASSUME ScanInv, DriverInv, OrderInv, scan.pc = "Done", UNCHANGED scanVars,
         ActivationEnds(Len(drivers)) \/ Activate \/ ConfigurePort \/ NextPort
  PROVE  OrderInv'
  <1>1. /\ UNCHANGED <<hba, configured, failed>> /\ UNCHANGED <<machine, scan, drivers>>
        /\ Len(drivers) \in Nat /\ DOMAIN drivers = 1 .. Len(drivers)
        /\ drv.k \in Nat \ {0} /\ drv.j \in Nat \ {0}
        /\ \A p \in configured \cup failed : SettledBefore(p)
    BY DriversDiffer DEF ActivationEnds, Activate, ProbePorts, ConfigurePort, NextPort, scanVars,
       OrderInv, DriverPlace, Settled
  <1>2. CASE ActivationEnds(Len(drivers)) \/ (Activate /\ drv'.pc = "PageFault")
    <2>1. /\ drv'.pc \in {"Ready", "PageFault"} /\ drv'.k = drv.k /\ drv'.j = drv.j
          /\ drv.pc = "ActivateNext"
      BY <1>2 DEF DriverInv, ActivationEnds, Activate, ProbePorts, Goto
    <2>2. DriverPlace'
      BY <1>1, <2>1 DEF OrderInv, DriverPlace, Probing, Configuring
    <2>3. \A p : SettledBefore(p) => SettledBefore(p)'
      BY <1>1, <2>1 DEF SettledBefore, Probing, Configuring
    <2>. QED  BY <1>1, <2>2, <2>3 DEF OrderInv, Settled
  <1>3. CASE Activate /\ drv'.pc # "PageFault"
    <2>. DEFINE D == {p \in DOMAIN hba : p[1] = drivers[drv.k] /\ hba[p].kind.implemented
                                           /\ IsDisk(hba[p].kind)}
    <2>1. PICK s : s \in Probed(D) /\ drv' = [drv EXCEPT !.pc = "Configure", !.j = 1, !.ports = s]
      <3>1. {p \in {q \in DOMAIN hba : q[1] = drivers[drv.k] /\ hba[q].kind.implemented} :
               IsDisk(hba[p].kind)} = D
        OBVIOUS
      <3>2. drv'.pc = "PageFault" \/
              \E s \in Probed({p \in {q \in DOMAIN hba : q[1] = drivers[drv.k]
                                                          /\ hba[q].kind.implemented} :
                                 IsDisk(hba[p].kind)}) :
                drv' = [drv EXCEPT !.pc = "Configure", !.j = 1, !.ports = s]
        BY <1>3 DEF Activate, ProbePorts, Goto, DriverInv
      <3>. QED  BY <1>3, <3>1, <3>2
    <2>2. /\ drv'.pc = "Configure" /\ drv'.j = 1 /\ drv'.ports = s /\ drv'.k = drv.k
          /\ drv.pc = "ActivateNext" /\ drv.k \in DOMAIN drivers
      <3>1. drv.k <= Len(drivers) /\ drv.pc = "ActivateNext"
        BY <1>3 DEF Activate, ProbePorts
      <3>2. drv.k \in DOMAIN drivers
        BY <1>1, <3>1
      <3>. HIDE DEF D
      <3>3. drv'.pc = "Configure" /\ drv'.j = 1 /\ drv'.ports = s /\ drv'.k = drv.k
        BY <2>1 DEF DriverInv
      <3>. QED  BY <3>1, <3>2, <3>3
    <2>3. /\ s \in Seq(D) /\ \A i, j \in DOMAIN s : i < j => s[i] # s[j]
      BY <2>1, ProbedPorts
    <2>4. /\ s \in Seq(DOMAIN hba) /\ \A i \in DOMAIN s : s[i][1] = drivers[drv.k]
      <3>1. /\ Len(s) \in Nat /\ DOMAIN s = 1 .. Len(s) /\ s \in [1 .. Len(s) -> D]
            /\ \A i \in DOMAIN s : s[i] \in D
        BY <2>3, LenProperties, ElementOfSeq
      <3>2. s \in [1 .. Len(s) -> DOMAIN hba]
        BY <3>1
      <3>. QED  BY <3>1, <3>2, SeqDef
    <2>5. DriverPlace'
      BY <1>1, <2>2, <2>3, <2>4 DEF OrderInv, DriverPlace, Probing, Configuring
    <2>6. \A p : SettledBefore(p) => SettledBefore(p)'
      BY <1>1, <2>2 DEF SettledBefore, Probing, Configuring
    <2>. QED  BY <1>1, <2>5, <2>6 DEF OrderInv, Settled
  <1>4. CASE ConfigurePort \/ NextPort
    <2>1. /\ drv'.ports = drv.ports /\ drv.pc \in {"Configure", "NextPort"} /\ drv.pc \in Probing
          /\ Len(drv.ports) \in Nat /\ DOMAIN drv.ports = 1 .. Len(drv.ports)
      BY <1>4, LenProperties DEF DriverInv, ConfigurePort, NextPort, OrderInv, DriverPlace, Probing
    <2>2. CASE drv'.pc = "ActivateNext"
      <3>1. /\ drv'.k = drv.k + 1 /\ drv'.j = drv.j /\ drv.pc = "Configure"
            /\ drv.k \in DOMAIN drivers
        BY <1>4, <2>1, <2>2 DEF DriverInv, ConfigurePort, NextPort, OrderInv, DriverPlace
      <3>2. DriverPlace'
        BY <1>1, <2>2, <3>1 DEF OrderInv, DriverPlace, Probing, Configuring
      <3>3. ASSUME NEW p, SettledBefore(p) PROVE SettledBefore(p)'
        <4>1. drv.k < drv.k + 1 /\ \A i \in DOMAIN drivers : i < drv.k => i < drv.k + 1
          BY <1>1
        <4>2. \A i \in DOMAIN drv.ports : drv.ports[i][1] = drivers[drv.k]
          BY <2>1 DEF OrderInv, DriverPlace
        <4>. QED  BY <1>1, <3>1, <3>3, <4>1, <4>2 DEF SettledBefore
      <3>. QED  BY <1>1, <3>2, <3>3 DEF OrderInv, Settled
    <2>3. CASE drv'.pc = "StopCMD"
      <3>1. /\ drv'.k = drv.k /\ drv'.j = drv.j /\ drv.pc = "Configure"
            /\ ~(drv.j > Len(drv.ports))
        BY <1>4, <2>1, <2>3 DEF DriverInv, ConfigurePort, NextPort
      <3>a. drv'.j \in DOMAIN drv.ports
        BY <1>1, <2>1, <3>1
      <3>2. DriverPlace'
        BY <1>1, <2>1, <2>3, <3>1, <3>a DEF OrderInv, DriverPlace, Probing, Configuring
      <3>3. \A p : SettledBefore(p) => SettledBefore(p)'
        BY <1>1, <2>1, <2>3, <3>1 DEF SettledBefore, Probing, Configuring
      <3>. QED  BY <1>1, <3>2, <3>3 DEF OrderInv, Settled
    <2>4. CASE drv'.pc = "Configure"
      <3>1. drv'.k = drv.k /\ drv'.j = drv.j + 1 /\ drv.pc = "NextPort"
        BY <1>4, <2>1, <2>4 DEF DriverInv, ConfigurePort, NextPort
      <3>a. drv.j + 1 \in Nat \ {0} /\ \A i \in DOMAIN drv.ports : i < drv.j + 1 <=> i <= drv.j
        BY <1>1, <2>1
      <3>2. DriverPlace'
        BY <1>1, <2>1, <2>4, <3>1, <3>a DEF OrderInv, DriverPlace, Probing, Configuring
      <3>3. \A p : SettledBefore(p) => SettledBefore(p)'
        <4>1. \A i \in DOMAIN drv.ports : i < drv.j \/ i = drv.j => i < drv.j + 1
          BY <1>1, <2>1
        <4>. QED  BY <1>1, <2>1, <2>4, <3>1, <4>1 DEF SettledBefore, Probing, Configuring
      <3>. QED  BY <1>1, <3>2, <3>3 DEF OrderInv, Settled
    <2>5. drv'.pc \in {"ActivateNext", "StopCMD", "Configure"}
      BY <1>4, <2>1 DEF DriverInv, ConfigurePort, NextPort
    <2>. QED  BY <2>2, <2>3, <2>4, <2>5
  <1>. QED  BY <1>2, <1>3, <1>4

\* The steps of Configure that go on with the port in hand.
LEMMA InHandStep ==
  ASSUME ScanInv, DriverInv, OrderInv, UNCHANGED scanVars, UNCHANGED <<configured, failed>>,
         StopCMD_ST \/ StopCMD_FRE \/ StopCMD_Wait \/ ConfigureCommandList \/ ConfigureFis
           \/ ConfigureTable \/ StartCMD_FRE
  PROVE  OrderInv'
  <1>1. /\ drv.pc \in Configuring /\ drv'.pc \in Configuring
        /\ drv'.k = drv.k /\ drv'.j = drv.j /\ drv'.ports = drv.ports
    BY DEF DriverInv, StopCMD_ST, StopCMD_FRE, StopCMD_Wait, ConfigureCommandList, ConfigureFis,
       ConfigureTable, StartCMD_FRE, Goto, Configuring
  <1>2. DOMAIN hba' = DOMAIN hba
    BY DEF StopCMD_ST, StopCMD_FRE, StopCMD_Wait, ConfigureCommandList, ConfigureFis,
       ConfigureTable, StartCMD_FRE, SetPort
  <1>3. DriverPlace'
    BY <1>1, <1>2 DEF OrderInv, DriverPlace, Probing, Configuring, scanVars
  <1>4. \A p : SettledBefore(p) => SettledBefore(p)'
    BY <1>1 DEF SettledBefore, Probing, Configuring, scanVars
  <1>. QED  BY <1>2, <1>3, <1>4 DEF OrderInv, Settled

\* The steps that settle a port.
LEMMA SettleStep ==
  ASSUME ScanInv, DriverInv, OrderInv, UNCHANGED scanVars, StartCMD_ST \/ ConfigureFails
  PROVE  OrderInv'
  <1>1. /\ drv.pc \in Configuring /\ drv'.pc = "NextPort"
        /\ drv'.k = drv.k /\ drv'.j = drv.j /\ drv'.ports = drv.ports
        /\ configured' \cup failed' = configured \cup failed \cup {Port}
        /\ configured' \subseteq configured \cup {Port} /\ failed' \subseteq failed \cup {Port}
    BY DEF DriverInv, StartCMD_ST, ConfigureFails, Goto, Configuring
  <1>2. DOMAIN hba' = DOMAIN hba
    BY DEF StartCMD_ST, ConfigureFails, SetPort
  <1>3. DriverPlace'
    BY <1>1, <1>2 DEF OrderInv, DriverPlace, Probing, Configuring, scanVars
  <1>4. \A p : SettledBefore(p) => SettledBefore(p)'
    BY <1>1 DEF SettledBefore, Probing, Configuring, scanVars
  <1>5. PICK q : q = Port /\ q \in DOMAIN hba
    BY <1>1, InHandUnsettled
  <1>6. SettledBefore(q)'
    BY <1>1, <1>5 DEF SettledBefore, OrderInv, DriverPlace, Probing, Configuring, Port
  <1>. QED  BY <1>1, <1>2, <1>3, <1>4, <1>5, <1>6 DEF OrderInv, Settled

\* The steps of Read and of the controllers.
LEMMA ReadOrder ==
  ASSUME ScanInv, DriverInv, OrderInv, UNCHANGED scanVars, UNCHANGED <<configured, failed>>,
         \/ \E q \in DOMAIN hba, tag \in Tags : StartRead(q, tag)
         \/ ReadStep
         \/ \E q \in DOMAIN hba : HbaStep(q)
  PROVE  OrderInv'
  <1>1. DOMAIN hba' = DOMAIN hba
    BY DEF StartRead, ReadStep, DeviceStaysBusy, IssueCommand, CommandDone, CommandFailed, SetPort,
       HbaStep, HbaStarts, HbaStops, DeviceReady, HbaCompletes, HbaFails
  <1>2. CASE \E q \in DOMAIN hba : HbaStep(q)
    <2>1. drv' = drv
      BY <1>2 DEF HbaStep
    <2>2. DriverPlace'
      BY <1>1, <2>1 DEF OrderInv, DriverPlace, Port, scanVars
    <2>3. \A p : SettledBefore(p) => SettledBefore(p)'
      BY <2>1 DEF SettledBefore, scanVars
    <2>. QED  BY <1>1, <2>2, <2>3 DEF OrderInv, Settled
  <1>3. CASE \E q \in DOMAIN hba, tag \in Tags : StartRead(q, tag)
    <2>1. PICK q \in DOMAIN hba, tag \in Tags : StartRead(q, tag)
      BY <1>3
    <2>2. /\ drv.pc = "Ready" /\ drv'.pc = "WaitDevice" /\ drv'.k = drv.k /\ drv'.j = 1
          /\ drv'.ports = <<q>> /\ q \in configured
      BY <2>1 DEF DriverInv, StartRead, Readable
    <2>3. Port' = q
      BY <2>2 DEF Port
    <2>4. DriverPlace'
      BY <1>1, <2>2, <2>3 DEF OrderInv, DriverPlace, Probing, Configuring, scanVars
    <2>5. \A p : SettledBefore(p) => SettledBefore(p)'
      BY <2>2 DEF SettledBefore, Probing, Configuring, scanVars
    <2>. QED  BY <1>1, <2>4, <2>5 DEF OrderInv, Settled
  <1>4. CASE ReadStep
    <2>1. /\ drv.pc \in {"WaitDevice", "Poll"} /\ drv'.pc \in {"Ready", "Poll"}
          /\ drv'.k = drv.k /\ drv'.j = drv.j /\ drv'.ports = drv.ports
      BY <1>4 DEF DriverInv, ReadStep, DeviceStaysBusy, IssueCommand, CommandDone, CommandFailed,
         Returned, Goto
    <2>2. DriverPlace'
      BY <1>1, <2>1 DEF OrderInv, DriverPlace, Probing, Configuring, Port, scanVars
    <2>3. \A p : SettledBefore(p) => SettledBefore(p)'
      BY <2>1 DEF SettledBefore, Probing, Configuring, scanVars
    <2>. QED  BY <1>1, <2>2, <2>3 DEF OrderInv, Settled
  <1>. QED  BY <1>2, <1>3, <1>4

\* As long as the scan runs no port is settled.
LEMMA ScanOrder ==
  ASSUME ScanInv, OrderInv, Scan
  PROVE  OrderInv'
  <1>1. scan.pc # "Done" /\ machine' = machine /\ UNCHANGED <<hba, drv, configured, failed>>
    BY DEF Scan, ScanNext, EnumerateBus, EnumerateDevice, EnumerateFunction, AddDriver, ahciVars
  <1>2. drv.pc = "ActivateNext" /\ drv.k = 1
    BY <1>1 DEF OrderInv, DriverPlace
  <1>3. configured = {} /\ failed = {}
    <2>1. ASSUME NEW p, SettledBefore(p) PROVE FALSE
      <3>1. PICK i \in DOMAIN drivers : i < drv.k
        BY <1>2, <2>1 DEF SettledBefore, Probing, Configuring
      <3>2. DOMAIN drivers = 1 .. Len(drivers)
        BY LenProperties DEF ScanInv, DriverTable
      <3>. QED  BY <1>2, <3>1, <3>2
    <2>. QED  BY <2>1 DEF OrderInv, Settled
  <1>4. DriverPlace'
    BY <1>1, <1>2 DEF OrderInv, DriverPlace, Probing, Configuring
  <1>. QED  BY <1>1, <1>3, <1>4 DEF OrderInv, Settled

-----------------------------------------------------------------------------
(* What a refused port is left with, and the memory of a started one.      *)

AtRest(r) == ~r.st /\ ~r.fre /\ ~r.cr /\ ~r.fr

RefusedInv ==
  /\ configured \cap failed = {}
  /\ \A p \in failed : AtRest(hba[p])

\* The frames port p has requested and whose start was cleared since.
Owned(p) == {f \in (cleared \cap DOMAIN owner) \ frames : owner[f] = p}

\* Port p has its list, its received frames and the tables of the first n slots, as far
\* as these are in the frames requested for them.
HasMemory(p, n) ==
  LET r == hba[p]
  IN  /\ r.list \in Owned(p) /\ r.fis \in Owned(p) /\ r.fis # r.list
      /\ \A i \in 0 .. SlotsPerFrame - 1 : i < n =>
           /\ r.table[i][1] \in Owned(p) /\ r.table[i][1] # r.list /\ r.table[i][1] # r.fis
           /\ \A j \in 0 .. SlotsPerFrame - 1 : j < i => r.table[j][1] # r.table[i][1]
      /\ 0 < n => r.table[0][2] = 0

\* The port in hand has what Configure has got so far.
InHandMemory ==
  /\ drv.pc = "Fis" => hba[Port].list \in Owned(Port)
  /\ drv.pc \in {"Fis", "Table"} => DOMAIN hba[Port].table = 0 .. Slots - 1
  /\ drv.pc = "Table" => drv.slot \in 0 .. Slots /\ HasMemory(Port, drv.slot)
  /\ drv.pc = "StartST" => HasMemory(Port, Slots)

MemoryInv ==
  AllLow => InHandMemory /\ \A p \in configured : HasMemory(p, Slots)

StartedInv == ScanInv /\ DriverInv /\ OrderInv /\ RefusedInv /\ MemoryInv

\* A frame is added to what the port in hand has, and taken from nobody.
LEMMA FrameRequested ==
  ASSUME DriverInv, AllLow', NEW f \in frames, Requested(f),
         cleared' = cleared \cup {f} \/ cleared' = (cleared \ {f}) \cup {Low(f)}
  PROVE  /\ AllLow /\ Low(f) = f /\ f \in Nat \ {0} /\ f \notin DOMAIN owner
         /\ \A p : Owned(p) \subseteq Owned(p)' /\ f \notin Owned(p)
         /\ \A p : p = Port => f \in {g \in (cleared' \cap DOMAIN owner') \ frames' : owner'[g] = p}
  <1>1. /\ f \in Nat \ {0} /\ f \notin DOMAIN owner /\ DOMAIN owner' = DOMAIN owner \cup {f}
        /\ owner'[f] = Port /\ \A g \in DOMAIN owner : owner'[g] = owner[g]
        /\ frames' = frames \ {f}
    BY RequestedFrame DEF Requested
  <1>2. AllLow /\ f < LowFrames
    BY <1>1 DEF AllLow
  <1>3. Low(f) = f
    BY <1>1, <1>2, AhciAssumption DEF Low
  <1>4. cleared' = cleared \cup {f}
    BY <1>3
  <1>. QED  BY <1>1, <1>2, <1>3, <1>4 DEF Owned

\* Memory stays where registers and frames do.
LEMMA MemoryKept ==
  ASSUME NEW p, NEW n, HasMemory(p, n), Owned(p) \subseteq Owned(p)',
         hba'[p].list = hba[p].list, hba'[p].fis = hba[p].fis, hba'[p].table = hba[p].table
  PROVE  HasMemory(p, n)'
  BY DEF HasMemory

\* The steps that request no frame and write no base register and no table.
LEMMA RegistersKept ==
  ASSUME StartedInv, UNCHANGED <<frames, owner, cleared>>, NEW p \in DOMAIN hba,
         \/ hba' = hba
         \/ StopCMD_ST \/ StopCMD_FRE \/ StartCMD_FRE \/ StartCMD_ST \/ IssueCommand
         \/ \E q \in DOMAIN hba, tag \in Tags : StartRead(q, tag)
         \/ \E q \in DOMAIN hba : HbaStep(q)
  PROVE  /\ hba'[p].list = hba[p].list /\ hba'[p].fis = hba[p].fis
         /\ hba'[p].table = hba[p].table
  <1>1. IsRegister(hba[p])
    BY DEF StartedInv, DriverInv, PortInv
  <1>2. CASE hba' = hba
    BY <1>2
  <1>3. CASE StopCMD_ST \/ StopCMD_FRE \/ StartCMD_FRE \/ StartCMD_ST \/ IssueCommand
    <2>1. hba'[p] \in {hba[p], [hba[p] EXCEPT !.st = FALSE], [hba[p] EXCEPT !.st = TRUE],
                       [hba[p] EXCEPT !.fre = FALSE], [hba[p] EXCEPT !.fre = TRUE],
                       [hba[p] EXCEPT !.ci = TRUE]}
      BY <1>3 DEF StopCMD_ST, StopCMD_FRE, StartCMD_FRE, StartCMD_ST, IssueCommand, SetPort, Reg
    <2>. QED  BY <1>1, <2>1 DEF IsRegister
  <1>4. CASE \E q \in DOMAIN hba, tag \in Tags : StartRead(q, tag)
    <2>1. PICK q \in DOMAIN hba, tag \in Tags : StartRead(q, tag)
      BY <1>4
    <2>2. hba'[p] = IF p = q THEN [hba[p] EXCEPT !.tfes = FALSE, !.tag = tag] ELSE hba[p]
      BY <2>1 DEF StartRead
    <2>. QED  BY <1>1, <2>2 DEF IsRegister
  <1>5. CASE \E q \in DOMAIN hba : HbaStep(q)
    <2>1. \/ hba'[p] \in {hba[p], [hba[p] EXCEPT !.fr = TRUE], [hba[p] EXCEPT !.cr = TRUE],
                          [hba[p] EXCEPT !.fr = FALSE],
                          [hba[p] EXCEPT !.cr = FALSE, !.ci = FALSE, !.halted = FALSE],
                          [hba[p] EXCEPT !.busy = FALSE],
                          [hba[p] EXCEPT !.tfes = TRUE, !.halted = TRUE]}
          \/ \E busy \in BOOLEAN : hba'[p] = [hba[p] EXCEPT !.ci = FALSE, !.busy = busy]
      <3>1. PICK q \in DOMAIN hba : HbaStep(q)
        BY <1>5
      <3>2. CASE HbaStarts(q) \/ HbaStops(q)
        BY <3>2 DEF HbaStarts, HbaStops
      <3>3. CASE DeviceReady(q) \/ HbaFails(q)
        BY <3>3 DEF DeviceReady, HbaFails
      <3>4. CASE HbaCompletes(q)
        BY <3>4 DEF HbaCompletes
      <3>. QED  BY <3>1, <3>2, <3>3, <3>4 DEF HbaStep
    <2>. DEFINE r == hba[p]
                n == hba'[p]
                Same == n.list = r.list /\ n.fis = r.fis /\ n.table = r.table
    <2>2. /\ "list" \in DOMAIN r /\ "fis" \in DOMAIN r /\ "table" \in DOMAIN r
          /\ \/ n = r \/ n = [r EXCEPT !.fr = TRUE] \/ n = [r EXCEPT !.cr = TRUE]
             \/ n = [r EXCEPT !.fr = FALSE] \/ n = [r EXCEPT !.busy = FALSE]
             \/ n = [r EXCEPT !.cr = FALSE, !.ci = FALSE, !.halted = FALSE]
             \/ n = [r EXCEPT !.tfes = TRUE, !.halted = TRUE]
             \/ \E busy \in BOOLEAN : n = [r EXCEPT !.ci = FALSE, !.busy = busy]
      <3>1. "list" \in DOMAIN r /\ "fis" \in DOMAIN r /\ "table" \in DOMAIN r
        BY <1>1 DEF IsRegister
      <3>. QED  BY <2>1, <3>1
    <2>. HIDE DEF r, n
    <2>3. ASSUME \/ n = r \/ n = [r EXCEPT !.fr = TRUE] \/ n = [r EXCEPT !.cr = TRUE]
                 \/ n = [r EXCEPT !.fr = FALSE] \/ n = [r EXCEPT !.busy = FALSE]
          PROVE  Same
      BY <2>2, <2>3
    <2>4. ASSUME \/ n = [r EXCEPT !.cr = FALSE, !.ci = FALSE, !.halted = FALSE]
                 \/ n = [r EXCEPT !.tfes = TRUE, !.halted = TRUE]
          PROVE  Same
      BY <2>2, <2>4
    <2>5. ASSUME \E busy \in BOOLEAN : n = [r EXCEPT !.ci = FALSE, !.busy = busy]
          PROVE  Same
      BY <2>2, <2>5
    <2>6. Same
      BY <2>2, <2>3, <2>4, <2>5
    <2>. QED  BY <2>6 DEF r, n
  <1>. QED  BY <1>2, <1>3, <1>4, <1>5

\* What is not a request of a frame takes none, and starts and completes no port but
\* the one that has its memory.
LEMMA MemoryKeptStep ==
  ASSUME StartedInv, UNCHANGED <<frames, owner, cleared>>,
         \/ hba' = hba
         \/ StopCMD_ST \/ StopCMD_FRE \/ StartCMD_FRE \/ StartCMD_ST \/ IssueCommand
         \/ \E q \in DOMAIN hba, tag \in Tags : StartRead(q, tag)
         \/ \E q \in DOMAIN hba : HbaStep(q),
         configured' \subseteq configured \cup {Port},
         Port \in configured' \ configured => drv.pc = "StartST",
         drv'.pc \in {"Fis", "Table", "StartST"} =>
           \/ drv'.pc = drv.pc /\ drv'.slot = drv.slot /\ Port' = Port
           \/ drv'.pc = "StartST" /\ drv.pc = "Table" /\ drv.slot = Slots /\ Port' = Port
  PROVE  MemoryInv'
  <1>1. AllLow' <=> AllLow
    BY DEF AllLow
  <1>2. \A p : Owned(p)' = Owned(p)
    BY DEF Owned
  <1>3. SUFFICES ASSUME AllLow, InHandMemory, \A p \in configured : HasMemory(p, Slots)
                 PROVE  InHandMemory' /\ \A p \in configured' : HasMemory(p, Slots)'
    BY <1>1 DEF StartedInv, MemoryInv
  <1>4. \A p \in DOMAIN hba : /\ hba'[p].list = hba[p].list /\ hba'[p].fis = hba[p].fis
                              /\ hba'[p].table = hba[p].table
    BY RegistersKept
  <1>5. ASSUME NEW p \in DOMAIN hba, NEW n, HasMemory(p, n) PROVE HasMemory(p, n)'
    BY <1>2, <1>4, <1>5, MemoryKept
  <1>6. \A p \in configured' : HasMemory(p, Slots)'
    <2>1. configured \subseteq DOMAIN hba
      BY DEF StartedInv, OrderInv, Settled
    <2>2. CASE Port \in configured' \ configured
      <3>1. drv.pc \in Configuring /\ HasMemory(Port, Slots)
        BY <1>3, <2>2 DEF InHandMemory, Configuring
      <3>2. PICK q : q = Port
        OBVIOUS
      <3>3. q \in DOMAIN hba
        BY <3>1, <3>2, InHandUnsettled DEF StartedInv
      <3>. QED  BY <1>3, <1>5, <2>1, <3>1, <3>2, <3>3
    <2>. QED  BY <1>3, <1>5, <2>1, <2>2
  <1>7. InHandMemory'
    <2>1. SUFFICES ASSUME drv'.pc \in {"Fis", "Table", "StartST"} PROVE InHandMemory'
      BY DEF InHandMemory
    <2>2. PICK q : q = Port
      OBVIOUS
    <2>3. drv.pc \in Configuring /\ Port' = q
      BY <2>1, <2>2 DEF Configuring
    <2>4. q \in DOMAIN hba
      BY <2>2, <2>3, InHandUnsettled DEF StartedInv
    <2>5. CASE drv'.pc = drv.pc /\ drv'.slot = drv.slot
      <3>1. /\ drv.pc = "Fis" => hba[q].list \in Owned(q)
            /\ drv.pc \in {"Fis", "Table"} => DOMAIN hba[q].table = 0 .. Slots - 1
            /\ drv.pc = "Table" => drv.slot \in 0 .. Slots /\ HasMemory(q, drv.slot)
            /\ drv.pc = "StartST" => HasMemory(q, Slots)
        BY <1>3, <2>2 DEF InHandMemory
      <3>2. PICK n : n = drv.slot
        OBVIOUS
      <3>3. /\ drv.pc = "Table" => HasMemory(q, n)'
            /\ drv.pc = "StartST" => HasMemory(q, Slots)'
        BY <1>5, <2>4, <3>1, <3>2
      <3>. QED  BY <1>2, <1>4, <2>3, <2>4, <2>5, <3>1, <3>2, <3>3 DEF InHandMemory
    <2>6. CASE drv'.pc = "StartST" /\ drv.pc = "Table" /\ drv.slot = Slots
      <3>1. HasMemory(q, Slots)
        BY <1>3, <2>2, <2>6 DEF InHandMemory
      <3>2. HasMemory(q, Slots)'
        BY <1>5, <2>4, <3>1
      <3>. QED  BY <2>3, <2>6, <3>2 DEF InHandMemory
    <2>. QED  BY <2>1, <2>5, <2>6
  <1>. QED  BY <1>6, <1>7

\* The tables of the slots that fit into one frame are in theirs, the first at its start.
LEMMA TableAtStart ==
  ASSUME NEW f \in Nat, NEW i \in 0 .. SlotsPerFrame - 1
  PROVE  TablePlace(f, i)[1] = f /\ (i = 0 => TablePlace(f, i)[2] = 0)
  <1>1. i \div SlotsPerFrame = 0 /\ (i = 0 => i % SlotsPerFrame = 0)
    BY AhciAssumption
  <1>2. PICK d, m : d = i \div SlotsPerFrame /\ m = i % SlotsPerFrame
    OBVIOUS
  <1>3. TablePlace(f, i) = <<f + d, m>>
    BY <1>2 DEF TablePlace
  <1>4. f + d = f
    BY <1>1, <1>2
  <1>. QED  BY <1>1, <1>2, <1>3, <1>4

\* One more table.
LEMMA OneMoreTable ==
  ASSUME NEW p, NEW n \in 0 .. Slots - 1, NEW f \in Nat, HasMemory(p, n),
         DOMAIN hba[p].table = 0 .. Slots - 1,
         Owned(p) \subseteq Owned(p)', f \in Owned(p)', f \notin Owned(p),
         hba'[p].list = hba[p].list, hba'[p].fis = hba[p].fis,
         hba'[p].table = [hba[p].table EXCEPT ![n] = TablePlace(f, n)]
  PROVE  HasMemory(p, n + 1)'
  <1>1. /\ SlotsPerFrame \in Nat /\ Slots \in Nat /\ SlotsPerFrame <= Slots
        /\ \A i \in 0 .. SlotsPerFrame - 1 :
             i \in 0 .. Slots - 1 /\ (i < n + 1 <=> i < n \/ i = n)
    BY AhciAssumption
  <1>2. \A i \in 0 .. SlotsPerFrame - 1 : i # n => hba'[p].table[i] = hba[p].table[i]
    BY <1>1
  <1>3. n \in 0 .. SlotsPerFrame - 1 =>
          hba'[p].table[n][1] = f /\ (n = 0 => hba'[p].table[n][2] = 0)
    <2>1. PICK x : x = TablePlace(f, n)
      OBVIOUS
    <2>2. n \in 0 .. SlotsPerFrame - 1 => x[1] = f /\ (n = 0 => x[2] = 0)
      BY <2>1, TableAtStart
    <2>3. hba'[p].table = [hba[p].table EXCEPT ![n] = x] /\ n \in DOMAIN hba[p].table
      BY <2>1
    <2>4. hba'[p].table[n] = x
      BY <2>3
    <2>. QED  BY <2>2, <2>4
  <1>. DEFINE SlotsFitting == 0 .. SlotsPerFrame - 1
  <1>4. ASSUME NEW i \in SlotsFitting, i < n + 1
        PROVE  /\ hba'[p].table[i][1] \in Owned(p)' /\ hba'[p].table[i][1] # hba'[p].list
               /\ hba'[p].table[i][1] # hba'[p].fis
               /\ \A j \in SlotsFitting : j < i => hba'[p].table[j][1] # hba'[p].table[i][1]
    <2>1. ASSUME NEW j \in SlotsFitting, j < n
          PROVE  /\ hba'[p].table[j][1] = hba[p].table[j][1]
                 /\ hba[p].table[j][1] \in Owned(p)
                 /\ hba[p].table[j][1] # hba[p].list /\ hba[p].table[j][1] # hba[p].fis
                 /\ \A k \in SlotsFitting : k < j => hba[p].table[k][1] # hba[p].table[j][1]
      <3>1. j # n
        BY <2>1
      <3>. QED  BY <1>2, <2>1, <3>1 DEF HasMemory
    <2>2. \A j \in SlotsFitting : j < i => j < n
      BY <1>4
    <2>3. CASE i < n
      BY <2>1, <2>2, <2>3
    <2>4. CASE i = n
      <3>1. hba'[p].table[i][1] = f
        BY <1>3, <2>4
      <3>2. hba[p].list \in Owned(p) /\ hba[p].fis \in Owned(p)
        BY DEF HasMemory
      <3>. QED  BY <2>1, <2>2, <3>1, <3>2
    <2>. QED  BY <1>1, <1>4, <2>3, <2>4
  <1>5. 0 < n + 1 => hba'[p].table[0][2] = 0
    <2>1. 0 \in 0 .. SlotsPerFrame - 1
      BY AhciAssumption
    <2>2. CASE n = 0
      BY <1>3, <2>1, <2>2
    <2>3. CASE n # 0
      <3>1. 0 < n /\ hba'[p].table[0] = hba[p].table[0]
        BY <1>2, <2>1, <2>3
      <3>. QED  BY <3>1 DEF HasMemory
    <2>. QED  BY <2>2, <2>3
  <1>. QED  BY <1>4, <1>5 DEF HasMemory

\* A requested frame becomes part of the memory of the port in hand.
LEMMA RequestStep ==
  ASSUME StartedInv, ConfigureCommandList \/ ConfigureFis \/ ConfigureTable
  PROVE  MemoryInv'
  <1>1. SUFFICES ASSUME AllLow'
                 PROVE  InHandMemory' /\ \A p \in configured' : HasMemory(p, Slots)'
    BY DEF MemoryInv
  <1>2. /\ drv.pc \in {"CommandList", "Fis", "Table"} /\ drv.pc \in Configuring
        /\ Port' = Port /\ UNCHANGED <<configured, failed>>
    BY DEF StartedInv, DriverInv, ConfigureCommandList, ConfigureFis, ConfigureTable, Goto, Port,
       Configuring
  <1>3. PICK q : q = Port /\ q \in DOMAIN hba /\ q \notin configured
    BY <1>2, InHandUnsettled DEF StartedInv
  <1>4. PICK f \in frames :
          /\ Requested(f)
          /\ cleared' = cleared \cup {f} \/ cleared' = (cleared \ {f}) \cup {Low(f)}
          /\ ConfigureCommandList =>
               hba' = [p \in DOMAIN hba |->
                         IF p = q THEN [hba[q] EXCEPT !.list = f, !.table = NoTables]
                         ELSE IF hba[p].list = Low(f) THEN [hba[p] EXCEPT !.table = NoTables]
                         ELSE hba[p]]
          /\ ConfigureFis => hba' = [hba EXCEPT ![q] = [hba[q] EXCEPT !.fis = f]]
          /\ ConfigureTable =>
               hba' = [hba EXCEPT ![q] =
                 [hba[q] EXCEPT !.table[drv.slot] = TablePlace(f, drv.slot)]]
    <2>1. CASE ConfigureCommandList
      BY <1>2, <1>3, <2>1 DEF ConfigureCommandList, ConfigureFis, ConfigureTable, Reg
    <2>2. CASE ConfigureFis
      BY <1>2, <1>3, <2>2 DEF ConfigureCommandList, ConfigureFis, ConfigureTable, Reg, SetPort
    <2>3. CASE ConfigureTable
      BY <1>2, <1>3, <2>3 DEF ConfigureCommandList, ConfigureFis, ConfigureTable, Reg, SetPort
    <2>. QED  BY <2>1, <2>2, <2>3
  <1>5. /\ AllLow /\ Low(f) = f /\ f \in Nat \ {0} /\ f \notin DOMAIN owner
        /\ \A p : Owned(p) \subseteq Owned(p)' /\ f \notin Owned(p)
        /\ f \in Owned(q)'
    <2>1. /\ AllLow /\ Low(f) = f /\ f \in Nat \ {0} /\ f \notin DOMAIN owner
          /\ \A p : Owned(p) \subseteq Owned(p)' /\ f \notin Owned(p)
          /\ \A p : p = Port =>
               f \in {g \in (cleared' \cap DOMAIN owner') \ frames' : owner'[g] = p}
      BY <1>1, <1>4, FrameRequested DEF StartedInv
    <2>2. f \in {g \in (cleared' \cap DOMAIN owner') \ frames' : owner'[g] = q}
      BY <1>3, <2>1
    <2>3. f \in Owned(q)'
      BY <2>2 DEF Owned
    <2>. QED  BY <2>1, <2>3
  <1>6. InHandMemory /\ \A p \in configured : HasMemory(p, Slots)
    BY <1>5 DEF StartedInv, MemoryInv
  <1>7. \A p \in DOMAIN hba : IsRegister(hba[p])
    BY DEF StartedInv, DriverInv, PortInv
  <1>8. configured \subseteq DOMAIN hba
    BY DEF StartedInv, OrderInv, Settled
  <1>9. ASSUME NEW p \in configured PROVE HasMemory(p, Slots)'
    <2>1. HasMemory(p, Slots) /\ p # q /\ p \in DOMAIN hba
      BY <1>3, <1>6, <1>8
    <2>2. hba[p].list # f
      BY <1>5, <2>1 DEF HasMemory
    <2>3. hba'[p] = hba[p]
      BY <1>4, <1>5, <2>1, <2>2
    <2>. QED  BY <1>5, <2>1, <2>3, MemoryKept
  <1>10. CASE ConfigureCommandList
    <2>1. hba'[q] = [hba[q] EXCEPT !.list = f, !.table = NoTables]
      BY <1>3, <1>4, <1>10
    <2>2. hba'[q].list = f /\ hba'[q].table = NoTables
      BY <1>3, <1>7, <2>1 DEF IsRegister
    <2>3. drv'.pc = "Fis"
      BY <1>10 DEF ConfigureCommandList, Goto, StartedInv, DriverInv
    <2>4. InHandMemory'
      BY <1>2, <1>3, <1>5, <2>2, <2>3 DEF InHandMemory, NoTables
    <2>. QED  BY <1>2, <1>9, <2>4
  <1>11. CASE ConfigureFis
    <2>1. hba'[q] = [hba[q] EXCEPT !.fis = f]
      BY <1>3, <1>4, <1>11
    <2>2. hba'[q].fis = f /\ hba'[q].list = hba[q].list /\ hba'[q].table = hba[q].table
      BY <1>3, <1>7, <2>1 DEF IsRegister
    <2>3. drv'.pc = "Table" /\ drv'.slot = 0 /\ drv.pc = "Fis"
      BY <1>11 DEF ConfigureFis, StartedInv, DriverInv
    <2>4. hba[q].list \in Owned(q) /\ DOMAIN hba[q].table = 0 .. Slots - 1
      BY <1>3, <1>6, <2>3 DEF InHandMemory
    <2>5. HasMemory(q, 0)'
      <3>1. \A i \in 0 .. SlotsPerFrame - 1 : ~(i < 0)
        BY AhciAssumption
      <3>. QED  BY <1>5, <2>2, <2>4, <3>1 DEF HasMemory
    <2>6. 0 \in 0 .. Slots
      BY AhciAssumption
    <2>7. InHandMemory'
      BY <1>2, <1>3, <2>2, <2>3, <2>4, <2>5, <2>6 DEF InHandMemory
    <2>. QED  BY <1>2, <1>9, <2>7
  <1>12. CASE ConfigureTable
    <2>1. PICK n : n = drv.slot
      OBVIOUS
    <2>2. drv'.pc = "Table" /\ drv'.slot = n + 1 /\ drv.pc = "Table" /\ n < Slots
      BY <1>12, <2>1 DEF ConfigureTable, StartedInv, DriverInv
    <2>3. /\ n \in 0 .. Slots /\ HasMemory(q, n) /\ DOMAIN hba[q].table = 0 .. Slots - 1
      BY <1>3, <1>6, <2>1, <2>2 DEF InHandMemory
    <2>4. n \in 0 .. Slots - 1 /\ n + 1 \in 0 .. Slots
      BY <2>2, <2>3, AhciAssumption
    <2>5. PICK t : t = [hba[q].table EXCEPT ![n] = TablePlace(f, n)]
      OBVIOUS
    <2>6. hba'[q] = [hba[q] EXCEPT !.table = t]
      BY <1>3, <1>4, <1>12, <2>1, <2>5
    <2>7. hba'[q].table = t /\ hba'[q].list = hba[q].list /\ hba'[q].fis = hba[q].fis
      BY <1>3, <1>7, <2>6 DEF IsRegister
    <2>8. HasMemory(q, n + 1)'
      BY <1>5, <2>3, <2>4, <2>5, <2>7, OneMoreTable
    <2>9. DOMAIN t = 0 .. Slots - 1
      BY <2>3, <2>5
    <2>10. PICK m : m = n + 1
      OBVIOUS
    <2>11. HasMemory(q, m)'
      BY <2>8, <2>10
    <2>12. InHandMemory'
      BY <1>2, <1>3, <2>2, <2>4, <2>7, <2>9, <2>10, <2>11 DEF InHandMemory
    <2>. QED  BY <1>2, <1>9, <2>12
  <1>. QED  BY <1>10, <1>11, <1>12

\* A port stays as it was refused, and what is refused is not started.
LEMMA RefusedStep ==
  ASSUME StartedInv,
         \/ hba' = hba \/ StopCMD_ST \/ StopCMD_FRE \/ StartCMD_FRE \/ StartCMD_ST \/ IssueCommand
         \/ ConfigureCommandList \/ ConfigureFis \/ ConfigureTable
         \/ \E q \in DOMAIN hba, tag \in Tags : StartRead(q, tag)
         \/ \E q \in DOMAIN hba : HbaStep(q),
         \/ UNCHANGED <<configured, failed>>
         \/ StartCMD_ST
         \/ ConfigureFails
  PROVE  RefusedInv'
  <1>1. ASSUME NEW p \in failed
        PROVE  AtRest(hba'[p])
    <2>1. /\ p \in DOMAIN hba /\ AtRest(hba[p]) /\ IsRegister(hba[p]) /\ p \notin configured
      BY <1>1 DEF StartedInv, OrderInv, Settled, RefusedInv, DriverInv, PortInv
    <2>2. drv.pc \in Configuring \/ drv.pc \in {"WaitDevice", "Poll"} => p # Port
      BY <1>1, <2>1, InHandUnsettled DEF StartedInv, OrderInv, DriverPlace
    <2>3. CASE hba' = hba
      BY <2>1, <2>3
    <2>4. CASE StopCMD_ST \/ StopCMD_FRE \/ StartCMD_FRE \/ StartCMD_ST \/ IssueCommand
                 \/ ConfigureFis \/ ConfigureTable
      <3>1. hba'[p] = hba[p]
        BY <2>1, <2>2, <2>4 DEF StopCMD_ST, StopCMD_FRE, StartCMD_FRE, StartCMD_ST, IssueCommand,
           ConfigureFis, ConfigureTable, SetPort, Configuring
      <3>. QED  BY <2>1, <3>1
    <2>5. CASE ConfigureCommandList
      <3>1. hba'[p] \in {hba[p], [hba[p] EXCEPT !.table = NoTables]}
        BY <2>1, <2>2, <2>5 DEF ConfigureCommandList, Configuring
      <3>. QED  BY <2>1, <3>1 DEF IsRegister, AtRest
    <2>6. CASE \E q \in DOMAIN hba, tag \in Tags : StartRead(q, tag)
      <3>1. PICK q \in DOMAIN hba, tag \in Tags : StartRead(q, tag)
        BY <2>6
      <3>2. hba'[p] = hba[p]
        BY <2>1, <3>1 DEF StartRead, Readable
      <3>. QED  BY <2>1, <3>2
    <2>7. CASE \E q \in DOMAIN hba : HbaStep(q)
      <3>1. \/ hba'[p] \in {hba[p], [hba[p] EXCEPT !.fr = FALSE],
                            [hba[p] EXCEPT !.cr = FALSE, !.ci = FALSE, !.halted = FALSE],
                            [hba[p] EXCEPT !.busy = FALSE],
                            [hba[p] EXCEPT !.tfes = TRUE, !.halted = TRUE]}
            \/ \E busy \in BOOLEAN : hba'[p] = [hba[p] EXCEPT !.ci = FALSE, !.busy = busy]
        BY <2>1, <2>7
           DEF HbaStep, HbaStarts, HbaStops, DeviceReady, HbaCompletes, HbaFails, AtRest
      <3>. QED  BY <2>1, <3>1 DEF IsRegister, AtRest
    <2>8. CASE ConfigureFails
      BY <2>1, <2>8 DEF ConfigureFails
    <2>. QED  BY <2>3, <2>4, <2>5, <2>6, <2>7, <2>8
  <1>2. CASE UNCHANGED <<configured, failed>>
    BY <1>1, <1>2 DEF StartedInv, RefusedInv
  <1>3. CASE StartCMD_ST
    <2>1. /\ failed' = failed /\ configured' = configured \cup {Port} /\ Port \notin failed
      BY <1>3, InHandUnsettled DEF StartCMD_ST, StartedInv, Configuring
    <2>. QED  BY <1>1, <2>1 DEF StartedInv, RefusedInv
  <1>4. CASE ConfigureFails
    <2>1. /\ failed' = failed \cup {Port} /\ configured' = configured /\ Port \notin configured
          /\ drv.pc \in {"CommandList", "Fis", "Table"} /\ hba' = hba /\ Port \in DOMAIN hba
      BY <1>4, InHandUnsettled DEF ConfigureFails, StartedInv, Configuring
    <2>2. AtRest(hba[Port])
      BY <2>1 DEF StartedInv, DriverInv, PortInv, StoppedFirst, AtRest
    <2>. QED  BY <1>1, <2>1, <2>2 DEF StartedInv, RefusedInv
  <1>. QED  BY <1>2, <1>3, <1>4

\* Before activate_all no port is settled.
LEMMA StartedInitially == Init /\ ScanInv /\ DriverInv => StartedInv
  <1>. SUFFICES ASSUME Init, ScanInv, DriverInv PROVE StartedInv
    OBVIOUS
  <1>1. /\ drv.pc = "ActivateNext" /\ drv.k = 1 /\ drv.j = 1
        /\ configured = {} /\ failed = {} /\ DOMAIN hba = DOMAIN machine.ports
    BY DEF Init, AhciInit, Idle
  <1>2. OrderInv
    BY <1>1 DEF OrderInv, DriverPlace, Settled, Probing, Configuring
  <1>. QED  BY <1>1, <1>2 DEF StartedInv, RefusedInv, MemoryInv, InHandMemory

\* Every step keeps what is known of settled ports and their memory.
LEMMA StartedStep ==
  ASSUME StartedInv, [Next]_vars
  PROVE  OrderInv' /\ RefusedInv' /\ MemoryInv'
  <1>1. CASE Scan \/ UNCHANGED vars
    <2>1. UNCHANGED ahciVars /\ hba' = hba /\ Port' = Port
      BY <1>1 DEF Scan, vars, ahciVars, Port
    <2>2. OrderInv'
      <3>1. CASE Scan
        BY <3>1, ScanOrder DEF StartedInv
      <3>2. CASE UNCHANGED vars
        <4>1. UNCHANGED <<hba, drv, configured, failed, machine, scan, drivers>>
          BY <3>2 DEF vars, ahciVars, scanVars
        <4>2. DriverPlace'
          BY <4>1 DEF StartedInv, OrderInv, DriverPlace, Port
        <4>3. \A p : SettledBefore(p)' <=> SettledBefore(p)
          BY <4>1 DEF SettledBefore
        <4>. QED  BY <4>1, <4>2, <4>3 DEF StartedInv, OrderInv, Settled
      <3>. QED  BY <1>1, <3>1, <3>2
    <2>3. RefusedInv'
      BY <2>1, RefusedStep DEF ahciVars
    <2>4. MemoryInv'
      BY <2>1, MemoryKeptStep DEF ahciVars
    <2>. QED  BY <2>2, <2>3, <2>4
  <1>2. CASE activate_all
    <2>0. scan.pc = "Done" /\ UNCHANGED scanVars
      BY <1>2 DEF activate_all
    <2>1. CASE ActivationEnds(Len(drivers)) \/ Activate \/ ConfigurePort \/ NextPort
      <3>1. /\ UNCHANGED <<hba, frames, owner, cleared, configured, failed>>
            /\ drv'.pc \notin {"Fis", "Table", "StartST"}
        BY <2>1 DEF ActivationEnds, Activate, ProbePorts, ConfigurePort, NextPort, Goto,
           AllocatorFrames, StartedInv, DriverInv
      <3>2. OrderInv'
        BY <2>0, <2>1, LoopStep DEF StartedInv
      <3>3. RefusedInv'
        BY <3>1, RefusedStep
      <3>4. MemoryInv'
        BY <3>1, MemoryKeptStep
      <3>. QED  BY <3>2, <3>3, <3>4
    <2>2. CASE ConfigureCommandList \/ ConfigureFis \/ ConfigureTable
      <3>1. UNCHANGED <<configured, failed>>
        BY <2>2 DEF ConfigureCommandList, ConfigureFis, ConfigureTable
      <3>2. OrderInv' /\ RefusedInv'
        BY <2>0, <2>2, <3>1, InHandStep, RefusedStep DEF StartedInv
      <3>. QED  BY <2>2, <3>2, RequestStep
    <2>3. CASE StopCMD_ST \/ StopCMD_FRE \/ StopCMD_Wait \/ StartCMD_FRE
      <3>1. UNCHANGED <<frames, owner, cleared, configured, failed>>
        BY <2>3 DEF StopCMD_ST, StopCMD_FRE, StopCMD_Wait, StartCMD_FRE, AllocatorFrames
      <3>2. hba' = hba \/ StopCMD_ST \/ StopCMD_FRE \/ StartCMD_FRE
        BY <2>3 DEF StopCMD_Wait
      <3>3. drv'.pc \in {"Fis", "Table", "StartST"} =>
              drv'.pc = "StartST" /\ drv.pc = "Table" /\ drv.slot = Slots /\ Port' = Port
        BY <2>3 DEF StopCMD_ST, StopCMD_FRE, StopCMD_Wait, StartCMD_FRE, Goto, StartedInv,
           DriverInv, Port
      <3>4. OrderInv' /\ RefusedInv'
        BY <2>0, <2>3, <3>1, <3>2, InHandStep, RefusedStep DEF StartedInv
      <3>5. MemoryInv'
        BY <3>1, <3>2, <3>3, MemoryKeptStep
      <3>. QED  BY <3>4, <3>5
    <2>4. CASE StartCMD_ST \/ ConfigureFails
      <3>1. /\ UNCHANGED <<frames, owner, cleared>> /\ drv'.pc = "NextPort"
            /\ configured' \subseteq configured \cup {Port}
            /\ Port \in configured' \ configured => drv.pc = "StartST"
        BY <2>4 DEF StartCMD_ST, ConfigureFails, AllocatorFrames, Goto, StartedInv, DriverInv
      <3>2. hba' = hba \/ StartCMD_ST
        BY <2>4 DEF ConfigureFails
      <3>3. OrderInv' /\ RefusedInv'
        BY <2>0, <2>4, <3>2, SettleStep, RefusedStep DEF StartedInv
      <3>4. MemoryInv'
        BY <3>1, <3>2, MemoryKeptStep
      <3>. QED  BY <3>3, <3>4
    <2>. QED  BY <1>2, <2>1, <2>2, <2>3, <2>4 DEF activate_all, ConfigureStep
  <1>3. CASE Read \/ ReadContinues \/ \E p \in DOMAIN hba : Controller(p)
    <2>1. \/ \E q \in DOMAIN hba, tag \in Tags : StartRead(q, tag)
          \/ ReadStep
          \/ \E q \in DOMAIN hba : HbaStep(q)
      BY <1>3 DEF Read, ReadContinues, Controller
    <2>2. UNCHANGED scanVars /\ UNCHANGED <<frames, owner, cleared, configured, failed>>
      BY <1>3 DEF Read, ReadContinues, Controller, StartRead, ReadStep, DeviceStaysBusy,
         IssueCommand, CommandDone, CommandFailed, HbaStep, AllocatorFrames
    <2>3. \/ hba' = hba \/ IssueCommand
          \/ \E q \in DOMAIN hba, tag \in Tags : StartRead(q, tag)
          \/ \E q \in DOMAIN hba : HbaStep(q)
      BY <2>1 DEF ReadStep, DeviceStaysBusy, CommandDone, CommandFailed
    <2>4. drv'.pc \in {"Fis", "Table", "StartST"} => drv' = drv /\ Port' = Port
      BY <2>1 DEF StartRead, ReadStep, DeviceStaysBusy, IssueCommand, CommandDone,
         CommandFailed, Returned, Goto, HbaStep, StartedInv, DriverInv, Port
    <2>5. OrderInv'
      BY <2>1, <2>2, ReadOrder DEF StartedInv
    <2>6. RefusedInv'
      BY <2>2, <2>3, RefusedStep
    <2>7. MemoryInv'
      BY <2>2, <2>3, <2>4, MemoryKeptStep
    <2>. QED  BY <2>5, <2>6, <2>7
  <1>. QED  BY <1>1, <1>2, <1>3 DEF Next

\* What a port has are as many frames as it was to get.
LEMMA MemoryCounted ==
  ASSUME NEW p, HasMemory(p, Slots)
  PROVE  LET r == hba[p]
             used == {r.list, r.fis} \cup {r.table[i][1] : i \in 0 .. SlotsPerFrame - 1}
         IN  /\ used \subseteq Owned(p) /\ Cardinality(used) = 2 + SlotsPerFrame
             /\ r.table[0][2] = 0 /\ r.table[0][1] \in used
  <1>1. PICK S, T, l, g, t :
          /\ S = 0 .. SlotsPerFrame - 1 /\ T = {t[i] : i \in S}
          /\ l = hba[p].list /\ g = hba[p].fis /\ t = [i \in S |-> hba[p].table[i][1]]
    <2>1. PICK S : S = 0 .. SlotsPerFrame - 1
      OBVIOUS
    <2>2. PICK t : t = [i \in S |-> hba[p].table[i][1]]
      OBVIOUS
    <2>. QED  BY <2>1, <2>2, Zenon
  <1>2. \A i \in S : i < Slots
    BY <1>1, AhciAssumption
  <1>3. /\ l \in Owned(p) /\ g \in Owned(p) /\ g # l
        /\ \A i \in S : /\ t[i] \in Owned(p) /\ t[i] # l /\ t[i] # g
                        /\ \A j \in S : j < i => t[j] # t[i]
    <2>1. \A i \in S : t[i] = hba[p].table[i][1]
      BY <1>1
    <2>. QED  BY <1>1, <1>2, <2>1 DEF HasMemory
  <1>4. IsFiniteSet(T) /\ Cardinality(T) = SlotsPerFrame
    <2>1. IsFiniteSet(S) /\ Cardinality(S) = SlotsPerFrame
      BY <1>1, FS_Interval, AhciAssumption
    <2>2. PICK h : h = [i \in S |-> t[i]]
      OBVIOUS
    <2>3. \A i, j \in S : i < j \/ j < i \/ i = j
      BY <1>1, AhciAssumption
    <2>4. h \in Bijection(S, T)
      BY <1>1, <1>3, <2>2, <2>3 DEF Bijection, Injection, Surjection, IsInjective
    <2>5. ExistsBijection(S, T)
      BY <2>4 DEF ExistsBijection
    <2>. QED  BY <2>1, <2>5, FS_Bijection
  <1>5. g \notin T /\ l \notin T \cup {g}
    BY <1>1, <1>3
  <1>6. Cardinality(T \cup {g} \cup {l}) = 2 + SlotsPerFrame
    <2>1. IsFiniteSet(T \cup {g}) /\ Cardinality(T \cup {g}) = SlotsPerFrame + 1
      BY <1>4, <1>5, FS_AddElement
    <2>. QED  BY <1>5, <2>1, FS_AddElement, AhciAssumption
  <1>7. {l, g} \cup T = T \cup {g} \cup {l}
    OBVIOUS
  <1>8. {l, g} \cup T \subseteq Owned(p)
    BY <1>1, <1>3
  <1>9. T = {hba[p].table[i][1] : i \in 0 .. SlotsPerFrame - 1}
    BY <1>1
  <1>10. hba[p].table[0][2] = 0
    BY AhciAssumption DEF HasMemory
  <1>11. hba[p].table[0][1] \in T
    BY <1>9, AhciAssumption
  <1>. QED  BY <1>1, <1>6, <1>7, <1>8, <1>9, <1>10, <1>11

\* A started port has memory of its own and a refused one is at rest: for every machine,
\* any number of controllers, ports, slots and frames, wherever memory runs out and
\* whatever the controllers do meanwhile.
THEOREM StartedPortsCorrect == Spec => []StartedPortsAreComplete
  <1>1. Init /\ ScanInv /\ DriverInv => StartedInv
    BY StartedInitially
  <1>2. StartedInv /\ ScanInv' /\ DriverInv' /\ [Next]_vars => StartedInv'
    BY StartedStep DEF StartedInv
  <1>3. StartedInv => StartedPortsAreComplete
    <2>. SUFFICES ASSUME StartedInv PROVE StartedPortsAreComplete
      OBVIOUS
    <2>1. configured \cap failed = {} /\ \A p \in failed : AtRest(hba[p])
      BY DEF StartedInv, RefusedInv
    <2>2. ASSUME AllLow, NEW p \in configured
          PROVE  LET r == hba[p]
                     used == {r.list, r.fis} \cup {r.table[i][1] : i \in 0 .. SlotsPerFrame - 1}
                 IN  /\ used \subseteq Owned(p) /\ Cardinality(used) = 2 + SlotsPerFrame
                     /\ r.table[0][2] = 0 /\ r.table[0][1] \in used
      BY <2>2, MemoryCounted DEF StartedInv, MemoryInv
    <2>. QED  BY <2>1, <2>2 DEF StartedPortsAreComplete, AtRest, Owned
  <1>. QED  BY <1>1, <1>2, <1>3, ScanInvariant, DriverInvariant, PTL DEF Spec
=============================================================================
