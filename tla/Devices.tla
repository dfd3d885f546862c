------------------------------ MODULE Devices -------------------------------
(***************************************************************************)
(* Device discovery as kernel initialisation runs it: the PCI scan finds   *)
(* the controllers and adds their drivers, activate_all then activates     *)
(* them, and afterwards ports are read from.  The controllers of all ports *)
(* run next to it from the start.                                          *)
(***************************************************************************)
EXTENDS PciScan, Ahci

vars == <<scanVars, ahciVars>>

\* The allocator never serves the frame at address 0.
ASSUME FramesAssumption == \A m \in Machines : m.frames \subseteq Nat \ {0}

\* A port is a controller and one of its 32 port numbers.
ASSUME PortsAssumption ==
  \A m \in Machines :
    IsFiniteSet(DOMAIN m.ports) /\ \A p \in DOMAIN m.ports : p[2] \in 0 .. 31

\* The machine also says what the ports of its AHCI controllers are, which frames the
\* allocator has left for them, and whether the page behind the one the driver maps
\* is in the identity map of memory.
Init ==
  /\ ScanInit
  /\ AhciInit(machine.ports, machine.frames)

\* AHCIDriver::activate of the driver in hand.
Activate ==
  /\ drv.k <= Len(drivers)
  /\ ProbePorts(drivers[drv.k], machine.secondPageMapped)

activate_all ==
  /\ scan.pc = "Done"
  /\ Activate \/ ConfigureStep \/ ActivationEnds(Len(drivers))
  /\ UNCHANGED scanVars

Scan == ScanNext /\ UNCHANGED ahciVars

Read ==
  /\ \E p \in DOMAIN hba, tag \in Tags : StartRead(p, tag)
  /\ UNCHANGED scanVars

ReadContinues == ReadStep /\ UNCHANGED scanVars

Controller(p) == HbaStep(p) /\ UNCHANGED scanVars

Next ==
  \/ Scan \/ activate_all \/ Read \/ ReadContinues
  \/ \E p \in DOMAIN hba : Controller(p)

\* The kernel runs on, and so does each controller; nobody has to read.
Fairness ==
  /\ WF_vars(Scan) /\ WF_vars(activate_all) /\ WF_vars(ReadContinues)
  /\ \A p \in {<<a, i>> : a \in UNION {DOMAIN m.classes : m \in Machines},
                          i \in 0 .. 31} :
       WF_vars(p \in DOMAIN hba /\ Controller(p))

Spec == Init /\ [][Next]_vars /\ Fairness

-----------------------------------------------------------------------------

\* The disks of the controllers that have a driver.
Disk(p) == p[1] \in ToSet(drivers) /\ IsDisk(hba[p].kind)

\* Device discovery ends, whatever the firmware left running and whenever memory
\* runs out, and then each disk of each controller is either configured or was
\* refused for good; only a port outside the mapped page stops the kernel.
PortsSettle ==
  <>( \/ drv.pc = "PageFault"
      \/ /\ drv.pc \notin {"ActivateNext", "Configure"} /\ scan.pc = "Done"
         /\ \A p \in DOMAIN hba : Disk(p) <=> p \in configured \cup failed)
=============================================================================
