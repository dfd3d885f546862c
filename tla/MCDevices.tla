----------------------------- MODULE MCDevices -----------------------------
(* Buses of two devices with two functions each, tables of three functions  *)
(* and two drivers, three command slots of which two fit into a frame.       *)
EXTENDS Devices

Kind(signature) ==
  [implemented |-> TRUE, det |-> 3, ipm |-> 1, signature |-> signature]

Absent == [Kind("SATA") EXCEPT !.det = 0]
Sleeping == [Kind("SATAPI") EXCEPT !.ipm = 8]
Partial == [Kind("SATA") EXCEPT !.ipm = 2]
Unimplemented == [Kind("SATA") EXCEPT !.implemented = FALSE]

NoPorts == [p \in {} |-> 0]

Machine(mcfg, classes, ports, mapped, frameSet) ==
  [mcfg |-> mcfg, classes |-> classes, ports |-> ports, secondPageMapped |-> mapped,
   frames |-> frameSet]

Seg(base, start, end) == [base |-> base, start |-> start, end |-> end]

\* Two disks and what is no disk on one controller, on a second bus.
OneController(frameSet) ==
  LET c == <<1, 1, 0, 0>>
  IN  Machine(<<Seg(1, 0, 2)>>,
        <<1, 0, 0, 0>> :> "Bridge" @@ c :> "AHCI",
        <<c, 0>> :> Kind("SATA") @@ <<c, 1>> :> Partial @@ <<c, 2>> :> Sleeping
          @@ <<c, 3>> :> Kind("PM"), FALSE, frameSet)

\* A disk on each of two functions of one device.
TwoControllers(frameSet) ==
  LET c == <<1, 0, 1, 0>> d == <<1, 0, 1, 1>>
  IN  Machine(<<Seg(1, 0, 1), Seg(2, 3, 3)>>,
        <<1, 0, 0, 0>> :> "Bridge" @@ c :> "AHCI" @@ d :> "AHCI",
        <<c, 0>> :> Kind("SATA") @@ <<c, 1>> :> Unimplemented @@ <<d, 0>> :> Kind("SATAPI")
          @@ <<d, 1>> :> Absent, FALSE, frameSet)

\* A port outside the page the driver maps.
ManyPorts(mapped, frameSet) ==
  LET c == <<2, 4, 0, 0>>
  IN  Machine(<<Seg(1, 0, 1), Seg(2, 4, 5)>>,
        <<1, 0, 0, 0>> :> "Bridge" @@ c :> "AHCI",
        <<c, 4>> :> Kind("SATA"), mapped, frameSet)

\* Every set of functions on two buses of a segment that may end before the second.
SomeFunctions ==
  {<<1, b, d, f>> : b \in 0 .. 1, d \in 0 .. 1, f \in 0 .. 1}

Topologies ==
  {Machine(<<Seg(1, s, e)>>, [a \in S |-> IF a[4] = 0 THEN "AHCI" ELSE "Other"],
           NoPorts, FALSE, {}) :
     S \in SUBSET SomeFunctions, s \in 0 .. 1, e \in 1 .. 2}

\* From no frame at all to enough for two ports, and a command list that is not low.
SomeFrameSets ==
  {1 .. n : n \in {0, 1, 3, 7, 10}} \cup {{1, 2, 3, 4, 5, 12, 13, 14, 15, 16}}

SomeMachines ==
  {OneController(F) : F \in SomeFrameSets} \cup {TwoControllers(F) : F \in SomeFrameSets}
  \cup {ManyPorts(mapped, 1 .. 5) : mapped \in BOOLEAN}
  \cup {Machine(<<>>, <<1, 0, 0, 0>> :> "AHCI", NoPorts, FALSE, {})} \cup Topologies
=============================================================================
