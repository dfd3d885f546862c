------------------------------ MODULE PciScan -------------------------------
(***************************************************************************)
(* The PCI scan (PCI/pci.cpp) and the driver manager (utils/driver.cpp).   *)
(* The configuration space of a function is named by its address, a tuple  *)
(* <<base, bus, device, function>>; the code computes one number from it.  *)
(***************************************************************************)
EXTENDS Integers, Sequences, SequencesExt

CONSTANTS
  Machines,       \* What the firmware and the bus may look like (see Machine).
  DeviceCount,    \* Devices of a bus (32).
  FunctionCount,  \* Functions of a device (8).
  MaxDevices,     \* MAX_NUMBER_OF_LANES (32): the size of the device table.
  DriverNum       \* DRIVER_NUM (512): the size of the driver table.

ASSUME ScanAssumption ==
  /\ DeviceCount \in Nat \ {0} /\ FunctionCount \in Nat \ {0}
  /\ MaxDevices \in Nat \ {0} /\ DriverNum \in Nat \ {0}

\* No two segments of the MCFG describe the same bus.
ASSUME SegmentsAssumption ==
  \A m \in Machines :
    /\ m.mcfg \in Seq([base : Nat, start : Nat, end : Nat])
    /\ \A i, j \in DOMAIN m.mcfg :
         LET s == m.mcfg[i] t == m.mcfg[j]
         IN  i < j => s.base # t.base \/ s.end <= t.start \/ t.end <= s.start

VARIABLES
  machine,        \* The machine: mcfg, a sequence of segments, and classes, the
                  \* class code of each function that answers.
  scan,           \* Where the loops of EnumeratePCI are.
  s_pci_devices,  \* The functions found.
  drivers         \* The drivers added, each named by its function.

scanVars == <<machine, scan, s_pci_devices, drivers>>

-----------------------------------------------------------------------------

\* A function whose DeviceID is neither 0 nor 0xffff.
Present(a) == a \in DOMAIN machine.classes

Segment == machine.mcfg[scan.entry]

BusAddress == <<Segment.base, scan.bus, 0, 0>>
DeviceAddress == <<Segment.base, scan.bus, scan.device, 0>>
FunctionAddress == <<Segment.base, scan.bus, scan.device, scan.function>>

\* With no segment there is nothing to scan, and no driver to look for.
FirstBus(entry) ==
  IF entry <= Len(machine.mcfg)
  THEN [pc |-> "EnumerateBus", entry |-> entry, bus |-> machine.mcfg[entry].start,
        device |-> 0, function |-> 0, i |-> 0]
  ELSE [pc |-> "AddDrivers", entry |-> entry, bus |-> 0, device |-> 0, function |-> 0,
        i |-> 1]

\* EnumerateBus taking the first device, whose presence it tested, for done.
FirstDeviceSkipped ==
  /\ scan.pc = "EnumerateBus"
  /\ scan' = IF scan.bus >= Segment.end THEN FirstBus(scan.entry + 1)
             ELSE IF Present(BusAddress)
             THEN [scan EXCEPT !.pc = "EnumerateDevice", !.device = 1]
             ELSE [scan EXCEPT !.bus = @ + 1]
  /\ UNCHANGED <<machine, s_pci_devices, drivers>>

\* A bus without a first device is left out; so is the last bus of a segment.
EnumerateBus ==
  /\ scan.pc = "EnumerateBus"
  /\ scan' = IF scan.bus >= Segment.end THEN FirstBus(scan.entry + 1)
             ELSE IF Present(BusAddress)
             THEN [scan EXCEPT !.pc = "EnumerateDevice", !.device = 0]
             ELSE [scan EXCEPT !.bus = @ + 1]
  /\ UNCHANGED <<machine, s_pci_devices, drivers>>

EnumerateDevice ==
  /\ scan.pc = "EnumerateDevice"
  /\ scan' = IF scan.device = DeviceCount
             THEN [scan EXCEPT !.pc = "EnumerateBus", !.bus = @ + 1]
             ELSE IF Present(DeviceAddress)
             THEN [scan EXCEPT !.pc = "EnumerateFunction", !.function = 0]
             ELSE [scan EXCEPT !.device = @ + 1]
  /\ UNCHANGED <<machine, s_pci_devices, drivers>>

\* What does not fit into the table is dropped.
EnumerateFunction ==
  /\ scan.pc = "EnumerateFunction"
  /\ IF scan.function = FunctionCount
     THEN /\ scan' = [scan EXCEPT !.pc = "EnumerateDevice", !.device = @ + 1]
          /\ UNCHANGED s_pci_devices
     ELSE /\ scan' = [scan EXCEPT !.function = @ + 1]
          /\ s_pci_devices' = IF Present(FunctionAddress) /\ Len(s_pci_devices) < MaxDevices
                              THEN Append(s_pci_devices, FunctionAddress)
                              ELSE s_pci_devices
  /\ UNCHANGED <<machine, drivers>>

WithDriver(ds, d) == IF Len(ds) = DriverNum THEN ds ELSE Append(ds, d)

\* Only an AHCI 1.0 controller has a driver.
AddDriver ==
  /\ scan.pc = "AddDrivers"
  /\ IF scan.i > Len(s_pci_devices)
     THEN scan' = [scan EXCEPT !.pc = "Done"] /\ UNCHANGED drivers
     ELSE /\ scan' = [scan EXCEPT !.i = @ + 1]
          /\ drivers' = IF machine.classes[s_pci_devices[scan.i]] = "AHCI"
                        THEN WithDriver(drivers, s_pci_devices[scan.i]) ELSE drivers
  /\ UNCHANGED <<machine, s_pci_devices>>

ScanInit ==
  /\ machine \in Machines
  /\ s_pci_devices = <<>> /\ drivers = <<>>
  /\ scan = FirstBus(1)

ScanNext ==
  EnumerateBus \/ EnumerateDevice \/ EnumerateFunction \/ AddDriver

-----------------------------------------------------------------------------
(* The functions of these files that only look something up.               *)

Null == <<>>

\* EnumerateFunction(mcfg, entry, bus, device, function): the function at a
\* place, counted from the segment's first bus.
FunctionAt(entry, busIndex, device, function) ==
  LET s == machine.mcfg[entry]
      bus == s.start + busIndex
  IN  IF /\ entry <= Len(machine.mcfg)
         /\ device < DeviceCount /\ function < FunctionCount /\ bus < s.end
         /\ Present(<<s.base, bus, 0, 0>>) /\ Present(<<s.base, bus, device, 0>>)
         /\ Present(<<s.base, bus, device, function>>)
      THEN <<s.base, bus, device, function>> ELSE Null

\* get_by_index: 2 ^ 64 - 1 is the largest index when there is no driver.  The
\* table is empty memory behind the drivers, and not a table behind DriverNum.
GetByIndex(index) ==
  IF Len(drivers) > 0 /\ index > Len(drivers) - 1 THEN Null
  ELSE IF index < Len(drivers) THEN drivers[index + 1]
  ELSE IF index < DriverNum THEN Null
  ELSE "behind the table"

-----------------------------------------------------------------------------

PlacesIn(entry) ==
  {FunctionAt(entry, b, d, f) :
     b \in 0 .. machine.mcfg[entry].end, d \in 0 .. DeviceCount - 1,
     f \in 0 .. FunctionCount - 1}

AllPlaces == (UNION {PlacesIn(e) : e \in DOMAIN machine.mcfg}) \ {Null}

\* The elements of s come in t in the same order.
InOrderOf(s, t) ==
  \A i, j \in DOMAIN s : i < j =>
    \E m, n \in DOMAIN t : m < n /\ t[m] = s[i] /\ t[n] = s[j]

\* The two ways the code has to find a function agree: unless the table was too
\* small, the scan has listed every function the look-up by place can return,
\* and no other and none twice, whatever the bus numbers, the gaps and the
\* multi-function devices; every AHCI controller listed has its driver, in that
\* order; and the index of a driver finds it, other indices nothing (once there
\* is a driver).
ScanMatchesLookup ==
  scan.pc = "Done" =>
    /\ ToSet(s_pci_devices) \subseteq AllPlaces /\ IsInjective(s_pci_devices)
    /\ Len(s_pci_devices) < MaxDevices => AllPlaces \subseteq ToSet(s_pci_devices)
    /\ InOrderOf(drivers, s_pci_devices)
    /\ Len(drivers) < DriverNum =>
         ToSet(drivers) = {a \in ToSet(s_pci_devices) : machine.classes[a] = "AHCI"}
    /\ drivers # <<>> => \A i \in 0 .. DriverNum :
         GetByIndex(i) = IF i + 1 \in DOMAIN drivers THEN drivers[i + 1] ELSE Null
=============================================================================
