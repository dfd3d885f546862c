----------------------------- MODULE AcpiTables -----------------------------
(***************************************************************************)
(* What the kernel reads from the firmware's tables (PrepareACPI and       *)
(* InitAPIC in utils/kernelUtil.cpp, acpi/acpi.cpp, apic/madt.cpp,         *)
(* facp/facp.cpp), from the table the boot loader of Bootloader found, and *)
(* the shutdown and the restart that use it.  Addresses name tables; an    *)
(* address that is no table cannot be read, and the fault's handler panics *)
(* as the code's own tests do.                                             *)
(***************************************************************************)
EXTENDS Bootloader, SequencesExt

CONSTANTS
  Room,           \* The sizes of the tables of MADTInformation, by type of record.
  MADTHeaderSize, \* sizeof(MADTHeader).
  SizeSpan        \* Values of a size_t (2^64).

VARIABLES
  madt,           \* The walk over the MADT: header, t and local_apic_ptr.
  s_madt_info,    \* Its tables and their counters, by type of record.
  mapped,         \* The pages mapped for it.
  facp,           \* g_FACPHeader and what InitFACP keeps.
  ports           \* History: what Shutdown or Reboot wrote, <<where, value>>s in order.

acpiVars == <<madt, s_madt_info, mapped, facp, ports>>
vars == <<loaderVars, acpiVars>>

Kinds == DOMAIN Room

\* The length of a table is a number of 32 bits, a size_t has 64.
ASSUME AcpiAssumption ==
  MADTHeaderSize \in Nat /\ SizeSpan \in Nat /\ \A k \in Kinds : Room[k] \in Nat

Table(a) == machine.tables[a]
Readable(a) == a \in DOMAIN machine.tables

-----------------------------------------------------------------------------
(* acpi/acpi.cpp.  The functions for the XSDT and the RSDT differ in the   *)
(* width of an address only.                                               *)

Valid(a) == Readable(a) /\ Table(a).sum = 0 /\ ~Table(a).short

EnumXSDT(root) == Valid(root) /\ \A a \in ToSet(Table(root).entries) : Valid(a)

\* strcmp stops at a zero, so that a blank signature is like any other.
Matches(signature, a) == Table(a).signature \in {signature, "blank"}

FindXSDTTable(root, signature) ==
  LET found == SelectSeq(Table(root).entries, LAMBDA a : Matches(signature, a))
  IN  IF found = <<>> THEN Null ELSE Head(found)

RootHeader ==
  LET r == machine.rsdps[rsdp] IN IF r.Revision >= 2 THEN r.XSDTAddress ELSE r.RSDTAddress

-----------------------------------------------------------------------------
(* PrepareACPI.  Without an MCFG the PCI scan is left out.                 *)

kernelKept == <<machine, rsdp, exited, used, content, phdr, mapVars, allocated>>

\* That the root is not null is tested after it was read.
PrepareACPI ==
  /\ At("PrepareACPI",
        IF /\ rsdp \in DOMAIN machine.rsdps
           /\ EnumXSDT(RootHeader) /\ RootHeader # Null
           /\ FindXSDTTable(RootHeader, "FACP") # Null
        THEN "InitFACP" ELSE "Panic")
  /\ UNCHANGED <<kernelKept, acpiVars>>

NoFACP == [header |-> Null, SCI_EN |-> 0, SLP_TYP |-> <<0, 0>>, PM1_CNT |-> <<0, 0>>,
           reset_flag |-> 0]

\* The search for _S5_ looks at twice as many places as the DSDT has bytes.
SearchEnds(d) == d.s5 \in 0 .. 2 * d.Length - 1 \/ 2 * d.Length <= d.reach

\* What is left of dsdtLength when it matches; at the last place nothing.
S5Found(d) == d.s5 >= 0 /\ 2 * d.Length - (d.s5 + 1) > 0

\* Where the search of InitFACP found the package, what it keeps.
Parsed(header, f, d) ==
  LET found == [NoFACP EXCEPT !.header = header, !.reset_flag = f.reset_flag]
  IN  IF d.aml
      THEN [found EXCEPT !.SCI_EN = 1, !.SLP_TYP = d.SLP_TYP, !.PM1_CNT = f.PM1_CNT]
      ELSE found

InitFACP ==
  LET header == FindXSDTTable(RootHeader, "FACP")
      f == Table(header)
      d == Table(f.DSDT)
  IN  /\ At("InitFACP",
            IF /\ Readable(f.DSDT)
               /\ d.signature = "DSDT" => SearchEnds(d)
               /\ machine.APIC /\ FindXSDTTable(RootHeader, "APIC") # Null
            THEN "MADTInit" ELSE "Panic")
      /\ facp' =
           IF ~Readable(f.DSDT) \/ d.signature # "DSDT" \/ ~SearchEnds(d) \/ ~S5Found(d)
           THEN [NoFACP EXCEPT !.header = header]
           ELSE Parsed(header, f, d)
      /\ UNCHANGED <<kernelKept, madt, s_madt_info, mapped, ports>>

-----------------------------------------------------------------------------
(* MADTInit.  The sum and the length it tests were tested before.          *)

MADTInit ==
  LET header == FindXSDTTable(RootHeader, "APIC")
  IN  /\ At("MADTInit", "MADTWalk")
      /\ madt' = [header |-> header, t |-> 0, local_apic_ptr |-> Table(header).LocalApicAddress]
      /\ mapped' = mapped \cup {header}
      /\ UNCHANGED <<kernelKept, s_madt_info, facp, ports>>

\* The length of a table that has no room for its own header wraps.
WalkLength == (Table(madt.header).Length - MADTHeaderSize) % SizeSpan

\* One record more than a table has room for lands on its counter, which then is an
\* address; the next one lands wherever that leads.
Store(kind, record) ==
  LET i == s_madt_info[kind]
  IN  /\ s_madt_info' = [s_madt_info EXCEPT ![kind] =
           [num |-> IF i.num > Room[kind] THEN i.num ELSE i.num + 1,
            records |-> IF i.num < Room[kind] THEN Append(i.records, record) ELSE i.records]]
      /\ pc' \in IF i.num <= Room[kind] THEN {"MADTWalk"} ELSE {"Panic", "Corrupted"}

\* MADTWalk that takes a step for records of known types only.
KnownRecordsOnly ==
  /\ pc = "MADTWalk" /\ madt.t < WalkLength
  /\ LET record == Table(madt.header).at[madt.t]
     IN  /\ madt.t \in DOMAIN Table(madt.header).at
         /\ IF record.type \in Kinds
            THEN /\ Store(record.type, record)
                 /\ madt' = [madt EXCEPT !.t = @ + record.length]
            ELSE UNCHANGED <<pc, s_madt_info, madt>>
  /\ UNCHANGED <<kernelKept, mapped, facp, ports>>

\* MADTWalk that keeps the address of the table's header.
OverrideIgnored ==
  /\ pc = "MADTWalk" /\ madt.t < WalkLength
  /\ LET record == Table(madt.header).at[madt.t]
     IN  /\ madt.t \in DOMAIN Table(madt.header).at
         /\ madt' = [madt EXCEPT !.t = @ + record.length]
         /\ IF record.type \in Kinds
            THEN Store(record.type, record) ELSE UNCHANGED <<pc, s_madt_info>>
         /\ mapped' = IF record.type = "ioapic" THEN mapped \cup {record.value} ELSE mapped
  /\ UNCHANGED <<kernelKept, facp, ports>>

\* The walk trusts the length of each record.
MADTWalk ==
  /\ pc = "MADTWalk" /\ madt.t < WalkLength
  /\ IF madt.t \notin DOMAIN Table(madt.header).at
     THEN pc' = "Panic" /\ UNCHANGED <<madt, s_madt_info, mapped>>
     ELSE LET record == Table(madt.header).at[madt.t]
          IN  /\ madt' = [madt EXCEPT
                   !.t = @ + record.length,
                   !.local_apic_ptr = IF record.type = "override" THEN record.value ELSE @]
              /\ mapped' = IF record.type = "ioapic" THEN mapped \cup {record.value} ELSE mapped
              /\ IF record.type \in Kinds
                 THEN Store(record.type, record) ELSE UNCHANGED <<pc, s_madt_info>>
  /\ UNCHANGED <<kernelKept, facp, ports>>

MADTEnds ==
  /\ At("MADTWalk", "Running")
  /\ madt.t >= WalkLength
  /\ mapped' = mapped \cup {madt.local_apic_ptr}
  /\ UNCHANGED <<kernelKept, madt, s_madt_info, facp, ports>>

-----------------------------------------------------------------------------
(* Shutdown and Reboot.  A machine may be off after any of the writes; one  *)
(* that runs on after the last panics.                                     *)

\* The writes for virtual machines, which always follow: old QEMU and Bochs, new
\* QEMU, VirtualBox.
Backup == <<<<45060, 8192>>, <<1540, 8192>>, <<16388, 13312>>>>

\* What puts the machine to sleep; the bit SLP_EN goes with every sleep type.
SleepWrites(PM1_CNT, SLP_TYP) ==
  <<<<PM1_CNT[1], SLP_TYP[1]>>>>
    \o IF PM1_CNT[2] # 0 THEN <<<<PM1_CNT[2], SLP_TYP[2]>>>> ELSE <<>>

ShutdownWrites ==
  (IF facp.SCI_EN = 0 THEN <<>> ELSE SleepWrites(facp.PM1_CNT, facp.SLP_TYP)) \o Backup

Shutdown ==
  /\ pc = "Running"
  /\ \E n \in 1 .. Len(ShutdownWrites) :
       /\ ports' = SubSeq(ShutdownWrites, 1, n)
       /\ pc' \in IF n = Len(ShutdownWrites) THEN {"Off", "Panic"} ELSE {"Off"}
  /\ UNCHANGED <<kernelKept, madt, s_madt_info, mapped, facp>>

Reboot ==
  /\ pc = "Running"
  /\ LET register == Table(facp.header).RESET_REG
     IN  IF facp.reset_flag = 1 /\ register.AddressSpace \in {"IO", "MMIO"}
         THEN /\ ports' = <<<<register.Address, Table(facp.header).RESET_VALUE>>>>
              /\ pc' \in {"Off", "Panic"}
         ELSE ports' = <<>> /\ pc' = "Panic"
  /\ UNCHANGED <<kernelKept, madt, s_madt_info, mapped, facp>>

Init ==
  /\ LoaderInit
  /\ madt = [header |-> Null, t |-> 0, local_apic_ptr |-> Null]
  /\ s_madt_info = [k \in Kinds |-> [num |-> 0, records |-> <<>>]]
  /\ mapped = {} /\ facp = NoFACP /\ ports = <<>>

Loader == LoaderNext /\ UNCHANGED acpiVars

Kernel == PrepareACPI \/ InitFACP \/ MADTInit \/ MADTWalk \/ MADTEnds

Next == Loader \/ Kernel \/ Shutdown \/ Reboot

\* One processor runs loader and kernel; nobody has to shut the machine down.
Spec == Init /\ [][Next]_vars /\ WF_vars(Loader) /\ WF_vars(Kernel)

-----------------------------------------------------------------------------
(* Properties.                                                             *)

\* How far the records of a MADT reach, and where in it the firmware put a record.
Extent(m) == m.Length - MADTHeaderSize
Offsets(m) == {t \in DOMAIN m.at : t \in 0 .. Extent(m) - 1}
EndOf(m, t) == t + m.at[t].length

OfType(m, kind) == {t \in Offsets(m) : m.at[t].type = kind}

\* The record that starts at t is the how manieth of its type?
Number(m, kind, t) == Cardinality({u \in OfType(m, kind) : u <= t})

\* A MADT of whole records, each right behind the one before it, no more of a type
\* than the kernel has room for.
Regular(m) ==
  /\ Extent(m) \in 0 .. SizeSpan - 1
  /\ Extent(m) = 0 \/ 0 \in Offsets(m)
  /\ \A t \in Offsets(m) :
       /\ m.at[t].length \in Nat \ {0}
       /\ EndOf(m, t) \in Offsets(m) \cup {Extent(m)}
       /\ \A u \in Offsets(m) : u < t => EndOf(m, u) <= t
  /\ \A k \in Kinds : Cardinality(OfType(m, k)) <= Room[k]

LocalAPIC(m) ==
  LET overrides == OfType(m, "override")
  IN  IF overrides = {} THEN m.LocalApicAddress ELSE m.at[Max(overrides)].value

\* The package _S5_ lies in the DSDT's own bytes.
HasPackage(d) ==
  d.signature = "DSDT" /\ d.aml /\ d.Length \in Nat /\ d.s5 \in 0 .. d.Length - 1

\* These writes, in their order, as far as it took to turn the machine off.
Told(writes) ==
  \E n \in 1 .. Len(writes) :
    ports = SubSeq(writes, 1, n) /\ (pc # "Off" => n = Len(writes))

\* Once the kernel runs, a regular MADT is known as the firmware wrote it: every
\* record of each type, in order, the last word on the local APIC's address, and
\* these registers mapped.  What shutdown and restart write are the registers of the
\* FACP the firmware listed first: its reset register; or its control registers, the
\* first before the second, each with the sleep type of its DSDT, and only then the
\* three ports of virtual machines.  These come alone only when the DSDT has no
\* package _S5_ in its own bytes; then what was found behind it may come first too.
TablesRead ==
  LET m == Table(madt.header)
      f == Table(facp.header)
      d == Table(f.DSDT)
  IN  /\ pc \in {"Running", "Off"} /\ Regular(m) =>
           /\ \A k \in Kinds :
                LET read == s_madt_info[k]
                IN  /\ read.num = Cardinality(OfType(m, k)) /\ Len(read.records) = read.num
                    /\ \A t \in OfType(m, k) : read.records[Number(m, k, t)] = m.at[t]
           /\ madt.local_apic_ptr = LocalAPIC(m)
           /\ {LocalAPIC(m)} \cup {m.at[t].value : t \in OfType(m, "ioapic")} \subseteq mapped
      /\ ports # <<>> =>
           \/ f.reset_flag = 1 /\ ports = <<<<f.RESET_REG.Address, f.RESET_VALUE>>>>
           \/ Told(SleepWrites(f.PM1_CNT, d.SLP_TYP) \o Backup)
           \/ ~HasPackage(d) /\ Told(Backup)

Ended == {"EFI_LOAD_ERROR", "EFI_COMPROMISED_DATA", "Crashed", "Running", "Off", "Panic", "Corrupted"}

\* A record of length zero that is not stored, at which the walk stays for ever.
AtEndlessRecord ==
  /\ pc = "MADTWalk" /\ madt.t \in DOMAIN Table(madt.header).at
  /\ LET record == Table(madt.header).at[madt.t]
     IN  record.length = 0 /\ record.type \notin Kinds

\* Whatever the firmware's tables hold, a boot ends: the kernel runs, has returned to
\* the firmware, or has stopped.  A record of length zero of a type the walk does not
\* store is all that can keep it from that.
BootEnds == <>(pc \in Ended) \/ <>[]AtEndlessRecord
=============================================================================
