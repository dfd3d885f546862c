---------------------------- MODULE MCFirmware -----------------------------
(* Seven frames, and tables of which one thing at a time is unlike usual.    *)
EXTENDS AcpiTables

SomeRoom == [processor |-> 2, ioapic |-> 1, iso |-> 1, nmi |-> 1]

-----------------------------------------------------------------------------
(* Tables, by their addresses.                                             *)

NoRecords == [t \in {} |-> 0]

Plain ==
  [signature |-> "other", sum |-> 0, short |-> FALSE, entries |-> <<>>,
   DSDT |-> 0, reset_flag |-> 1, PM1_CNT |-> <<0, 0>>, RESET_VALUE |-> 6,
   RESET_REG |-> [AddressSpace |-> "IO", Address |-> 101],
   s5 |-> -1, aml |-> TRUE, SLP_TYP |-> <<0, 0>>, reach |-> 5,
   Length |-> 3, LocalApicAddress |-> 0, at |-> NoRecords]

Root == [Plain EXCEPT !.signature = "XSDT", !.entries = <<22, 21, 23>>]
FACP == [Plain EXCEPT !.signature = "FACP", !.DSDT = 24, !.PM1_CNT = <<102, 103>>]
DSDT == [Plain EXCEPT !.signature = "DSDT", !.s5 = 1, !.SLP_TYP = <<5, 7>>]

\* A MADT of records <<type, length, value>>, one after the other from offset 0 on.
Madt(rs) ==
  LET start[i \in 1 .. Len(rs) + 1] == IF i = 1 THEN 0 ELSE start[i - 1] + rs[i - 1][2]
      starts == {start[i] : i \in 1 .. Len(rs)}
      record(t) == rs[CHOOSE i \in 1 .. Len(rs) : start[i] = t]
  IN  [Plain EXCEPT
         !.signature = "APIC", !.LocalApicAddress = 40, !.Length = 2 + start[Len(rs) + 1],
         !.at = [t \in starts |-> [type |-> record(t)[1], length |-> record(t)[2],
                                   value |-> record(t)[3]]]]

Usual ==
  <<<<"processor", 1, 1>>, <<"ioapic", 2, 41>>, <<"unknown", 1, 0>>, <<"processor", 1, 2>>,
    <<"iso", 1, 3>>, <<"nmi", 1, 4>>>>

Tables(root, facpTable, dsdt, madtTable) ==
  20 :> root @@ 21 :> madtTable @@ 22 :> facpTable @@ 23 :> Plain @@ 24 :> dsdt

UsualTables == Tables(Root, FACP, DSDT, Madt(Usual))

Acpi(tables) ==
  [tables |-> tables, APIC |-> TRUE,
   rsdps |-> 10 :> [Revision |-> 2, XSDTAddress |-> 20, RSDTAddress |-> 25]]

WithMadt(m) == Acpi(Tables(Root, FACP, DSDT, m))
WithDsdt(d) == Acpi(Tables(Root, FACP, d, Madt(Usual)))
WithFacp(f) == Acpi(Tables(Root, f, DSDT, Madt(Usual)))
WithRoot(r) == Acpi(Tables(r, FACP, DSDT, Madt(Usual)))

\* The MADT: full tables and one or two records more, overrides, lengths of zero, no
\* records, no room for its header, a last record that is cut off.
Madts ==
  {Madt(Append(Usual, <<k, 1, 42>>)) : k \in {"override", "nmi", "processor"}}
  \cup {Madt(Usual \o <<<<k, 1, 6>>, <<k, 1, 7>>>>) : k \in {"override", "nmi"}}
  \cup {Madt(<<<<k, 0, 5>>>> \o Usual) : k \in {"unknown", "override", "iso"}}
  \cup {Madt(<<>>), [Madt(<<>>) EXCEPT !.Length = 1], [Madt(Usual) EXCEPT !.LocalApicAddress = 0],
        [Madt(Usual) EXCEPT !.Length = @ - 1],
        [Madt(<<<<"ioapic", 2, 41>>>>) EXCEPT !.Length = @ - 1]}

Dsdts ==
  {[DSDT EXCEPT !.s5 = p, !.reach = r] : p \in {-1, 4, 5}, r \in {5, 6}}
  \cup {[DSDT EXCEPT !.aml = FALSE], [DSDT EXCEPT !.signature = "other"]}

Facps ==
  {[FACP EXCEPT !.PM1_CNT = <<102, 0>>, !.RESET_REG.AddressSpace = s] : s \in {"MMIO", "PCI"}}
  \cup {[FACP EXCEPT !.reset_flag = 0], [FACP EXCEPT !.DSDT = 26]}

Roots ==
  {[Root EXCEPT !.entries = e] :
     e \in {<<>>, <<21>>, <<22>>, <<23, 22, 21>>, <<22, 27>>, <<28, 22, 21>>}}
  \cup {[Root EXCEPT !.sum = 1], [Root EXCEPT !.short = TRUE]}

Zeros == [Plain EXCEPT !.signature = "blank", !.short = TRUE]
BlankTable == [Madt(Usual) EXCEPT !.signature = "blank", !.DSDT = 24]

Acpis ==
  {WithMadt(m) : m \in Madts} \cup {WithDsdt(d) : d \in Dsdts} \cup {WithFacp(f) : f \in Facps}
  \cup {[WithRoot(r) EXCEPT !.tables = 28 :> BlankTable @@ @] : r \in Roots}
  \cup {[Acpi(UsualTables) EXCEPT !.APIC = FALSE]}
  \cup {[Acpi(0 :> z @@ 25 :> [Root EXCEPT !.entries = <<21, 22>>] @@ UsualTables) EXCEPT
           !.rsdps = 10 :> [Revision |-> v, XSDTAddress |-> x, RSDTAddress |-> 25]] :
          v \in {0, 2}, x \in {0, 20}, z \in {Zeros, Root}}

-----------------------------------------------------------------------------
(* What the loader meets.                                                  *)

Segment(first, memPages, filePages) ==
  [first |-> first, memPages |-> memPages, filePages |-> filePages, aligned |-> TRUE]

File(segments) == [found |-> TRUE, valid |-> TRUE, segments |-> segments]

UsualFile == File(<<Segment(1, 2, 1), Segment(4, 1, 1)>>)

Entry(guid, table) == [guid |-> guid, table |-> table]

Boot ==
  [kernel |-> UsualFile, font |-> "psf1", gop |-> TRUE, used |-> {7}, startsR |-> {10, 11},
   config |-> <<Entry("ACPI 2.0", 10)>>, NumberOfTableEntries |-> 1]

\* The configuration table, and what lies in memory behind it.
Configs ==
  LET o == Entry("other", 12)
      a == Entry("ACPI 2.0", 10)
      b == Entry("ACPI 1.0", 11)
  IN  {<<o, a, o>>, <<b, o, a>>, <<o, b, a>>, <<a, o, a>>, <<b, a, b>>}

Boots ==
  {[Boot EXCEPT !.kernel = k] :
     k \in {[UsualFile EXCEPT !.found = FALSE], [UsualFile EXCEPT !.valid = FALSE],
            File(<<>>), File(<<Segment(1, 2, 2), [Segment(4, 1, 1) EXCEPT !.aligned = FALSE]>>),
            File(<<Segment(1, 2, 2), Segment(6, 2, 1)>>)}}
  \cup {[Boot EXCEPT !.font = f] : f \in {"missing", "other"}}
  \cup {[Boot EXCEPT !.gop = FALSE]}
  \cup {[Boot EXCEPT !.used = u] : u \in {{}, {3, 6}, {5, 7}, {3, 5, 6}}}
  \cup {[Boot EXCEPT !.config = c, !.NumberOfTableEntries = 2] : c \in Configs}

SomeMachines ==
  {b @@ Acpi(UsualTables) : b \in Boots \cup {Boot}} \cup {Boot @@ a : a \in Acpis}
=============================================================================
