---------------------------- MODULE AddressSpace ----------------------------
(***************************************************************************)
(* What the page table manager promises: a partial map from virtual to     *)
(* physical pages, of which each call changes the one page it names (two   *)
(* for a remapping).  The promise lasts as long as the machine has frames  *)
(* for the tables: "intact" tells.                                         *)
(***************************************************************************)
EXTENDS Naturals

CONSTANTS VirtualPages, PhysicalPages

VARIABLES
  mapping,            \* What the processor translates, virtual -> physical.
  intact

spaceVars == <<mapping, intact>>

With(m, v, p) == [x \in DOMAIN m \cup {v} |-> IF x = v THEN p ELSE m[x]]
Without(m, v) == [x \in DOMAIN m \ {v} |-> m[x]]

SpaceInit == mapping = [v \in {} |-> 0] /\ intact = TRUE

MapPage ==
  \E v \in VirtualPages \cap DOMAIN mapping' :
    /\ mapping'[v] \in PhysicalPages
    /\ mapping' = With(mapping, v, mapping'[v])

UnmapPage == \E v \in DOMAIN mapping : mapping' = Without(mapping, v)

\* The page moves, and replaces what was mapped at its new place.
RemapPage ==
  \E v \in DOMAIN mapping, w \in VirtualPages \cap DOMAIN mapping' :
    mapping' = With(Without(mapping, v), w, mapping[v])

SpaceNext ==
  \/ intact /\ intact' /\ (MapPage \/ UnmapPage \/ RemapPage)
  \/ ~intact'

SpaceSpec == SpaceInit /\ [][SpaceNext]_spaceVars
=============================================================================
