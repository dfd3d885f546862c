----------------------------- MODULE HeapBlocks -----------------------------
(***************************************************************************)
(* What the kernel heap promises to its users: blocks of memory that never *)
(* overlap, that stay where they are and keep their size until they are    *)
(* released, and that are released one at a time by their address.         *)
(***************************************************************************)
EXTENDS Naturals

VARIABLE blocks       \* The blocks in use: their first unit -> their length.

Units(a, n) == a .. a + n - 1

Disjoint(a, n) ==
  \A b \in DOMAIN blocks : Units(a, n) \cap Units(b, blocks[b]) = {}

BlocksInit == blocks = [a \in {} |-> 0]

Acquire ==
  \E a \in DOMAIN blocks' \ DOMAIN blocks :
    /\ blocks'[a] \in Nat \ {0}
    /\ Disjoint(a, blocks'[a])
    /\ blocks' = [b \in DOMAIN blocks \cup {a} |->
                    IF b = a THEN blocks'[a] ELSE blocks[b]]

ReleaseBlock ==
  \E a \in DOMAIN blocks :
    blocks' = [b \in DOMAIN blocks \ {a} |-> blocks[b]]

BlocksNext == Acquire \/ ReleaseBlock

BlocksSpec == BlocksInit /\ [][BlocksNext]_blocks
=============================================================================
