------------------------------ MODULE PagePool ------------------------------
(***************************************************************************)
(* What the page frame allocator promises to the rest of the kernel: a     *)
(* pool of page frames out of which a request takes the LOWEST free frame, *)
(* and which refuses a request only when no frame is left.  A frame that   *)
(* was handed out belongs to whoever asked for it until it is released.    *)
(***************************************************************************)
EXTENDS Naturals

CONSTANT Pages        \* The frames the pool may come to own, as page numbers.

VARIABLES
  free,               \* Frames a request may be answered with.
  held,               \* Frames handed out and not released since.
  answer              \* The answer to the last request, 0 for a refusal.

poolVars == <<free, held, answer>>

Lowest(S) == CHOOSE p \in S : \A q \in S : p <= q

PoolInit ==
  /\ free = {} /\ held = {} /\ answer = 0

\* The memory map is read: the pool gets the frames it will serve.
Open ==
  /\ free' \subseteq Pages
  /\ held = {} /\ UNCHANGED <<held, answer>>

Grant ==
  /\ free # {}
  /\ answer' = Lowest(free)
  /\ free' = free \ {answer'}
  /\ held' = held \cup {answer'}

Refuse ==
  /\ free = {}
  /\ answer' = 0
  /\ UNCHANGED <<free, held>>

\* Some of the frames handed out come back.
Release ==
  /\ held' \subseteq held
  /\ free' = free \cup (held \ held')
  /\ UNCHANGED answer

\* Frames leave the pool (locked or reserved) without becoming anyone's.
Withdraw ==
  /\ free' \subseteq free
  /\ UNCHANGED <<held, answer>>

\* Frames nobody holds enter the pool.
Deposit ==
  /\ free \subseteq free' /\ free' \subseteq Pages
  /\ free' \cap held = {}
  /\ UNCHANGED <<held, answer>>

PoolNext == Open \/ Grant \/ Refuse \/ Release \/ Withdraw \/ Deposit

PoolSpec == PoolInit /\ [][PoolNext]_poolVars
=============================================================================
