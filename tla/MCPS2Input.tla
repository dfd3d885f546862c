----------------------------- MODULE MCPS2Input -----------------------------
(* A shift key and Escape, pressed and released, and a mouse that moves.   *)
EXTENDS PS2Input

SomeKeys == {"LeftShift", "Escape"}
=============================================================================
