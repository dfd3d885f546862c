----------------------------- MODULE MCScreen ------------------------------
(* A screen of two by two characters with a column and a line left over, and  *)
(* a pointer of three pixels.  Packets move along one axis, or along both with *)
(* the same byte.                                                            *)
EXTENDS Screen

SomeGlyphs == [c \in {"a"} |-> {<<0, 0>>, <<1, 1>>}]
SmallPointer == {<<0, 0>>, <<1, 0>>, <<0, 1>>}

Still == [x |-> 0, y |-> 0, xNegative |-> FALSE, yNegative |-> FALSE,
          xOverflow |-> FALSE, yOverflow |-> FALSE]

SomePackets ==
  {[Still EXCEPT !.x = b, !.xNegative = n] : b \in {1, 6}, n \in BOOLEAN}
  \cup {[Still EXCEPT !.y = b, !.yNegative = n] : b \in {1, 6}, n \in BOOLEAN}
  \cup {[Still EXCEPT !.x = b, !.y = b, !.xNegative = TRUE, !.yNegative = n] :
          b \in {0, 7}, n \in BOOLEAN}
  \cup {[Still EXCEPT !.x = 1, !.xOverflow = TRUE, !.xNegative = n, !.yOverflow = n] :
          n \in BOOLEAN}
=============================================================================
