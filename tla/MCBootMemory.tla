---------------------------- MODULE MCBootMemory ----------------------------
(* Tables of four entries, 256 virtual pages.  Memory maps from two to seven  *)
(* times the size of a table: a reserved first part, the kernel, conventional *)
(* memory in one or two parts around a reserved one, a hole or none.         *)
EXTENDS BootMemory

Desc(conventional, start, pages) ==
  [conventional |-> conventional, start |-> start, pages |-> pages]

\* The first MiB ends at first + 2; the second part begins behind gap and hole.
Layout(first, kernel, part1, gap, hole, part2) ==
  <<Desc(TRUE, first, 2), Desc(FALSE, first + 2, kernel),
    Desc(TRUE, first + 2 + kernel, part1),
    Desc(FALSE, first + 2 + kernel + part1, gap),
    Desc(TRUE, first + 2 + kernel + part1 + gap + hole, part2)>>

\* The framebuffer is in the reserved part (when there is one) or far away.
SomeMachines ==
  {[mMap |-> Layout(l[1], 2, l[2], l[3], l[4], l[5]),
    kernel |-> [first |-> l[1] + 2, pages |-> l[6]],
    framebuffer |-> [first |-> IF l[3] > 1 THEN l[1] + 4 + l[2] ELSE l[7],
                     pages |-> 2]] :
     l \in {0, 1} \X {3, 9} \X {0, 3} \X {0, 2} \X {0, 4, 7, 12, 13} \X {1, 2} \X {60, 101}}
  \cup {[mMap |-> <<Desc(FALSE, 0, 9)>>, kernel |-> [first |-> 2, pages |-> 2],
          framebuffer |-> [first |-> 60, pages |-> 2]]}
=============================================================================
