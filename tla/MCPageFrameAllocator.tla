------------------------ MODULE MCPageFrameAllocator ------------------------
(* Small memory maps for the page frame allocator.                         *)
EXTENDS PageFrameAllocator

Descriptor(conventional, start, pages) ==
  [conventional |-> conventional, start |-> start, pages |-> pages]

\* 6 pages from 0 without a hole: index 7 of the bitmap is a tail page.
Contiguous ==
  <<Descriptor(TRUE, 0, 2), Descriptor(FALSE, 2, 1), Descriptor(TRUE, 3, 3)>>

\* 7 pages with a hole at 1 and a conventional page at the index one past the
\* bitmap's last bit: the bitmap has no tail.
Hole ==
  <<Descriptor(FALSE, 0, 1), Descriptor(TRUE, 2, 4), Descriptor(TRUE, 7, 2)>>

\* Maps ReadEFIMemoryMap rejects: empty, nothing conventional, and the largest
\* conventional segment at address 0.
Bad ==
  {<<>>, <<Descriptor(FALSE, 0, 3)>>, <<Descriptor(TRUE, 0, 3)>>}

SmallMaps == {Contiguous, Hole} \cup Bad
=============================================================================
