------------------------------- MODULE MCHeap -------------------------------
(* A small machine for the heap: pages of 6 units (96 bytes).              *)
EXTENDS Heap

\* The smallest request, one a page cannot hold together with its header and
\* the spare header, and one that needs two pages.
SmallSizes == {1, 4, 7}
=============================================================================
