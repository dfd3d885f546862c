---------------------------- MODULE MCPageTable ----------------------------
(* Tables of two entries: 16 virtual pages.                                *)
EXTENDS PageTable

\* Pages 0 and 1 share all tables, page 2 all but the last, page 8 only the
\* root: seven tables in all, for six frames.
SmallFrames == 2 .. 7
SmallVirtual == {0, 1, 2, 8}

\* Pages 0 to 2 are identity mapped like all memory is: page 0, where tables
\* end up that found no frame, the root table and a frame of the pool.
SmallPhysical == {0, 1, 2}
=============================================================================
