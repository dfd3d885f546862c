-------------------------------- MODULE Heap --------------------------------
(***************************************************************************)
(* The kernel heap (memory_management/heap.cpp): a doubly linked list of   *)
(* segments, each with a header in front, searched first-fit.  Addresses   *)
(* and lengths are counted in units of 16 bytes, the granularity malloc    *)
(* rounds requests to, from heapStart = 0.  A page comes from the page     *)
(* frame allocator, which other parts of the kernel use as well: it may    *)
(* refuse any request.                                                     *)
(***************************************************************************)
EXTENDS Integers, FiniteSets

CONSTANTS
  NULL,          \* The null pointer.
  PageUnits,     \* Units in a page (256 in the kernel).
  StartPages,    \* Pages CreateHeap is called with (16 in the kernel).
  SizeSpan,      \* Units a 64-bit size counts before it wraps (2^60).
  MaxPages,      \* Bound of the model: pages the allocator gives the heap.
  Sizes          \* Bound of the model: the sizes requested, in units.

Hdr == 2         \* sizeof(HeapSegHdr): 32 bytes.

ASSUME HeapAssumption ==
  /\ NULL \notin Int
  /\ PageUnits \in Nat /\ PageUnits > 2 * Hdr
  /\ StartPages \in Nat \ {0} /\ MaxPages \in Nat /\ StartPages <= MaxPages
  /\ Sizes \subseteq Nat \ {0}
  /\ SizeSpan \in Nat /\ SizeSpan > MaxPages * PageUnits

VARIABLES
  heap,          \* The segments' headers and the allocator's globals.
  pc,            \* What the kernel is doing in the heap.
  call,          \* The request being served: [op, size].
  currentSeg,    \* malloc's search pointer.
  expansion,     \* ExpandHeap's newSegment and the pages it still has to map.
  live,          \* History: blocks handed out and not freed -> size requested.
  lost,          \* History: units mapped by expansions that failed half-way.
  expansions     \* History: expansions the request in progress has caused.

vars == <<heap, pc, call, currentSeg, expansion, live, lost, expansions>>

-----------------------------------------------------------------------------
(* The segment list.  "nullLast" is the last field of a header at address  *)
(* NULL, which is real (identity mapped) memory.                           *)

NoHeap == [seg |-> [s \in {} |-> 0], LastHdr |-> NULL, heapEnd |-> 0,
           usedPages |-> 0, nullLast |-> NULL]

Header(length, next, last, free) ==
  [length |-> length, next |-> next, last |-> last, free |-> free]

SegEnd(h, s) == s + Hdr + h.seg[s].length

\* Sets the last field of a header that may be NULL.
SetLast(h, s, last) ==
  IF s = NULL THEN [h EXCEPT !.nullLast = last]
              ELSE [h EXCEPT !.seg[s].last = last]

AddHeader(h, s, header) ==
  [h EXCEPT !.seg = [t \in DOMAIN h.seg \cup {s} |->
                       IF t = s THEN header ELSE h.seg[t]]]

DropHeader(h, s) ==
  [h EXCEPT !.seg = [t \in DOMAIN h.seg \ {s} |-> h.seg[t]]]

\* Split with its last assignment, "length = splitLength", forgotten.
SplitKeepsLength(h, s, n) ==
  LET this == h.seg[s]
      rest == this.length - n - Hdr
      new  == s + n + Hdr
      linked == SetLast(h, this.next, new)
      cut    == [linked EXCEPT !.seg[s].next = new,
                               !.LastHdr = IF @ = s THEN new ELSE @]
  IN  IF n < 1 \/ rest < 1 THEN h
      ELSE AddHeader(cut, new, Header(rest, this.next, s, this.free))

\* Split with "next = newSplitHdr" before "newSplitHdr->next = next".
SplitSwapped(h, s, n) ==
  LET this == h.seg[s]
      rest == this.length - n - Hdr
      new  == s + n + Hdr
      linked == SetLast(h, this.next, new)
      cut    == [linked EXCEPT !.seg[s].next = new, !.seg[s].length = n,
                               !.LastHdr = IF @ = s THEN new ELSE @]
  IN  IF n < 1 \/ rest < 1 THEN h
      ELSE AddHeader(cut, new, Header(rest, new, s, this.free))

\* Cuts segment s after n units, unless nothing would be left of it.
Split(h, s, n) ==
  LET this == h.seg[s]
      rest == this.length - n - Hdr
      new  == s + n + Hdr
      linked == SetLast(h, this.next, new)
      cut    == [linked EXCEPT !.seg[s].next = new, !.seg[s].length = n,
                               !.LastHdr = IF @ = s THEN new ELSE @]
  IN  IF n < 1 \/ rest < 1 THEN h
      ELSE AddHeader(cut, new, Header(rest, this.next, s, this.free))

\* CombineForward without its test of next->free.
CombineBusy(h, s) ==
  LET next   == h.seg[s].next
      after  == h.seg[next].next
      linked == IF after = NULL THEN h ELSE SetLast(h, after, s)
      merged == [linked EXCEPT
                   !.LastHdr = IF @ = next THEN s ELSE @,
                   !.seg[s].length = @ + h.seg[next].length + Hdr,
                   !.seg[s].next = after]
  IN  IF next = NULL THEN h ELSE DropHeader(merged, next)

\* Swallows the next segment if it is free.
CombineForward(h, s) ==
  LET next   == h.seg[s].next
      after  == h.seg[next].next
      linked == IF after = NULL THEN h ELSE SetLast(h, after, s)
      merged == [linked EXCEPT
                   !.LastHdr = IF @ = next THEN s ELSE @,
                   !.seg[s].length = @ + h.seg[next].length + Hdr,
                   !.seg[s].next = after]
  IN  IF next = NULL THEN h
      ELSE IF h.seg[next].free THEN DropHeader(merged, next) ELSE h

CombineBackward(h, s) ==
  LET last == h.seg[s].last IN
  IF last = NULL THEN h
  ELSE IF h.seg[last].free THEN CombineForward(h, last) ELSE h

Freed(h, s) ==
  LET forward == CombineForward([h EXCEPT !.seg[s].free = TRUE], s)
  IN  CombineBackward(forward, s)

\* malloc subtracts the header once more, in unsigned arithmetic.
CurSize(h, s) == (h.seg[s].length - Hdr) % SizeSpan

Taken(h, s, n) ==
  LET cut == IF CurSize(h, s) > n THEN Split(h, s, n) ELSE h
  IN  [cut EXCEPT !.seg[s].free = FALSE]

\* ExpandHeap without CombineBackward.
AppendedApart(h, s, pages) ==
  LET linked == [h EXCEPT !.seg[h.LastHdr].next = s, !.LastHdr = s]
  IN  AddHeader(linked, s, Header(pages * PageUnits - Hdr, NULL, h.LastHdr, TRUE))

\* The new pages become one free segment behind the last one.
Appended(h, s, pages) ==
  LET linked == [h EXCEPT !.seg[h.LastHdr].next = s, !.LastHdr = s]
  IN  CombineBackward(
        AddHeader(linked, s, Header(pages * PageUnits - Hdr, NULL, h.LastHdr, TRUE)), s)

-----------------------------------------------------------------------------
(* The operations.                                                         *)

PagesFor(n) == (n + PageUnits - 1) \div PageUnits

NoCall == [op |-> "none", size |-> 0]
NoExpansion == [newSegment |-> NULL, todo |-> 0]

\* The first pages, or a panic when the allocator runs out of them.
CreateHeap ==
  /\ pc = "boot"
  /\ \/ /\ pc' = "panic"
        /\ UNCHANGED heap
     \/ /\ pc' = "idle"
        /\ heap' = [NoHeap EXCEPT
             !.seg = [s \in {0} |->
                        Header(StartPages * PageUnits - Hdr, NULL, NULL, TRUE)],
             !.LastHdr = 0,
             !.heapEnd = StartPages * PageUnits,
             !.usedPages = StartPages]
  /\ UNCHANGED <<call, currentSeg, expansion, live, lost, expansions>>

Request(op, n) ==
  /\ pc = "idle"
  /\ pc' = "search"
  /\ call' = [op |-> op, size |-> n]
  /\ UNCHANGED <<heap, currentSeg, expansion, live, lost, expansions>>

Fits(s) == heap.seg[s].free /\ CurSize(heap, s) >= call.size

\* calloc clears the size it asked for: into the next header or past the end
\* of the heap if the block is shorter, and the model stops there.
TakeSegment ==
  /\ pc = "search" /\ Fits(currentSeg)
  /\ heap' = Taken(heap, currentSeg, call.size)
  /\ live' = [b \in DOMAIN live \cup {currentSeg} |->
                IF b = currentSeg THEN call.size ELSE live[b]]
  /\ pc' = IF call.op = "calloc" /\ heap'.seg[currentSeg].length < call.size
           THEN "smashed" ELSE "idle"
  /\ call' = NoCall /\ currentSeg' = 0 /\ expansions' = 0
  /\ UNCHANGED <<expansion, lost>>

NextSegment ==
  /\ pc = "search" /\ ~Fits(currentSeg)
  /\ heap.seg[currentSeg].next # NULL
  /\ currentSeg' = heap.seg[currentSeg].next
  /\ UNCHANGED <<heap, pc, call, expansion, live, lost, expansions>>

StartExpansion ==
  /\ pc = "search" /\ ~Fits(currentSeg)
  /\ heap.seg[currentSeg].next = NULL
  /\ pc' = "expand"
  /\ expansion' = [newSegment |-> heap.heapEnd, todo |-> PagesFor(call.size)]
  /\ expansions' = expansions + 1
  /\ UNCHANGED <<heap, call, currentSeg, live, lost>>

MapPage ==
  /\ pc = "expand" /\ expansion.todo > 0 /\ heap.usedPages < MaxPages
  /\ heap' = [heap EXCEPT !.heapEnd = @ + PageUnits, !.usedPages = @ + 1]
  /\ expansion' = [expansion EXCEPT !.todo = @ - 1]
  /\ UNCHANGED <<pc, call, currentSeg, live, lost, expansions>>

\* malloc starting over although ExpandHeap returned false.
FailureIgnored ==
  /\ pc = "expand" /\ expansion.todo > 0
  /\ pc' = "search"
  /\ lost' = lost + (heap.heapEnd - expansion.newSegment)
  /\ expansion' = NoExpansion
  /\ currentSeg' = 0 /\ expansions' = 0
  /\ UNCHANGED <<heap, call, live>>

\* No page left: malloc returns NULL and what was mapped so far stays mapped.
ExpansionFails ==
  /\ pc = "expand" /\ expansion.todo > 0
  /\ pc' = "idle"
  /\ lost' = lost + (heap.heapEnd - expansion.newSegment)
  /\ call' = NoCall /\ expansion' = NoExpansion
  /\ currentSeg' = 0 /\ expansions' = 0
  /\ UNCHANGED <<heap, live>>

\* The new segment is linked in and malloc starts over.
FinishExpansion ==
  /\ pc = "expand" /\ expansion.todo = 0
  /\ heap' = Appended(heap, expansion.newSegment, PagesFor(call.size))
  /\ pc' = "search" /\ currentSeg' = 0
  /\ expansion' = NoExpansion
  /\ UNCHANGED <<call, live, lost, expansions>>

Free(b) ==
  /\ pc = "idle" /\ b \in DOMAIN live
  /\ heap' = Freed(heap, b)
  /\ live' = [c \in DOMAIN live \ {b} |-> live[c]]
  /\ UNCHANGED <<pc, call, currentSeg, expansion, lost, expansions>>

HeapStep ==
  \/ CreateHeap
  \/ TakeSegment \/ NextSegment
  \/ StartExpansion \/ MapPage \/ ExpansionFails \/ FinishExpansion

Init ==
  /\ heap = NoHeap
  /\ pc = "boot" /\ call = NoCall
  /\ currentSeg = 0 /\ expansion = NoExpansion
  /\ live = [b \in {} |-> 0] /\ lost = 0 /\ expansions = 0

Next ==
  \/ HeapStep
  \/ \E op \in {"malloc", "calloc"}, n \in Sizes : Request(op, n)
  \/ \E b \in DOMAIN live : Free(b)

\* The kernel runs on one processor and the heap is never called from an
\* interrupt handler: once entered, a function of the heap runs on.
Spec == Init /\ [][Next]_vars /\ WF_vars(HeapStep)

-----------------------------------------------------------------------------
(* Properties.                                                             *)

Segments == DOMAIN heap.seg

HeaderType ==
  [length : Nat, next : Nat \cup {NULL}, last : Nat \cup {NULL}, free : BOOLEAN]

\* Every variable stays in its type; a segment is never empty.
TypeOK ==
  /\ DOMAIN heap = DOMAIN NoHeap
  /\ Segments \subseteq Nat
  /\ \A s \in Segments : heap.seg[s] \in HeaderType /\ heap.seg[s].length >= 1
  /\ {heap.LastHdr, heap.nullLast} \subseteq Nat \cup {NULL}
  /\ heap.heapEnd \in Nat /\ heap.usedPages \in Nat
  /\ pc \in {"boot", "panic", "idle", "search", "expand", "smashed"}
  /\ call \in {NoCall} \cup [op : {"malloc", "calloc"}, size : Sizes]
  /\ currentSeg \in Nat
  /\ expansion \in [newSegment : Nat \cup {NULL}, todo : Nat]
  /\ DOMAIN live \subseteq Segments /\ \A b \in DOMAIN live : live[b] \in Sizes
  /\ lost \in Nat /\ expansions \in Nat

\* Through splits, both combinations and expansions (failed ones included) the
\* headers are one list from heapStart to LastHdr, in address order, doubly
\* linked, and no segment reaches into the next one or past heapEnd.
ChainIntact ==
  pc \notin {"boot", "panic"} =>
    /\ heap.LastHdr \in Segments /\ SegEnd(heap, heap.LastHdr) <= heap.heapEnd
    /\ 0 \in Segments /\ heap.seg[0].last = NULL
    /\ heap.seg[heap.LastHdr].next = NULL
    /\ \A s \in Segments \ {heap.LastHdr} :
         LET next == heap.seg[s].next IN
         /\ next \in Segments /\ heap.seg[next].last = s
         /\ SegEnd(heap, s) <= next

\* free and ExpandHeap leave no two neighbours free, although each of them
\* looks only one segment ahead and one behind.
Coalesced ==
  \A s \in Segments :
    heap.seg[s].free /\ heap.seg[s].next # NULL => ~heap.seg[heap.seg[s].next].free

\* The units of the segments with their headers, each by its segment and its place
\* there: as many as the lengths add up to.
SegmentUnits(seg) == UNION {{s} \X (1 .. Hdr + seg[s].length) : s \in DOMAIN seg}

\* Nothing is counted twice and nothing disappears: the segments with their
\* headers and the pages of half-done expansions are exactly the heap, and
\* usedPages, which the statistics screen shows, is its size.
HeapAccounted ==
  LET growing == IF pc = "expand" THEN heap.heapEnd - expansion.newSegment ELSE 0
  IN  /\ Cardinality(SegmentUnits(heap.seg)) + lost + growing = heap.heapEnd
      /\ heap.heapEnd = heap.usedPages * PageUnits

\* The segments in use are the blocks handed out and not freed; a block is at
\* most a header longer than what was asked for, and shorter only if it is a
\* segment shorter than a header, on which malloc's subtraction wraps.
BlocksMatchSegments ==
  /\ {s \in Segments : ~heap.seg[s].free} = DOMAIN live
  /\ \A b \in DOMAIN live :
       /\ heap.seg[b].length <= live[b] + Hdr
       /\ heap.seg[b].length >= live[b] \/ heap.seg[b].length < Hdr

\* malloc calls itself after each expansion.  One expansion may not be enough
\* (its first page also holds the header), two always are.
AtMostTwoExpansions == expansions <= 2

\* Blocks never overlap, never move and are not resized while somebody holds
\* them, whatever is split and merged around them.
Blocks == INSTANCE HeapBlocks WITH
  blocks <- [b \in {c + Hdr : c \in DOMAIN live} |-> heap.seg[b - Hdr].length]

ImplementsBlocks == Blocks!BlocksSpec

\* Every call of malloc or calloc returns: the list it walks ends, and so does
\* the recursion through ExpandHeap.
MallocReturns == pc \in {"search", "expand"} ~> pc \in {"idle", "smashed"}

\* A block is as large as the request it answers, which calloc relies on when
\* it clears "size" bytes of it.
BlocksHoldRequest == \A b \in DOMAIN live : heap.seg[b].length >= live[b]

\* Split sets the last field of "the next segment", a segment of the heap.
SplitStaysInHeap == heap.nullLast = NULL
=============================================================================
