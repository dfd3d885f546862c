----------------------------- MODULE Heap_proofs -----------------------------
(* The heap's list of segments survives every sequence of calls, for every *)
(* size of page, number of pages and set of sizes.                         *)
EXTENDS Heap, TLAPS, FiniteSetTheorems

-----------------------------------------------------------------------------
(* A list of headers in the order of their addresses, linked both ways,    *)
(* from 0 to the header L.                                                 *)

IsHeap(h) ==
  /\ h = [seg |-> h.seg, LastHdr |-> h.LastHdr, heapEnd |-> h.heapEnd,
          usedPages |-> h.usedPages, nullLast |-> h.nullLast]
  /\ h.nullLast \in Nat \cup {NULL}

Header4(r) == r = [length |-> r.length, next |-> r.next, last |-> r.last, free |-> r.free]

Typed(seg) ==
  /\ seg = [s \in DOMAIN seg |-> seg[s]]
  /\ DOMAIN seg \subseteq Nat
  /\ \A s \in DOMAIN seg :
       Header4(seg[s]) /\ seg[s].length \in Nat \ {0} /\ seg[s].free \in BOOLEAN

\* The header behind s is the next one, and its last field says so.
Forward(seg, L) ==
  \A s \in DOMAIN seg :
    IF s = L THEN seg[s].next = NULL
    ELSE /\ seg[s].next \in DOMAIN seg /\ seg[seg[s].next].last = s
         /\ s + Hdr + seg[s].length <= seg[s].next

Backward(seg) ==
  \A s \in DOMAIN seg :
    IF s = 0 THEN seg[s].last = NULL
    ELSE seg[s].last \in DOMAIN seg /\ seg[seg[s].last].next = s

Ordered(seg, L) ==
  \A s, t \in DOMAIN seg : s < t => s # L /\ seg[s].next <= t

Chain(seg, L) ==
  /\ Typed(seg) /\ 0 \in DOMAIN seg /\ L \in DOMAIN seg
  /\ Forward(seg, L) /\ Backward(seg) /\ Ordered(seg, L)

NoFreeNeighbours(seg) ==
  \A s \in DOMAIN seg : seg[s].free /\ seg[s].next # NULL => ~seg[seg[s].next].free

-----------------------------------------------------------------------------
(* What the operators on the list do.                                      *)

LEMMA Fields ==
  ASSUME NEW h, IsHeap(h), NEW x
  PROVE  /\ [h EXCEPT !.seg = x] = [seg |-> x, LastHdr |-> h.LastHdr, heapEnd |-> h.heapEnd,
                                    usedPages |-> h.usedPages, nullLast |-> h.nullLast]
         /\ [h EXCEPT !.LastHdr = x] = [seg |-> h.seg, LastHdr |-> x, heapEnd |-> h.heapEnd,
                                        usedPages |-> h.usedPages, nullLast |-> h.nullLast]
         /\ [h EXCEPT !.nullLast = x] = [seg |-> h.seg, LastHdr |-> h.LastHdr,
              heapEnd |-> h.heapEnd, usedPages |-> h.usedPages, nullLast |-> x]
  BY DEF IsHeap

LEMMA HeaderFields ==
  ASSUME NEW r, Header4(r), NEW x
  PROVE  /\ [r EXCEPT !.length = x] = Header(x, r.next, r.last, r.free)
         /\ [r EXCEPT !.next = x] = Header(r.length, x, r.last, r.free)
         /\ [r EXCEPT !.last = x] = Header(r.length, r.next, x, r.free)
         /\ [r EXCEPT !.free = x] = Header(r.length, r.next, r.last, x)
  BY DEF Header4, Header

LEMMA InChain ==
  ASSUME NEW seg, NEW L, Chain(seg, L), NEW s \in DOMAIN seg
  PROVE  /\ s \in Nat /\ seg[s].length \in Nat \ {0} /\ seg[s].free \in BOOLEAN
         /\ Header4(seg[s])
         /\ NULL \notin DOMAIN seg
         /\ seg[s].next # NULL <=> s # L
         /\ s # L => seg[s].next \in DOMAIN seg /\ s < seg[s].next /\ seg[seg[s].next].last = s
                     /\ s + Hdr + seg[s].length <= seg[s].next
         /\ seg[s].last # NULL <=> s # 0
         /\ s # 0 => seg[s].last \in DOMAIN seg /\ seg[seg[s].last].next = s
                     /\ seg[s].last < s
         /\ \A t \in DOMAIN seg :
              s < t => s # L /\ seg[s].next <= t /\ s + Hdr + seg[s].length <= t
  <1>1. NULL \notin DOMAIN seg
    BY HeapAssumption DEF Chain, Typed
  <1>2. /\ s \in Nat /\ seg[s].length \in Nat \ {0} /\ seg[s].free \in BOOLEAN
        /\ Header4(seg[s])
    BY DEF Chain, Typed
  <1>3. /\ seg[s].next # NULL <=> s # L
        /\ s # L => seg[s].next \in DOMAIN seg /\ seg[s].next \in Nat
                     /\ s + Hdr + seg[s].length <= seg[s].next /\ seg[seg[s].next].last = s
    BY <1>1 DEF Chain, Forward, Typed
  <1>4. s # L => s < seg[s].next
    BY <1>2, <1>3 DEF Hdr
  <1>5. /\ seg[s].last # NULL <=> s # 0
        /\ s # 0 => seg[s].last \in DOMAIN seg /\ seg[seg[s].last].next = s
    BY <1>1 DEF Chain, Backward
  <1>6. ASSUME s # 0 PROVE seg[s].last < s
    <2>. DEFINE t == seg[s].last
    <2>1. t \in DOMAIN seg /\ seg[t].next = s
      BY <1>5, <1>6
    <2>2. t # L
      BY <2>1, <1>1 DEF Chain, Forward
    <2>3. t \in Nat /\ seg[t].length \in Nat /\ t + Hdr + seg[t].length <= s
      BY <2>1, <2>2 DEF Chain, Forward, Typed
    <2>. QED  BY <2>3, <1>2 DEF Hdr
  <1>7. ASSUME NEW t \in DOMAIN seg, s < t
        PROVE  s # L /\ seg[s].next <= t /\ s + Hdr + seg[s].length <= t
    <2>1. s # L /\ seg[s].next <= t
      BY <1>7 DEF Chain, Ordered
    <2>2. t \in Nat
      BY DEF Chain, Typed
    <2>. QED  BY <2>1, <2>2, <1>2, <1>3 DEF Hdr
  <1>. QED  BY <1>1, <1>2, <1>3, <1>4, <1>5, <1>6, <1>7

LEMMA FunctionUpdate ==
  ASSUME NEW f, f = [t \in DOMAIN f |-> f[t]], NEW a, NEW x
  PROVE  [f EXCEPT ![a] = x] = [t \in DOMAIN f |-> IF t = a THEN x ELSE f[t]]
  OBVIOUS

\* SetLast(h, n, last) on the headers.
Relinked(seg, n, last) ==
  [t \in DOMAIN seg |->
     IF t = n THEN Header(seg[t].length, seg[t].next, last, seg[t].free) ELSE seg[t]]

LEMMA SetLastEffect ==
  ASSUME NEW h, IsHeap(h), Chain(h.seg, h.LastHdr), NEW n \in DOMAIN h.seg \cup {NULL},
         NEW last \in Nat
  PROVE  LET g == SetLast(h, n, last)
         IN  /\ IsHeap(g)
             /\ g.seg = Relinked(h.seg, n, last)
             /\ g.LastHdr = h.LastHdr /\ g.heapEnd = h.heapEnd /\ g.usedPages = h.usedPages
  <1>1. CASE n = NULL
    <2>1. SetLast(h, n, last) = [h EXCEPT !.nullLast = last]
      BY <1>1 DEF SetLast
    <2>2. Relinked(h.seg, n, last) = h.seg
      BY <1>1, InChain DEF Relinked, Chain, Typed
    <2>. QED  BY <2>1, <2>2, Fields DEF IsHeap
  <1>2. CASE n \in DOMAIN h.seg
    <2>1. SetLast(h, n, last) = [h EXCEPT !.seg[n].last = last]
      BY <1>2, InChain DEF SetLast
    <2>2. [h.seg EXCEPT ![n].last = last] = Relinked(h.seg, n, last)
      <3>1. [h.seg[n] EXCEPT !.last = last]
              = Header(h.seg[n].length, h.seg[n].next, last, h.seg[n].free)
        BY <1>2, InChain, HeaderFields
      <3>. QED  BY <3>1, <1>2, FunctionUpdate DEF Relinked, Chain, Typed
    <2>. QED  BY <2>1, <2>2, Fields DEF IsHeap
  <1>. QED  BY <1>1, <1>2

\* The segment s cut after n units.
Cut(seg, s, n) ==
  LET new == s + n + Hdr
  IN  [t \in DOMAIN seg \cup {new} |->
         IF t = new THEN Header(seg[s].length - n - Hdr, seg[s].next, s, seg[s].free)
         ELSE IF t = s THEN Header(n, new, seg[s].last, seg[s].free)
         ELSE Relinked(seg, seg[s].next, new)[t]]

LEMMA CutPlace ==
  ASSUME NEW seg, NEW L, Chain(seg, L), NEW s \in DOMAIN seg, NEW n \in Nat \ {0},
         seg[s].length - n - Hdr >= 1
  PROVE  /\ s + n + Hdr \in Nat /\ s + n + Hdr \notin DOMAIN seg
         /\ s < s + n + Hdr /\ s + n + Hdr < s + Hdr + seg[s].length
  <1>1. s \in Nat /\ seg[s].length \in Nat
    BY InChain
  <1>2. s < s + n + Hdr /\ s + n + Hdr < s + Hdr + seg[s].length
    BY <1>1 DEF Hdr
  <1>3. \A t \in DOMAIN seg : s < t => s + Hdr + seg[s].length <= t /\ t \in Nat
    BY InChain DEF Chain, Typed
  <1>. QED  BY <1>1, <1>2, <1>3 DEF Hdr

LEMMA SplitEffect ==
  ASSUME NEW h, IsHeap(h), Chain(h.seg, h.LastHdr), NEW s \in DOMAIN h.seg,
         NEW n \in Nat \ {0}, h.seg[s].length - n - Hdr >= 1
  PROVE  LET g == Split(h, s, n)
         IN  /\ IsHeap(g)
             /\ g.seg = Cut(h.seg, s, n)
             /\ g.LastHdr = IF s = h.LastHdr THEN s + n + Hdr ELSE h.LastHdr
             /\ g.heapEnd = h.heapEnd /\ g.usedPages = h.usedPages
  <1>. DEFINE new == s + n + Hdr
              nxt == h.seg[s].next
              rest == h.seg[s].length - n - Hdr
              linked == SetLast(h, nxt, new)
              seg1 == [linked.seg EXCEPT ![s].next = new]
              seg2 == [seg1 EXCEPT ![s].length = n]
              cut == [linked EXCEPT !.seg[s].next = new, !.seg[s].length = n,
                                    !.LastHdr = IF @ = s THEN new ELSE @]
              g == AddHeader(cut, new, Header(rest, nxt, s, h.seg[s].free))
  <1>1. new \in Nat /\ nxt \in DOMAIN h.seg \cup {NULL} /\ nxt # s /\ s \in Nat
    BY CutPlace, InChain
  <1>2. Split(h, s, n) = g
    <2>1. ~(n < 1) /\ ~(rest < 1)
      BY InChain DEF Hdr
    <2>. QED  BY <2>1 DEF Split
  <1>3. /\ IsHeap(linked) /\ linked.seg = Relinked(h.seg, nxt, new)
        /\ linked.LastHdr = h.LastHdr /\ linked.heapEnd = h.heapEnd
        /\ linked.usedPages = h.usedPages
    BY <1>1, SetLastEffect
  <1>. HIDE DEF linked
  <1>4. /\ IsHeap(cut) /\ cut.seg = seg2
        /\ cut.LastHdr = IF s = h.LastHdr THEN new ELSE h.LastHdr
        /\ cut.heapEnd = h.heapEnd /\ cut.usedPages = h.usedPages
    <2>. DEFINE h1 == [linked EXCEPT !.seg = seg1]
                h2 == [h1 EXCEPT !.seg = seg2]
    <2>1. IsHeap(h1) /\ h1.seg = seg1 /\ h1.LastHdr = linked.LastHdr
          /\ h1.heapEnd = linked.heapEnd /\ h1.usedPages = linked.usedPages
      BY <1>3, Fields DEF IsHeap
    <2>2. cut = [h2 EXCEPT !.LastHdr = IF h2.LastHdr = s THEN new ELSE h2.LastHdr]
      BY <2>1
    <2>. HIDE DEF h1, seg1
    <2>3. IsHeap(h2) /\ h2.seg = seg2 /\ h2.LastHdr = h1.LastHdr
          /\ h2.heapEnd = h1.heapEnd /\ h2.usedPages = h1.usedPages
      BY <2>1, Fields DEF IsHeap
    <2>. HIDE DEF h2, seg2, cut
    <2>4. /\ IsHeap(cut) /\ cut.seg = h2.seg
          /\ cut.LastHdr = IF h2.LastHdr = s THEN new ELSE h2.LastHdr
          /\ cut.heapEnd = h2.heapEnd /\ cut.usedPages = h2.usedPages
      BY <2>2, <2>3, Fields DEF IsHeap
    <2>. QED  BY <1>3, <2>1, <2>3, <2>4
  <1>5. seg2 = [t \in DOMAIN h.seg |->
                  IF t = s THEN Header(n, new, h.seg[s].last, h.seg[s].free)
                  ELSE Relinked(h.seg, nxt, new)[t]]
    <2>1. linked.seg[s] = h.seg[s] /\ Header4(h.seg[s])
      BY <1>1, <1>3, InChain DEF Relinked
    <2>2. seg1 = [t \in DOMAIN h.seg |->
                    IF t = s THEN Header(h.seg[s].length, new, h.seg[s].last, h.seg[s].free)
                    ELSE Relinked(h.seg, nxt, new)[t]]
      <3>2. linked.seg = [t \in DOMAIN linked.seg |-> linked.seg[t]]
            /\ DOMAIN linked.seg = DOMAIN h.seg
        BY <1>3 DEF Relinked
      <3>3. [linked.seg[s] EXCEPT !.next = new]
              = Header(h.seg[s].length, new, h.seg[s].last, h.seg[s].free)
        <4>. DEFINE old == h.seg[s]
        <4>1. linked.seg[s] = old /\ Header4(old)
          BY <2>1
        <4>. HIDE DEF old, new
        <4>2. [old EXCEPT !.next = new] = Header(old.length, new, old.last, old.free)
          BY <4>1, HeaderFields
        <4>3. [linked.seg[s] EXCEPT !.next = new] = [old EXCEPT !.next = new]
          BY <4>1
        <4>. QED  BY <4>2, <4>3 DEF old
      <3>4. seg1 = [linked.seg EXCEPT ![s] = [linked.seg[s] EXCEPT !.next = new]]
        OBVIOUS
      <3>5. seg1 = [linked.seg EXCEPT ![s] = Header(h.seg[s].length, new, h.seg[s].last,
                                                    h.seg[s].free)]
        <4>. HIDE DEF seg1, new
        <4>. QED  BY <3>3, <3>4
      <3>. QED  BY <1>3, <3>2, <3>5, FunctionUpdate
    <2>. HIDE DEF seg1
    <2>3. /\ Header4(seg1[s]) /\ seg1[s].next = new
          /\ seg1[s].last = h.seg[s].last /\ seg1[s].free = h.seg[s].free
      BY <2>2 DEF Header4, Header
    <2>4. [seg1[s] EXCEPT !.length = n] = Header(n, seg1[s].next, seg1[s].last, seg1[s].free)
      BY <2>3, HeaderFields
    <2>5. seg2 = [seg1 EXCEPT ![s] = Header(n, new, h.seg[s].last, h.seg[s].free)]
      BY <2>3, <2>4
    <2>6. seg1 = [t \in DOMAIN seg1 |-> seg1[t]] /\ DOMAIN seg1 = DOMAIN h.seg
      BY <2>2
    <2>. HIDE DEF seg2
    <2>. QED  BY <2>2, <2>5, <2>6, FunctionUpdate
  <1>. HIDE DEF cut, seg2
  <1>6. /\ IsHeap(g) /\ g.LastHdr = cut.LastHdr /\ g.heapEnd = cut.heapEnd
        /\ g.usedPages = cut.usedPages
        /\ g.seg = [t \in DOMAIN h.seg \cup {new} |->
                      IF t = new THEN Header(rest, nxt, s, h.seg[s].free) ELSE seg2[t]]
    BY <1>4, <1>5, Fields DEF AddHeader, IsHeap
  <1>7. g.seg = Cut(h.seg, s, n)
    BY <1>5, <1>6 DEF Cut
  <1>. QED  BY <1>2, <1>4, <1>6, <1>7

\* Cutting keeps the list.
LEMMA CutChain ==
  ASSUME NEW seg, NEW L, Chain(seg, L), NEW s \in DOMAIN seg, NEW n \in Nat \ {0},
         seg[s].length - n - Hdr >= 1
  PROVE  LET new == s + n + Hdr
         IN  Chain(Cut(seg, s, n), IF s = L THEN new ELSE L)
  <1>. DEFINE new == s + n + Hdr
              nxt == seg[s].next
              g == Cut(seg, s, n)
              K == IF s = L THEN new ELSE L
  <1>1. /\ new \in Nat /\ new \notin DOMAIN seg /\ s \in Nat /\ s < new
        /\ new < s + Hdr + seg[s].length
    BY CutPlace, InChain
  <1>2. /\ DOMAIN g = DOMAIN seg \cup {new}
        /\ g[new] = Header(seg[s].length - n - Hdr, nxt, s, seg[s].free)
        /\ g[s] = Header(n, new, seg[s].last, seg[s].free)
        /\ \A t \in DOMAIN seg \ {s} :
             g[t] = IF t = nxt THEN Header(seg[t].length, seg[t].next, new, seg[t].free)
                               ELSE seg[t]
    BY <1>1 DEF Cut, Relinked
  <1>3. nxt # s /\ (s # L => nxt \in DOMAIN seg) /\ (s = L => nxt = NULL)
    BY InChain
  <1>. HIDE DEF g
  <1>4. Typed(g)
    <2>1. g = [t \in DOMAIN g |-> g[t]]
      BY DEF g, Cut
    <2>2. ASSUME NEW t \in DOMAIN g
          PROVE  /\ t \in Nat /\ Header4(g[t]) /\ g[t].length \in Nat \ {0}
                 /\ g[t].free \in BOOLEAN
      <3>1. CASE t = new
        BY <1>1, <1>2, <3>1, InChain DEF Header, Header4, Hdr
      <3>2. CASE t = s
        BY <1>1, <1>2, <3>2, InChain DEF Header, Header4
      <3>3. CASE t \in DOMAIN seg \ {s}
        BY <1>2, <3>3, InChain DEF Header, Header4
      <3>. QED  BY <1>2, <3>1, <3>2, <3>3
    <2>. QED  BY <2>1, <2>2 DEF Typed
  <1>5. Forward(g, K)
    <2>. SUFFICES ASSUME NEW t \in DOMAIN g
                  PROVE  IF t = K THEN g[t].next = NULL
                         ELSE /\ g[t].next \in DOMAIN g /\ g[g[t].next].last = t
                              /\ t + Hdr + g[t].length <= g[t].next
      BY DEF Forward
    <2>1. CASE t = new
      <3>1. CASE s = L
        BY <1>2, <1>3, <2>1, <3>1 DEF Header
      <3>2. CASE s # L
        <4>1. nxt \in DOMAIN seg \ {s} /\ s + Hdr + seg[s].length <= nxt /\ nxt \in Nat
          BY <1>3, <3>2, InChain DEF Chain, Typed
        <4>2. new # L /\ g[new].next = nxt /\ g[nxt].last = new
          BY <1>1, <1>2, <4>1 DEF Header, Chain
        <4>3. new + Hdr + g[new].length <= nxt
          BY <1>1, <1>2, <4>1, InChain DEF Header, Hdr
        <4>. QED  BY <1>2, <2>1, <3>2, <4>1, <4>2, <4>3
      <3>. QED  BY <3>1, <3>2
    <2>2. CASE t = s
      <3>1. s # K /\ g[s].next = new /\ g[new].last = s /\ s + Hdr + g[s].length <= new
        BY <1>1, <1>2 DEF Header, Hdr
      <3>. QED  BY <1>2, <2>2, <3>1
    <2>3. CASE t \in DOMAIN seg \ {s}
      <3>1. g[t].next = seg[t].next /\ g[t].length = seg[t].length
        BY <1>2, <2>3 DEF Header
      <3>2. CASE t = L
        BY <2>3, <3>1, <3>2, InChain
      <3>3. CASE t # L
        <4>1. /\ seg[t].next \in DOMAIN seg /\ seg[seg[t].next].last = t
              /\ t + Hdr + seg[t].length <= seg[t].next
          BY <2>3, <3>3, InChain
        <4>2. seg[t].next # nxt
          BY <1>3, <2>3, <4>1, InChain
        <4>3. g[seg[t].next].last = t
          BY <1>2, <4>1, <4>2 DEF Header
        <4>. QED  BY <1>1, <1>2, <2>3, <3>1, <3>3, <4>1, <4>3
      <3>. QED  BY <3>2, <3>3
    <2>. QED  BY <1>2, <2>1, <2>2, <2>3
  <1>6. Backward(g)
    <2>. SUFFICES ASSUME NEW t \in DOMAIN g
                  PROVE  IF t = 0 THEN g[t].last = NULL
                         ELSE g[t].last \in DOMAIN g /\ g[g[t].last].next = t
      BY DEF Backward
    <2>1. CASE t = new
      BY <1>1, <1>2, <2>1 DEF Header
    <2>2. CASE t = s
      <3>1. g[s].last = seg[s].last
        BY <1>2 DEF Header
      <3>2. CASE s # 0
        <4>1. seg[s].last \in DOMAIN seg \ {s} /\ seg[seg[s].last].next = s
          BY <3>2, InChain
        <4>2. g[seg[s].last].next = s
          BY <1>2, <4>1 DEF Header
        <4>. QED  BY <1>2, <2>2, <3>1, <3>2, <4>1, <4>2
      <3>. QED  BY <2>2, <3>1, <3>2, InChain
    <2>3. CASE t \in DOMAIN seg \ {s}
      <3>1. CASE t = nxt
        <4>1. g[t].last = new /\ g[new].next = t
          BY <1>2, <2>3, <3>1 DEF Header
        <4>2. t # 0
          BY <2>3, <3>1, InChain
        <4>. QED  BY <1>2, <4>1, <4>2
      <3>2. CASE t # nxt
        <4>1. g[t].last = seg[t].last
          BY <1>2, <2>3, <3>2
        <4>2. CASE t # 0
          <5>1. seg[t].last \in DOMAIN seg \ {s} /\ seg[seg[t].last].next = t
            BY <2>3, <3>2, <4>2, InChain
          <5>2. g[seg[t].last].next = t
            BY <1>2, <5>1 DEF Header
          <5>. QED  BY <1>2, <4>1, <4>2, <5>1, <5>2
        <4>. QED  BY <2>3, <4>1, <4>2, InChain
      <3>. QED  BY <3>1, <3>2
    <2>. QED  BY <1>2, <2>1, <2>2, <2>3
  <1>7. Ordered(g, K)
    <2>. SUFFICES ASSUME NEW t \in DOMAIN g, NEW u \in DOMAIN g, t < u
                  PROVE  t # K /\ g[t].next <= u
      BY DEF Ordered
    <2>0. /\ \A a \in DOMAIN seg : a \in Nat
          /\ \A a \in DOMAIN seg : s < a => s # L /\ nxt <= a /\ s + Hdr + seg[s].length <= a
      BY InChain DEF Chain, Typed
    <2>1. CASE t = new
      <3>1. u \in DOMAIN seg /\ s < u
        BY <1>1, <1>2, <2>0, <2>1
      <3>2. s # L /\ nxt <= u
        BY <2>0, <3>1
      <3>. QED  BY <1>1, <1>2, <2>1, <3>2, InChain DEF Header, Chain
    <2>2. CASE t = s
      <3>1. g[t].next = new /\ t # K
        BY <1>1, <1>2, <2>2 DEF Header
      <3>2. u = new \/ new <= u
        <4>1. ASSUME u # new PROVE u \in Nat /\ s + Hdr + seg[s].length <= u
          BY <1>2, <2>0, <2>2, <4>1
        <4>2. seg[s].length \in Nat
          BY InChain
        <4>. QED  BY <1>1, <4>1, <4>2 DEF Hdr
      <3>. QED  BY <1>1, <3>1, <3>2
    <2>3. CASE t \in DOMAIN seg \ {s}
      <3>1. g[t].next = seg[t].next
        BY <1>2, <2>3 DEF Header
      <3>2. CASE u \in DOMAIN seg
        <4>1. t # L /\ seg[t].next <= u
          BY <2>3, <3>2, InChain
        <4>. QED  BY <1>1, <2>3, <3>1, <4>1
      <3>3. CASE u = new
        <4>1. t < s
          <5>1. ASSUME s < t PROVE FALSE
            <6>1. t \in Nat /\ s + Hdr + seg[s].length <= t /\ seg[s].length \in Nat
              BY <2>0, <2>3, <5>1, InChain
            <6>. QED  BY <1>1, <3>3, <6>1 DEF Hdr
          <5>. QED  BY <1>1, <2>0, <2>3, <5>1
        <4>2. t # L /\ seg[t].next <= s /\ seg[t].next \in Nat
          BY <2>0, <2>3, <4>1, InChain
        <4>. QED  BY <1>1, <2>3, <3>1, <3>3, <4>2
      <3>. QED  BY <1>2, <3>2, <3>3
    <2>. QED  BY <1>2, <2>1, <2>2, <2>3
  <1>8. 0 \in DOMAIN g /\ K \in DOMAIN g
    BY <1>2 DEF Chain
  <1>. QED  BY <1>4, <1>5, <1>6, <1>7, <1>8 DEF Chain, g

\* The free field of s changed.
Flagged(seg, s, free) ==
  [t \in DOMAIN seg |->
     IF t = s THEN Header(seg[s].length, seg[s].next, seg[s].last, free) ELSE seg[t]]

LEMMA FlagEffect ==
  ASSUME NEW h, IsHeap(h), Chain(h.seg, h.LastHdr), NEW s \in DOMAIN h.seg, NEW free
  PROVE  LET g == [h EXCEPT !.seg[s].free = free]
         IN  /\ IsHeap(g) /\ g.seg = Flagged(h.seg, s, free)
             /\ g.LastHdr = h.LastHdr /\ g.heapEnd = h.heapEnd /\ g.usedPages = h.usedPages
  <1>0. Header4(h.seg[s])
    BY InChain
  <1>1. [h.seg[s] EXCEPT !.free = free]
          = Header(h.seg[s].length, h.seg[s].next, h.seg[s].last, free)
    BY <1>0, HeaderFields
  <1>2. [h.seg EXCEPT ![s].free = free] = Flagged(h.seg, s, free)
    BY <1>1, FunctionUpdate DEF Flagged, Chain, Typed
  <1>. QED  BY <1>2, Fields DEF IsHeap

LEMMA FlagChain ==
  ASSUME NEW seg, NEW L, Chain(seg, L), NEW s \in DOMAIN seg, NEW free \in BOOLEAN
  PROVE  Chain(Flagged(seg, s, free), L)
  <1>. DEFINE g == Flagged(seg, s, free)
  <1>1. /\ DOMAIN g = DOMAIN seg
        /\ g = [t \in DOMAIN g |-> g[t]]
        /\ \A t \in DOMAIN seg :
             /\ g[t].length = seg[t].length /\ g[t].next = seg[t].next
             /\ g[t].last = seg[t].last /\ g[t].free \in BOOLEAN /\ Header4(g[t])
    BY InChain DEF Flagged, Header, Header4
  <1>. HIDE DEF g
  <1>2. Typed(g)
    BY <1>1, InChain DEF Typed, Chain
  <1>3. Forward(g, L)
    BY <1>1 DEF Forward, Chain
  <1>4. Backward(g)
    BY <1>1 DEF Backward, Chain
  <1>5. Ordered(g, L)
    BY <1>1 DEF Ordered, Chain
  <1>. QED  BY <1>1, <1>2, <1>3, <1>4, <1>5 DEF Chain, g

\* The segment behind s swallowed by it.
Merged(seg, s) ==
  LET n == seg[s].next
      a == seg[n].next
  IN  [t \in DOMAIN seg \ {n} |->
         IF t = s
         THEN Header(seg[s].length + seg[n].length + Hdr, a, seg[s].last, seg[s].free)
         ELSE Relinked(seg, a, s)[t]]

LEMMA Neighbours ==
  ASSUME NEW seg, NEW L, Chain(seg, L), NEW s \in DOMAIN seg, seg[s].next # NULL
  PROVE  LET n == seg[s].next
             a == seg[n].next
         IN  /\ n \in DOMAIN seg /\ n \in Nat /\ s \in Nat /\ s < n /\ s # L /\ n # 0
             /\ a \in (DOMAIN seg \ {s, n}) \cup {NULL}
             /\ a = NULL <=> n = L
             /\ seg[n].last = s
  <1>. DEFINE n == seg[s].next
              a == seg[n].next
  <1>1. n \in DOMAIN seg /\ n \in Nat /\ s \in Nat /\ s < n /\ s # L /\ n # 0 /\ seg[n].last = s
    BY InChain DEF Chain, Typed
  <1>2. a = NULL <=> n = L
    BY <1>1, InChain
  <1>3. a # NULL => a \in DOMAIN seg /\ a \in Nat /\ n < a
    BY <1>1, InChain DEF Chain, Typed
  <1>. QED  BY <1>1, <1>2, <1>3

LEMMA MergeEffect ==
  ASSUME NEW h, IsHeap(h), Chain(h.seg, h.LastHdr), NEW s \in DOMAIN h.seg,
         h.seg[s].next # NULL, h.seg[h.seg[s].next].free
  PROVE  LET g == CombineForward(h, s)
         IN  /\ IsHeap(g)
             /\ g.seg = Merged(h.seg, s)
             /\ g.LastHdr = IF h.seg[s].next = h.LastHdr THEN s ELSE h.LastHdr
             /\ g.heapEnd = h.heapEnd /\ g.usedPages = h.usedPages
  <1>. DEFINE nxt == h.seg[s].next
              after == h.seg[nxt].next
              linked == IF after = NULL THEN h ELSE SetLast(h, after, s)
              L1 == IF linked.LastHdr = nxt THEN s ELSE linked.LastHdr
              h1 == [linked EXCEPT !.LastHdr = L1]
              seg1 == [h1.seg EXCEPT ![s].length = @ + h.seg[nxt].length + Hdr]
              h2 == [h1 EXCEPT !.seg = seg1]
              seg2 == [h2.seg EXCEPT ![s].next = after]
              h3 == [h2 EXCEPT !.seg = seg2]
              g == DropHeader(h3, nxt)
  <1>1. /\ nxt \in DOMAIN h.seg /\ s # nxt
        /\ after \in (DOMAIN h.seg \ {s, nxt}) \cup {NULL} /\ s \in Nat
    BY Neighbours
  <1>2. CombineForward(h, s) = g
    <2>. DEFINE merged == [linked EXCEPT
                             !.LastHdr = IF @ = nxt THEN s ELSE @,
                             !.seg[s].length = @ + h.seg[nxt].length + Hdr,
                             !.seg[s].next = after]
    <2>1. CombineForward(h, s) = DropHeader(merged, nxt)
      BY DEF CombineForward
    <2>2. merged = h3
      <3>. HIDE DEF linked
      <3>. QED  OBVIOUS
    <2>. HIDE DEF merged, h3, nxt
    <2>. QED  BY <2>1, <2>2
  <1>3. /\ IsHeap(linked) /\ linked.seg = Relinked(h.seg, after, s)
        /\ linked.LastHdr = h.LastHdr /\ linked.heapEnd = h.heapEnd
        /\ linked.usedPages = h.usedPages
    <2>1. CASE after = NULL
      <3>1. h.seg = Relinked(h.seg, NULL, s)
        BY InChain DEF Relinked, Chain, Typed
      <3>. QED  BY <2>1, <3>1
    <2>2. CASE after # NULL
      BY <1>1, <2>2, SetLastEffect
    <2>. QED  BY <2>1, <2>2
  <1>. HIDE DEF linked
  <1>4. /\ IsHeap(h1) /\ h1.seg = linked.seg /\ h1.LastHdr = L1
        /\ h1.heapEnd = h.heapEnd /\ h1.usedPages = h.usedPages
    BY <1>3, Fields DEF IsHeap
  <1>. HIDE DEF h1, L1
  <1>5. /\ IsHeap(h2) /\ h2.seg = seg1 /\ h2.LastHdr = L1
        /\ h2.heapEnd = h.heapEnd /\ h2.usedPages = h.usedPages
    <2>. HIDE DEF seg1
    <2>. QED  BY <1>4, Fields DEF IsHeap
  <1>6. seg1 = [t \in DOMAIN h.seg |->
                  IF t = s THEN Header(h.seg[s].length + h.seg[nxt].length + Hdr, nxt,
                                       h.seg[s].last, h.seg[s].free)
                  ELSE Relinked(h.seg, after, s)[t]]
    <2>. DEFINE len == h.seg[s].length + h.seg[nxt].length + Hdr
    <2>1. h1.seg[s] = h.seg[s] /\ Header4(h.seg[s])
      BY <1>1, <1>3, <1>4, InChain DEF Relinked
    <2>6. [h.seg[s] EXCEPT !.length = len] = Header(len, nxt, h.seg[s].last, h.seg[s].free)
      <3>. HIDE DEF len
      <3>. QED  BY <2>1, HeaderFields
    <2>7. seg1 = [h1.seg EXCEPT ![s] = [h1.seg[s] EXCEPT !.length = len]]
      BY <2>1
    <2>2. seg1 = [h1.seg EXCEPT ![s] = Header(len, nxt, h.seg[s].last, h.seg[s].free)]
      BY <2>1, <2>6, <2>7
    <2>3. h1.seg = [t \in DOMAIN h1.seg |-> h1.seg[t]] /\ DOMAIN h1.seg = DOMAIN h.seg
      BY <1>3, <1>4 DEF Relinked
    <2>4. \A t \in DOMAIN h.seg : h1.seg[t] = Relinked(h.seg, after, s)[t]
      BY <1>3, <1>4
    <2>. HIDE DEF seg1, len
    <2>5. seg1 = [t \in DOMAIN h1.seg |->
                    IF t = s THEN Header(len, nxt, h.seg[s].last, h.seg[s].free)
                    ELSE h1.seg[t]]
      BY <2>2, <2>3, FunctionUpdate
    <2>. QED  BY <2>3, <2>4, <2>5 DEF len
  <1>. HIDE DEF h2, seg1
  <1>7. /\ IsHeap(h3) /\ h3.seg = seg2 /\ h3.LastHdr = L1
        /\ h3.heapEnd = h.heapEnd /\ h3.usedPages = h.usedPages
    <2>. HIDE DEF seg2
    <2>. QED  BY <1>5, Fields DEF IsHeap
  <1>8. seg2 = [t \in DOMAIN h.seg |->
                  IF t = s THEN Header(h.seg[s].length + h.seg[nxt].length + Hdr, after,
                                       h.seg[s].last, h.seg[s].free)
                  ELSE Relinked(h.seg, after, s)[t]]
    <2>. DEFINE len == h.seg[s].length + h.seg[nxt].length + Hdr
    <2>1. h2.seg[s] = Header(len, nxt, h.seg[s].last, h.seg[s].free)
      BY <1>5, <1>6
    <2>. HIDE DEF len
    <2>2. /\ Header4(h2.seg[s]) /\ h2.seg[s].length = len
          /\ h2.seg[s].last = h.seg[s].last /\ h2.seg[s].free = h.seg[s].free
      BY <2>1 DEF Header, Header4
    <2>3. [h2.seg[s] EXCEPT !.next = after]
            = Header(len, after, h.seg[s].last, h.seg[s].free)
      <3>. DEFINE r == h2.seg[s]
      <3>1. Header4(r) /\ r.length = len /\ r.last = h.seg[s].last /\ r.free = h.seg[s].free
        BY <2>2
      <3>. HIDE DEF r, after
      <3>2. [r EXCEPT !.next = after] = Header(r.length, after, r.last, r.free)
        BY <3>1, HeaderFields
      <3>. QED  BY <3>1, <3>2 DEF r
    <2>4. h2.seg = [t \in DOMAIN h2.seg |-> h2.seg[t]] /\ DOMAIN h2.seg = DOMAIN h.seg
      BY <1>5, <1>6
    <2>5. seg2 = [h2.seg EXCEPT ![s] = Header(len, after, h.seg[s].last, h.seg[s].free)]
      BY <2>3
    <2>. HIDE DEF seg2
    <2>6. seg2 = [t \in DOMAIN h2.seg |->
                    IF t = s THEN Header(len, after, h.seg[s].last, h.seg[s].free)
                    ELSE h2.seg[t]]
      BY <2>4, <2>5, FunctionUpdate
    <2>7. \A t \in DOMAIN h.seg \ {s} : h2.seg[t] = Relinked(h.seg, after, s)[t]
      BY <1>5, <1>6
    <2>. QED  BY <2>4, <2>6, <2>7 DEF len
  <1>. HIDE DEF h3, seg2
  <1>9. /\ IsHeap(g) /\ g.LastHdr = L1 /\ g.heapEnd = h.heapEnd /\ g.usedPages = h.usedPages
        /\ g.seg = [t \in DOMAIN h.seg \ {nxt} |-> seg2[t]]
    <2>1. DOMAIN h3.seg = DOMAIN h.seg
      BY <1>7, <1>8
    <2>2. g = [h3 EXCEPT !.seg = [t \in DOMAIN h.seg \ {nxt} |-> seg2[t]]]
      BY <1>7, <2>1 DEF DropHeader
    <2>. HIDE DEF g, nxt
    <2>. QED  BY <1>7, <2>2, Fields DEF IsHeap
  <1>10. g.seg = Merged(h.seg, s)
    BY <1>8, <1>9 DEF Merged
  <1>. HIDE DEF g
  <1>. QED  BY <1>2, <1>3, <1>9, <1>10 DEF L1

\* Merging keeps the list.
LEMMA MergeChain ==
  ASSUME NEW seg, NEW L, Chain(seg, L), NEW s \in DOMAIN seg, seg[s].next # NULL
  PROVE  Chain(Merged(seg, s), IF seg[s].next = L THEN s ELSE L)
  <1>. DEFINE n == seg[s].next
              a == seg[n].next
              g == Merged(seg, s)
              K == IF n = L THEN s ELSE L
  <1>1. /\ n \in DOMAIN seg /\ n \in Nat /\ s \in Nat /\ s < n /\ s # L /\ n # 0
        /\ a \in (DOMAIN seg \ {s, n}) \cup {NULL} /\ (a = NULL <=> n = L)
    BY Neighbours
  <1>2. /\ DOMAIN g = DOMAIN seg \ {n} /\ s \in DOMAIN g
        /\ g = [t \in DOMAIN g |-> g[t]]
        /\ g[s] = Header(seg[s].length + seg[n].length + Hdr, a, seg[s].last, seg[s].free)
        /\ \A t \in DOMAIN seg \ {s, n} :
             g[t] = IF t = a THEN Header(seg[t].length, seg[t].next, s, seg[t].free)
                             ELSE seg[t]
    BY <1>1 DEF Merged, Relinked
  <1>3. /\ g[s].length = seg[s].length + seg[n].length + Hdr /\ g[s].next = a
        /\ g[s].last = seg[s].last /\ g[s].free = seg[s].free
        /\ \A t \in DOMAIN seg \ {s, n} :
             /\ g[t].length = seg[t].length /\ g[t].next = seg[t].next
             /\ g[t].last = IF t = a THEN s ELSE seg[t].last
             /\ g[t].free = seg[t].free
             /\ Header4(g[t])
    <2>1. \A t \in DOMAIN seg : Header4(seg[t])
      BY InChain
    <2>2. ASSUME NEW t \in DOMAIN seg \ {s, n}
          PROVE  /\ g[t].length = seg[t].length /\ g[t].next = seg[t].next
                 /\ g[t].last = IF t = a THEN s ELSE seg[t].last
                 /\ g[t].free = seg[t].free
                 /\ Header4(g[t])
      <3>1. CASE t = a
        <4>1. g[t] = Header(seg[t].length, seg[t].next, s, seg[t].free)
          BY <1>2, <3>1
        <4>. QED  BY <4>1, <3>1 DEF Header, Header4
      <3>2. CASE t # a
        <4>1. g[t] = seg[t]
          BY <1>2, <3>2
        <4>. QED  BY <4>1, <3>2, <2>1
      <3>. QED  BY <3>1, <3>2
    <2>3. /\ g[s].length = seg[s].length + seg[n].length + Hdr /\ g[s].next = a
          /\ g[s].last = seg[s].last /\ g[s].free = seg[s].free
      BY <1>2 DEF Header
    <2>. QED  BY <2>2, <2>3
  <1>. HIDE DEF g
  <1>4. Typed(g)
    <2>2. ASSUME NEW t \in DOMAIN g
          PROVE  /\ t \in Nat /\ Header4(g[t]) /\ g[t].length \in Nat \ {0}
                 /\ g[t].free \in BOOLEAN
      <3>1. CASE t = s
        BY <1>1, <1>2, <3>1, InChain, <1>3 DEF Header, Header4, Hdr
      <3>2. CASE t \in DOMAIN seg \ {s, n}
        BY <1>2, <3>2, InChain, <1>3
      <3>. QED  BY <1>2, <3>1, <3>2
    <2>. QED  BY <1>2, <2>2 DEF Typed
  <1>5. Forward(g, K)
    <2>. SUFFICES ASSUME NEW t \in DOMAIN g
                  PROVE  IF t = K THEN g[t].next = NULL
                         ELSE /\ g[t].next \in DOMAIN g /\ g[g[t].next].last = t
                              /\ t + Hdr + g[t].length <= g[t].next
      BY DEF Forward
    <2>1. CASE t = s
      <3>1. g[s].next = a /\ g[s].length = seg[s].length + seg[n].length + Hdr
        BY <1>2, <1>3
      <3>2. CASE n # L
        <4>1. a \in DOMAIN seg \ {s, n} /\ a \in Nat
          BY <1>1, <3>2 DEF Chain, Typed
        <4>2. g[a].last = s
          BY <1>2, <4>1, <1>3
        <4>3. s + Hdr + seg[s].length <= n /\ n + Hdr + seg[n].length <= a
          BY <1>1, <3>2, InChain
        <4>4. s + Hdr + g[s].length <= a
          BY <1>1, <3>1, <4>1, <4>3, InChain DEF Hdr
        <4>. QED  BY <1>1, <1>2, <2>1, <3>1, <3>2, <4>1, <4>2, <4>4
      <3>. QED  BY <1>1, <2>1, <3>1, <3>2
    <2>2. CASE t \in DOMAIN seg \ {s, n}
      <3>1. g[t].next = seg[t].next /\ g[t].length = seg[t].length
        BY <1>2, <2>2, <1>3
      <3>2. CASE t = L
        BY <1>1, <2>2, <3>1, <3>2, InChain
      <3>3. CASE t # L
        <4>1. /\ seg[t].next \in DOMAIN seg /\ seg[seg[t].next].last = t
              /\ t + Hdr + seg[t].length <= seg[t].next
          BY <2>2, <3>3, InChain
        <4>2. seg[t].next \notin {n, a}
          <5>1. seg[n].last = s /\ (a # NULL => seg[a].last = n)
            BY <1>1, InChain
          <5>2. seg[t].next # NULL
            BY <4>1, InChain
          <5>. QED  BY <2>2, <4>1, <5>1, <5>2
        <4>3. g[seg[t].next].last = t
          BY <1>2, <4>1, <4>2, <1>3
        <4>. QED  BY <1>1, <1>2, <2>2, <3>1, <3>3, <4>1, <4>2, <4>3
      <3>. QED  BY <3>2, <3>3
    <2>. QED  BY <1>2, <2>1, <2>2
  <1>6. Backward(g)
    <2>. SUFFICES ASSUME NEW t \in DOMAIN g
                  PROVE  IF t = 0 THEN g[t].last = NULL
                         ELSE g[t].last \in DOMAIN g /\ g[g[t].last].next = t
      BY DEF Backward
    <2>1. CASE t = s
      <3>1. g[s].last = seg[s].last
        BY <1>2, <1>3
      <3>2. CASE s # 0
        <4>1. seg[s].last \in DOMAIN seg /\ seg[seg[s].last].next = s /\ seg[s].last < s
          BY <3>2, InChain
        <4>2. seg[s].last \in DOMAIN seg \ {s, n}
          BY <1>1, <4>1 DEF Chain, Typed
        <4>3. g[seg[s].last].next = s
          BY <1>2, <4>1, <4>2, <1>3
        <4>. QED  BY <1>2, <2>1, <3>1, <3>2, <4>2, <4>3
      <3>. QED  BY <2>1, <3>1, <3>2, InChain
    <2>2. CASE t \in DOMAIN seg \ {s, n}
      <3>1. CASE t = a
        <4>1. g[t].last = s /\ g[s].next = t
          BY <1>2, <2>2, <3>1, <1>3
        <4>2. t # 0
          BY <1>1, <2>2, <3>1, InChain
        <4>. QED  BY <1>2, <4>1, <4>2
      <3>2. CASE t # a
        <4>1. g[t].last = seg[t].last
          BY <1>2, <2>2, <3>2
        <4>2. CASE t # 0
          <5>1. seg[t].last \in DOMAIN seg /\ seg[seg[t].last].next = t
            BY <2>2, <4>2, InChain
          <5>2. seg[t].last \in DOMAIN seg \ {s, n}
            BY <2>2, <3>2, <5>1
          <5>3. g[seg[t].last].next = t
            BY <1>2, <5>1, <5>2, <1>3
          <5>. QED  BY <1>2, <4>1, <4>2, <5>2, <5>3
        <4>. QED  BY <2>2, <4>1, <4>2, InChain
      <3>. QED  BY <3>1, <3>2
    <2>. QED  BY <1>2, <2>1, <2>2
  <1>7. Ordered(g, K)
    <2>. SUFFICES ASSUME NEW t \in DOMAIN g, NEW u \in DOMAIN g, t < u
                  PROVE  t # K /\ g[t].next <= u
      BY DEF Ordered
    <2>1. t \in DOMAIN seg /\ u \in DOMAIN seg /\ u # n /\ t # L /\ seg[t].next <= u
      BY <1>2, InChain
    <2>2. CASE t = s
      <3>1. n < u
        BY <1>1, <2>1, <2>2 DEF Chain, Typed
      <3>2. n # L /\ a <= u
        BY <1>1, <2>1, <3>1, InChain
      <3>3. g[s].next = a
        BY <1>2, <1>3
      <3>. QED  BY <1>1, <2>1, <2>2, <3>2, <3>3
    <2>3. CASE t # s
      <3>1. g[t].next = seg[t].next
        BY <1>2, <2>1, <2>3, <1>3
      <3>. QED  BY <1>1, <2>1, <2>3, <3>1
    <2>. QED  BY <2>2, <2>3
  <1>8. 0 \in DOMAIN g /\ K \in DOMAIN g
    BY <1>1, <1>2 DEF Chain
  <1>. QED  BY <1>4, <1>5, <1>6, <1>7, <1>8 DEF Chain, g

-----------------------------------------------------------------------------
(* What free, malloc and ExpandHeap make of the list.                      *)

List(h) == IsHeap(h) /\ Chain(h.seg, h.LastHdr)

ListEnd(h) == h.LastHdr + Hdr + h.seg[h.LastHdr].length

\* s and the segment behind it are both free.
FreePair(seg, s) == seg[s].free /\ seg[s].next # NULL /\ seg[seg[s].next].free

\* The segments in use, s apart, are the same and as long as before.
SameBusy(seg, g, s) ==
  /\ \A t \in DOMAIN seg \ {s} :
       ~seg[t].free => t \in DOMAIN g /\ ~g[t].free /\ g[t].length = seg[t].length
  /\ \A t \in DOMAIN g \ {s} : ~g[t].free => t \in DOMAIN seg /\ ~seg[t].free

\* No segment of the list lies behind the last one.
LEMMA UpToLast ==
  ASSUME NEW seg, NEW L, Chain(seg, L), NEW s \in DOMAIN seg
  PROVE  /\ s <= L /\ s \in Nat /\ L \in Nat /\ L \in DOMAIN seg
         /\ s + Hdr + seg[s].length <= L + Hdr + seg[L].length
  <1>1. s \in Nat /\ L \in Nat /\ L \in DOMAIN seg
    BY DEF Chain, Typed
  <1>2. ~(L < s)
    BY <1>1, InChain
  <1>3. s < L => s + Hdr + seg[s].length <= L
    BY <1>1, InChain
  <1>4. seg[s].length \in Nat /\ seg[L].length \in Nat
    BY <1>1, InChain
  <1>. QED  BY <1>1, <1>2, <1>3, <1>4 DEF Hdr

LEMMA ListEndNat ==
  ASSUME NEW h, List(h)
  PROVE  ListEnd(h) \in Nat
  <1>1. h.LastHdr \in DOMAIN h.seg /\ Chain(h.seg, h.LastHdr)
    BY DEF List, Chain
  <1>. QED  BY <1>1, InChain DEF ListEnd, Hdr

LEMMA MergedOthers ==
  ASSUME NEW seg, NEW L, Chain(seg, L), NEW s \in DOMAIN seg, seg[s].next # NULL,
         NEW t \in DOMAIN seg \ {s, seg[s].next}
  PROVE  /\ t \in DOMAIN Merged(seg, s)
         /\ Merged(seg, s)[t].length = seg[t].length
         /\ Merged(seg, s)[t].next = seg[t].next
         /\ Merged(seg, s)[t].free = seg[t].free
  <1>. DEFINE a == seg[seg[s].next].next
  <1>1. Merged(seg, s)[t] = Relinked(seg, a, s)[t] /\ t \in DOMAIN Merged(seg, s)
    BY DEF Merged
  <1>2. CASE t = a
    <2>1. Merged(seg, s)[t] = Header(seg[t].length, seg[t].next, s, seg[t].free)
      BY <1>1, <1>2 DEF Relinked
    <2>. QED  BY <1>1, <2>1 DEF Header
  <1>3. CASE t # a
    <2>1. Merged(seg, s)[t] = seg[t]
      BY <1>1, <1>3 DEF Relinked
    <2>. QED  BY <1>1, <2>1
  <1>. QED  BY <1>2, <1>3

\* Swallowing a free successor resolves the pair s was in and makes no other.
LEMMA MergePairs ==
  ASSUME NEW seg, NEW L, Chain(seg, L), NEW s \in DOMAIN seg, seg[s].next # NULL,
         seg[seg[s].next].free, NEW p, p # seg[s].next,
         \A t \in DOMAIN seg \ {s, p} : ~FreePair(seg, t)
  PROVE  /\ \A t \in DOMAIN Merged(seg, s) \ {p} : ~FreePair(Merged(seg, s), t)
         /\ SameBusy(seg, Merged(seg, s), s)
         /\ s \in DOMAIN Merged(seg, s)
         /\ Merged(seg, s)[s].free = seg[s].free /\ Merged(seg, s)[s].last = seg[s].last
         /\ Merged(seg, s)[s].length = seg[s].length + seg[seg[s].next].length + Hdr
  <1>. DEFINE n == seg[s].next
              a == seg[n].next
              g == Merged(seg, s)
  <1>1. /\ n \in DOMAIN seg /\ s # n /\ a \in (DOMAIN seg \ {s, n}) \cup {NULL}
        /\ seg[n].last = s
    BY Neighbours
  <1>2. /\ DOMAIN g = DOMAIN seg \ {n} /\ s \in DOMAIN g
        /\ g[s] = Header(seg[s].length + seg[n].length + Hdr, a, seg[s].last, seg[s].free)
    BY <1>1 DEF Merged, Relinked
  <1>3. /\ g[s].next = a /\ g[s].free = seg[s].free /\ g[s].last = seg[s].last
        /\ g[s].length = seg[s].length + seg[n].length + Hdr
    BY <1>2 DEF Header
  <1>4. ASSUME NEW t \in DOMAIN seg \ {s, n}
        PROVE  g[t].length = seg[t].length /\ g[t].next = seg[t].next /\ g[t].free = seg[t].free
    BY MergedOthers
  <1>. HIDE DEF g
  <1>5. ASSUME NEW t \in DOMAIN g \ {p}, FreePair(g, t) PROVE FALSE
    <2>1. CASE t = s
      <3>1. a # NULL /\ g[a].free
        BY <1>3, <1>5, <2>1 DEF FreePair
      <3>2. a \in DOMAIN seg \ {s, n}
        BY <1>1, <3>1
      <3>3. seg[a].free
        BY <3>1, <3>2, <1>4
      <3>4. FreePair(seg, n)
        BY <3>1, <3>3 DEF FreePair
      <3>. QED  BY <1>1, <3>4
    <2>2. CASE t # s
      <3>1. t \in DOMAIN seg \ {s, n}
        BY <1>2, <2>2
      <3>2. seg[t].free /\ seg[t].next # NULL /\ g[seg[t].next].free
        BY <1>4, <1>5, <3>1 DEF FreePair
      <3>3. seg[t].next \in DOMAIN seg /\ seg[seg[t].next].last = t
        BY <3>1, <3>2, InChain
      <3>4. seg[t].next # n
        BY <1>1, <2>2, <3>3
      <3>5. seg[seg[t].next].free
        BY <1>3, <1>4, <3>2, <3>3, <3>4
      <3>. QED  BY <1>5, <3>1, <3>2, <3>5 DEF FreePair
    <2>. QED  BY <2>1, <2>2
  <1>6. SameBusy(seg, g, s)
    BY <1>2, <1>4 DEF SameBusy
  <1>. QED  BY <1>2, <1>3, <1>5, <1>6 DEF g

\* CombineForward on a free segment.
LEMMA CombineForwardEffect ==
  ASSUME NEW h, List(h), NEW s \in DOMAIN h.seg, h.seg[s].free, NEW p,
         p # h.seg[s].next \/ h.seg[s].next = NULL,
         \A t \in DOMAIN h.seg \ {s, p} : ~FreePair(h.seg, t)
  PROVE  LET g == CombineForward(h, s)
         IN  /\ List(g) /\ ListEnd(g) <= ListEnd(h)
             /\ g.heapEnd = h.heapEnd /\ g.usedPages = h.usedPages
             /\ \A t \in DOMAIN g.seg \ {p} : ~FreePair(g.seg, t)
             /\ SameBusy(h.seg, g.seg, s)
             /\ s \in DOMAIN g.seg /\ g.seg[s].free /\ g.seg[s].last = h.seg[s].last
             /\ g.seg[s].length >= h.seg[s].length
             /\ s # h.LastHdr /\ h.seg[h.seg[s].next].free =>
                  g.seg[s].length = h.seg[s].length + h.seg[h.seg[s].next].length + Hdr
             /\ g.LastHdr = IF h.seg[s].next = h.LastHdr /\ h.seg[h.seg[s].next].free
                            THEN s ELSE h.LastHdr
  <1>. DEFINE n == h.seg[s].next
              g == CombineForward(h, s)
  <1>0. /\ IsHeap(h) /\ Chain(h.seg, h.LastHdr)
        /\ s \in Nat /\ h.seg[s].length \in Nat \ {0} /\ (n # NULL <=> s # h.LastHdr)
        /\ h.LastHdr # NULL /\ h.LastHdr \in DOMAIN h.seg /\ ListEnd(h) \in Nat
    <2>1. IsHeap(h) /\ Chain(h.seg, h.LastHdr)
      BY DEF List
    <2>2. h.LastHdr \in DOMAIN h.seg
      BY <2>1 DEF Chain
    <2>. QED  BY <2>1, <2>2, InChain DEF ListEnd, Hdr
  <1>1. CASE n = NULL
    <2>1. g = h
      BY <1>1 DEF CombineForward
    <2>2. ~FreePair(h.seg, s)
      BY <1>1 DEF FreePair
    <2>3. \A t \in DOMAIN h.seg \ {p} : ~FreePair(h.seg, t)
      BY <2>2
    <2>4. SameBusy(h.seg, h.seg, s)
      BY DEF SameBusy
    <2>. HIDE DEF g, n
    <2>. QED  BY <1>0, <1>1, <2>1, <2>3, <2>4 DEF n, g
  <1>2. CASE n # NULL /\ ~h.seg[n].free
    <2>1. g = h
      BY <1>2 DEF CombineForward
    <2>2. ~FreePair(h.seg, s)
      BY <1>2 DEF FreePair
    <2>3. \A t \in DOMAIN h.seg \ {p} : ~FreePair(h.seg, t)
      BY <2>2
    <2>4. SameBusy(h.seg, h.seg, s)
      BY DEF SameBusy
    <2>. HIDE DEF g, n
    <2>. QED  BY <1>0, <1>2, <2>1, <2>3, <2>4 DEF n, g
  <1>3. CASE n # NULL /\ h.seg[n].free
    <2>1. /\ IsHeap(g) /\ g.seg = Merged(h.seg, s)
          /\ g.LastHdr = IF n = h.LastHdr THEN s ELSE h.LastHdr
          /\ g.heapEnd = h.heapEnd /\ g.usedPages = h.usedPages
      BY <1>0, <1>3, MergeEffect
    <2>2. Chain(g.seg, g.LastHdr)
      BY <1>0, <1>3, <2>1, MergeChain
    <2>3. /\ \A t \in DOMAIN g.seg \ {p} : ~FreePair(g.seg, t)
          /\ SameBusy(h.seg, g.seg, s)
          /\ s \in DOMAIN g.seg
          /\ g.seg[s].free = h.seg[s].free /\ g.seg[s].last = h.seg[s].last
          /\ g.seg[s].length = h.seg[s].length + h.seg[n].length + Hdr
      <3>. DEFINE seg == h.seg
      <3>1. /\ Chain(seg, h.LastHdr) /\ s \in DOMAIN seg /\ seg[s].next # NULL
            /\ seg[seg[s].next].free /\ p # seg[s].next
            /\ \A t \in DOMAIN seg \ {s, p} : ~FreePair(seg, t)
        BY <1>0, <1>3
      <3>. HIDE DEF seg, g
      <3>2. /\ \A t \in DOMAIN Merged(seg, s) \ {p} : ~FreePair(Merged(seg, s), t)
            /\ SameBusy(seg, Merged(seg, s), s)
            /\ s \in DOMAIN Merged(seg, s)
            /\ Merged(seg, s)[s].free = seg[s].free /\ Merged(seg, s)[s].last = seg[s].last
            /\ Merged(seg, s)[s].length = seg[s].length + seg[seg[s].next].length + Hdr
        BY <3>1, MergePairs
      <3>3. g.seg = Merged(seg, s)
        BY <2>1 DEF seg
      <3>. QED  BY <3>2, <3>3 DEF seg
    <2>4. /\ n \in DOMAIN h.seg /\ n \in Nat /\ h.seg[n].length \in Nat
          /\ s + Hdr + h.seg[s].length <= n
      BY <1>0, <1>3, InChain DEF Chain, Typed
    <2>. HIDE DEF g, n
    <2>5. ListEnd(g) <= ListEnd(h)
      <3>1. CASE n = h.LastHdr
        BY <1>0, <2>1, <2>3, <2>4, <3>1 DEF ListEnd, Hdr
      <3>2. CASE n # h.LastHdr
        <4>1. h.LastHdr \in DOMAIN g.seg /\ g.LastHdr = h.LastHdr
          BY <2>1, <2>2, <3>2 DEF Chain
        <4>2. h.LastHdr # s
          BY <1>0, <1>3
        <4>3. g.seg[h.LastHdr].length = h.seg[h.LastHdr].length
          BY <1>0, <1>3, <3>2, <4>1, <4>2, <2>1, MergedOthers DEF n
        <4>. QED  BY <4>1, <4>3, <1>0, InChain DEF ListEnd, Hdr
      <3>. QED  BY <3>1, <3>2
    <2>. QED  BY <1>0, <1>3, <2>1, <2>2, <2>3, <2>4, <2>5 DEF List, Hdr, n, g
  <1>. QED  BY <1>1, <1>2, <1>3

\* CombineBackward when at most the segment before s is in a free pair.
LEMMA CombineBackwardEffect ==
  ASSUME NEW h, List(h), NEW s \in DOMAIN h.seg, h.seg[s].free,
         \A t \in DOMAIN h.seg \ {h.seg[s].last} : ~FreePair(h.seg, t)
  PROVE  LET g == CombineBackward(h, s)
             last == h.seg[s].last
         IN  /\ List(g) /\ ListEnd(g) <= ListEnd(h)
             /\ g.heapEnd = h.heapEnd /\ g.usedPages = h.usedPages
             /\ NoFreeNeighbours(g.seg)
             /\ SameBusy(h.seg, g.seg, s)
             /\ s \in DOMAIN g.seg => g.seg[s].free
             /\ s = h.LastHdr =>
                  /\ g.seg[g.LastHdr].free
                  /\ g.seg[g.LastHdr].length >= h.seg[s].length
                  /\ last # NULL /\ h.seg[last].free =>
                       g.seg[g.LastHdr].length = h.seg[last].length + h.seg[s].length + Hdr
  <1>. DEFINE last == h.seg[s].last
              g == CombineBackward(h, s)
  <1>0. /\ Chain(h.seg, h.LastHdr) /\ NULL \notin DOMAIN h.seg
        /\ s \in Nat /\ h.seg[s].length \in Nat \ {0} /\ (last # NULL <=> s # 0)
        /\ last # NULL => last \in DOMAIN h.seg /\ h.seg[last].next = s
                          /\ h.seg[last].length \in Nat \ {0}
        /\ ListEnd(h) \in Nat
    <2>1. IsHeap(h) /\ Chain(h.seg, h.LastHdr)
      BY DEF List
    <2>2. h.LastHdr \in DOMAIN h.seg
      BY <2>1 DEF Chain
    <2>3. /\ NULL \notin DOMAIN h.seg
          /\ s \in Nat /\ h.seg[s].length \in Nat \ {0} /\ (last # NULL <=> s # 0)
          /\ last # NULL => last \in DOMAIN h.seg /\ h.seg[last].next = s
      BY <2>1, InChain
    <2>. QED  BY <2>1, <2>2, <2>3, InChain DEF ListEnd, Hdr
  <1>1. CASE last = NULL \/ ~h.seg[last].free
    <2>1. g = h
      BY <1>1 DEF CombineBackward
    <2>2. \A t \in DOMAIN h.seg : ~FreePair(h.seg, t)
      BY <1>0, <1>1 DEF FreePair
    <2>3. SameBusy(h.seg, h.seg, s)
      BY DEF SameBusy
    <2>4. NoFreeNeighbours(h.seg)
      BY <2>2 DEF NoFreeNeighbours, FreePair
    <2>. HIDE DEF g
    <2>. QED  BY <1>0, <1>1, <2>1, <2>3, <2>4 DEF g
  <1>2. CASE last # NULL /\ h.seg[last].free
    <2>1. g = CombineForward(h, last)
      BY <1>2 DEF CombineBackward
    <2>2. /\ List(g) /\ ListEnd(g) <= ListEnd(h)
          /\ g.heapEnd = h.heapEnd /\ g.usedPages = h.usedPages
          /\ \A t \in DOMAIN g.seg \ {NULL} : ~FreePair(g.seg, t)
          /\ SameBusy(h.seg, g.seg, last)
          /\ last \in DOMAIN g.seg /\ g.seg[last].free
          /\ last # h.LastHdr /\ h.seg[h.seg[last].next].free =>
               g.seg[last].length = h.seg[last].length + h.seg[h.seg[last].next].length + Hdr
          /\ g.LastHdr = IF h.seg[last].next = h.LastHdr /\ h.seg[h.seg[last].next].free
                         THEN last ELSE h.LastHdr
      <3>1. last \in DOMAIN h.seg /\ h.seg[last].next # NULL /\ h.seg[last].free
        BY <1>0, <1>2
      <3>2. \A t \in DOMAIN h.seg \ {last, NULL} : ~FreePair(h.seg, t)
        OBVIOUS
      <3>. HIDE DEF last, g
      <3>. QED  BY <2>1, <3>1, <3>2, CombineForwardEffect
    <2>3. NoFreeNeighbours(g.seg)
      <3>1. NULL \notin DOMAIN g.seg
        <4>. HIDE DEF g
        <4>1. Chain(g.seg, g.LastHdr)
          BY <2>2 DEF List
        <4>. QED  BY <4>1, HeapAssumption DEF Chain, Typed
      <3>. QED  BY <2>2, <3>1 DEF NoFreeNeighbours, FreePair
    <2>6. ~(s \in DOMAIN g.seg /\ ~g.seg[s].free)
      <3>. SUFFICES ASSUME s \in DOMAIN g.seg, ~g.seg[s].free PROVE FALSE
        OBVIOUS
      <3>1. s # last
        BY <2>2
      <3>. QED  BY <2>2, <3>1 DEF SameBusy
    <2>4. SameBusy(h.seg, g.seg, s)
      <3>. HIDE DEF g, last
      <3>. QED  BY <1>2, <2>2, <2>6 DEF SameBusy
    <2>5. ASSUME s = h.LastHdr
          PROVE  /\ g.LastHdr = last /\ last # h.LastHdr
                 /\ g.seg[last].length = h.seg[last].length + h.seg[s].length + Hdr
                 /\ g.seg[last].length >= h.seg[s].length
      <3>1. last # s
        BY <1>0, <1>2, InChain
      <3>. HIDE DEF g, last
      <3>. QED  BY <1>0, <1>2, <2>2, <2>5, <3>1 DEF Hdr
    <2>. HIDE DEF g, last
    <2>. QED  BY <1>2, <2>2, <2>3, <2>4, <2>5, <2>6 DEF g, last
  <1>. QED  BY <1>1, <1>2

\* free leaves a list without free neighbours, and no other block moves.
LEMMA FreedEffect ==
  ASSUME NEW h, List(h), NoFreeNeighbours(h.seg), NEW s \in DOMAIN h.seg
  PROVE  LET g == Freed(h, s)
         IN  /\ List(g) /\ ListEnd(g) <= ListEnd(h)
             /\ g.heapEnd = h.heapEnd /\ g.usedPages = h.usedPages
             /\ NoFreeNeighbours(g.seg)
             /\ SameBusy(h.seg, g.seg, s)
             /\ s \in DOMAIN g.seg => g.seg[s].free
  <1>. DEFINE f == [h EXCEPT !.seg[s].free = TRUE]
              m == CombineForward(f, s)
              g == CombineBackward(m, s)
              p == h.seg[s].last
  <1>1. /\ IsHeap(f) /\ f.seg = Flagged(h.seg, s, TRUE)
        /\ f.LastHdr = h.LastHdr /\ f.heapEnd = h.heapEnd /\ f.usedPages = h.usedPages
    BY FlagEffect DEF List
  <1>2. /\ List(f) /\ DOMAIN f.seg = DOMAIN h.seg
        /\ \A t \in DOMAIN h.seg : /\ f.seg[t].length = h.seg[t].length
                                   /\ f.seg[t].next = h.seg[t].next
                                   /\ f.seg[t].last = h.seg[t].last
                                   /\ f.seg[t].free = IF t = s THEN TRUE ELSE h.seg[t].free
    <2>1. Chain(f.seg, f.LastHdr)
      BY <1>1, FlagChain DEF List
    <2>. HIDE DEF f
    <2>2. ASSUME NEW t \in DOMAIN h.seg
          PROVE  /\ f.seg[t].length = h.seg[t].length /\ f.seg[t].next = h.seg[t].next
                 /\ f.seg[t].last = h.seg[t].last
                 /\ f.seg[t].free = IF t = s THEN TRUE ELSE h.seg[t].free
      <3>1. CASE t = s
        <4>1. f.seg[t] = Header(h.seg[s].length, h.seg[s].next, h.seg[s].last, TRUE)
          BY <1>1, <3>1 DEF Flagged
        <4>. QED  BY <3>1, <4>1 DEF Header
      <3>2. CASE t # s
        <4>1. f.seg[t] = h.seg[t]
          BY <1>1, <3>2 DEF Flagged
        <4>. QED  BY <3>2, <4>1
      <3>. QED  BY <3>1, <3>2
    <2>3. DOMAIN f.seg = DOMAIN h.seg
      BY <1>1 DEF Flagged
    <2>. QED  BY <1>1, <2>1, <2>2, <2>3 DEF List
  <1>. HIDE DEF f
  <1>3. ListEnd(f) = ListEnd(h) /\ ListEnd(h) \in Nat
    <2>1. h.LastHdr \in DOMAIN h.seg /\ f.LastHdr = h.LastHdr
      BY <1>1 DEF List, Chain
    <2>2. f.seg[h.LastHdr].length = h.seg[h.LastHdr].length
      BY <1>2, <2>1
    <2>. QED  BY <2>1, <2>2, ListEndNat DEF ListEnd
  <1>4. /\ p # h.seg[s].next \/ h.seg[s].next = NULL
        /\ \A t \in DOMAIN f.seg \ {s, p} : ~FreePair(f.seg, t)
    <2>1. p # h.seg[s].next \/ h.seg[s].next = NULL
      <3>. SUFFICES ASSUME p = h.seg[s].next, p # NULL PROVE FALSE
        OBVIOUS
      <3>1. p < s /\ s < p /\ p \in Nat /\ s \in Nat
        BY InChain DEF List, Chain, Typed
      <3>. QED  BY <3>1
    <2>2. ASSUME NEW t \in DOMAIN f.seg \ {s, p}, FreePair(f.seg, t) PROVE FALSE
      <3>1. t \in DOMAIN h.seg /\ h.seg[t].free /\ h.seg[t].next # NULL
            /\ f.seg[h.seg[t].next].free
        BY <1>2, <2>2 DEF FreePair
      <3>2. h.seg[t].next \in DOMAIN h.seg /\ h.seg[h.seg[t].next].last = t
        BY <3>1, InChain DEF List
      <3>3. h.seg[t].next # s
        BY <2>2, <3>2
      <3>. QED  BY <1>2, <3>1, <3>2, <3>3 DEF NoFreeNeighbours
    <2>. QED  BY <2>1, <2>2
  <1>5. /\ List(m) /\ ListEnd(m) <= ListEnd(f)
        /\ m.heapEnd = f.heapEnd /\ m.usedPages = f.usedPages
        /\ \A t \in DOMAIN m.seg \ {p} : ~FreePair(m.seg, t)
        /\ SameBusy(f.seg, m.seg, s)
        /\ s \in DOMAIN m.seg /\ m.seg[s].free /\ m.seg[s].last = f.seg[s].last
    <2>1. s \in DOMAIN f.seg /\ f.seg[s].free /\ (p # f.seg[s].next \/ f.seg[s].next = NULL)
      BY <1>2, <1>4
    <2>. HIDE DEF p
    <2>. QED  BY <1>2, <1>4, <2>1, CombineForwardEffect
  <1>. HIDE DEF m
  <1>6. /\ List(g) /\ ListEnd(g) <= ListEnd(m)
        /\ g.heapEnd = m.heapEnd /\ g.usedPages = m.usedPages
        /\ NoFreeNeighbours(g.seg) /\ SameBusy(m.seg, g.seg, s)
        /\ s \in DOMAIN g.seg => g.seg[s].free
    <2>1. \A t \in DOMAIN m.seg \ {m.seg[s].last} : ~FreePair(m.seg, t)
      BY <1>2, <1>5
    <2>. QED  BY <1>5, <2>1, CombineBackwardEffect
  <1>7. Freed(h, s) = g
    BY DEF Freed, f, m
  <1>. HIDE DEF g
  <1>8. ListEnd(m) \in Int /\ ListEnd(g) \in Int
    <2>1. ListEnd(m) \in Nat /\ ListEnd(g) \in Nat
      BY <1>5, <1>6, ListEndNat
    <2>. QED  BY <2>1
  <1>10. SameBusy(h.seg, g.seg, s)
    BY <1>2, <1>5, <1>6 DEF SameBusy
  <1>. QED  BY <1>1, <1>3, <1>5, <1>6, <1>7, <1>8, <1>10 DEF g

LEMMA CutFields ==
  ASSUME NEW seg, NEW L, Chain(seg, L), NEW s \in DOMAIN seg, NEW n \in Nat \ {0},
         seg[s].length - n - Hdr >= 1, NEW new, new = s + n + Hdr, NEW g, g = Cut(seg, s, n)
  PROVE  /\ DOMAIN g = DOMAIN seg \cup {new} /\ new \notin DOMAIN seg /\ new # s
         /\ g[s].length = n /\ g[s].next = new /\ g[s].free = seg[s].free
         /\ g[new].length = seg[s].length - n - Hdr /\ g[new].next = seg[s].next
         /\ g[new].free = seg[s].free
         /\ \A t \in DOMAIN seg \ {s} :
              /\ g[t].length = seg[t].length /\ g[t].next = seg[t].next
              /\ g[t].free = seg[t].free
  <1>. DEFINE nxt == seg[s].next
  <1>1. new \notin DOMAIN seg /\ new # s
    BY CutPlace, InChain
  <1>2. /\ DOMAIN g = DOMAIN seg \cup {new}
        /\ g[new] = Header(seg[s].length - n - Hdr, nxt, s, seg[s].free)
        /\ g[s] = Header(n, new, seg[s].last, seg[s].free)
    BY <1>1 DEF Cut
  <1>3. ASSUME NEW t \in DOMAIN seg \ {s}
        PROVE  /\ g[t].length = seg[t].length /\ g[t].next = seg[t].next
               /\ g[t].free = seg[t].free
    <2>1. g[t] = Relinked(seg, nxt, new)[t]
      BY <1>1 DEF Cut
    <2>2. CASE t = nxt
      <3>1. g[t] = Header(seg[t].length, seg[t].next, new, seg[t].free)
        BY <2>1, <2>2 DEF Relinked
      <3>. QED  BY <3>1 DEF Header
    <2>3. CASE t # nxt
      <3>1. g[t] = seg[t]
        BY <2>1, <2>3 DEF Relinked
      <3>. QED  BY <3>1
    <2>. QED  BY <2>2, <2>3
  <1>4. /\ g[s].length = n /\ g[s].next = new /\ g[s].free = seg[s].free
        /\ g[new].length = seg[s].length - n - Hdr /\ g[new].next = nxt
        /\ g[new].free = seg[s].free
    BY <1>2 DEF Header
  <1>. QED  BY <1>1, <1>2, <1>3, <1>4

LEMMA FlagFields ==
  ASSUME NEW seg, NEW L, Chain(seg, L), NEW s \in DOMAIN seg, NEW free,
         NEW g, g = Flagged(seg, s, free)
  PROVE  /\ DOMAIN g = DOMAIN seg
         /\ g[s].free = free
         /\ \A t \in DOMAIN seg :
              /\ g[t].length = seg[t].length /\ g[t].next = seg[t].next
              /\ g[t].last = seg[t].last
              /\ t # s => g[t].free = seg[t].free
  <1>1. ASSUME NEW t \in DOMAIN seg
        PROVE  /\ g[t].length = seg[t].length /\ g[t].next = seg[t].next
               /\ g[t].last = seg[t].last
               /\ t = s => g[t].free = free
               /\ t # s => g[t].free = seg[t].free
    <2>1. CASE t = s
      <3>1. g[t] = Header(seg[s].length, seg[s].next, seg[s].last, free)
        BY <2>1 DEF Flagged
      <3>. QED  BY <2>1, <3>1 DEF Header
    <2>2. CASE t # s
      <3>1. g[t] = seg[t]
        BY <2>2 DEF Flagged
      <3>. QED  BY <2>2, <3>1
    <2>. QED  BY <2>1, <2>2
  <1>2. DOMAIN g = DOMAIN seg
    BY DEF Flagged
  <1>. QED  BY <1>1, <1>2

\* malloc takes a free segment, cutting off what it does not need.
LEMMA TakenEffect ==
  ASSUME NEW h, List(h), NoFreeNeighbours(h.seg), NEW s \in DOMAIN h.seg, h.seg[s].free,
         NEW n \in Nat \ {0}
  PROVE  LET g == Taken(h, s, n)
         IN  /\ List(g) /\ ListEnd(g) <= ListEnd(h)
             /\ g.heapEnd = h.heapEnd /\ g.usedPages = h.usedPages
             /\ NoFreeNeighbours(g.seg)
             /\ SameBusy(h.seg, g.seg, s)
             /\ s \in DOMAIN g.seg /\ ~g.seg[s].free
             /\ g.seg[s].length = IF CurSize(h, s) > n /\ h.seg[s].length - n - Hdr >= 1
                                  THEN n ELSE h.seg[s].length
  <1>. DEFINE cutting == CurSize(h, s) > n /\ h.seg[s].length - n - Hdr >= 1
              cut == IF CurSize(h, s) > n THEN Split(h, s, n) ELSE h
              g == [cut EXCEPT !.seg[s].free = FALSE]
  <1>0. /\ IsHeap(h) /\ Chain(h.seg, h.LastHdr) /\ h.LastHdr \in DOMAIN h.seg
        /\ h.seg[s].length \in Nat /\ ListEnd(h) \in Nat
        /\ \A t \in DOMAIN h.seg : ~FreePair(h.seg, t)
    BY InChain, ListEndNat DEF List, Chain, NoFreeNeighbours, FreePair
  <1>1. /\ List(cut) /\ ListEnd(cut) <= ListEnd(h)
        /\ cut.heapEnd = h.heapEnd /\ cut.usedPages = h.usedPages
        /\ SameBusy(h.seg, cut.seg, s)
        /\ s \in DOMAIN cut.seg
        /\ \A t \in DOMAIN cut.seg \ {s} : ~FreePair(cut.seg, t)
        /\ cut.seg[s].length = IF cutting THEN n ELSE h.seg[s].length
    <2>1. CASE cutting
      <3>. DEFINE new == s + n + Hdr
      <3>1. /\ cut = Split(h, s, n) /\ IsHeap(cut) /\ cut.seg = Cut(h.seg, s, n)
            /\ cut.LastHdr = IF s = h.LastHdr THEN new ELSE h.LastHdr
            /\ cut.heapEnd = h.heapEnd /\ cut.usedPages = h.usedPages
        BY <1>0, <2>1, SplitEffect
      <3>2. Chain(cut.seg, cut.LastHdr)
        BY <1>0, <2>1, <3>1, CutChain
      <3>. HIDE DEF cut
      <3>3. /\ DOMAIN cut.seg = DOMAIN h.seg \cup {new} /\ new \notin DOMAIN h.seg /\ new # s
            /\ cut.seg[s].length = n /\ cut.seg[s].next = new
            /\ cut.seg[s].free = h.seg[s].free
            /\ cut.seg[new].length = h.seg[s].length - n - Hdr
            /\ cut.seg[new].next = h.seg[s].next
            /\ cut.seg[new].free = h.seg[s].free
            /\ \A t \in DOMAIN h.seg \ {s} :
                 /\ cut.seg[t].length = h.seg[t].length /\ cut.seg[t].next = h.seg[t].next
                 /\ cut.seg[t].free = h.seg[t].free
        <4>. DEFINE seg == h.seg
        <4>1. /\ Chain(seg, h.LastHdr) /\ s \in DOMAIN seg /\ seg[s].length - n - Hdr >= 1
              /\ cut.seg = Cut(seg, s, n)
          BY <1>0, <2>1, <3>1
        <4>. HIDE DEF seg, cutting
        <4>2. /\ DOMAIN cut.seg = DOMAIN seg \cup {new} /\ new \notin DOMAIN seg /\ new # s
              /\ cut.seg[s].length = n /\ cut.seg[s].next = new
              /\ cut.seg[s].free = seg[s].free
              /\ cut.seg[new].length = seg[s].length - n - Hdr
              /\ cut.seg[new].next = seg[s].next
              /\ cut.seg[new].free = seg[s].free
              /\ \A t \in DOMAIN seg \ {s} :
                   /\ cut.seg[t].length = seg[t].length /\ cut.seg[t].next = seg[t].next
                   /\ cut.seg[t].free = seg[t].free
          BY <4>1, CutFields
        <4>. QED  BY <4>2 DEF seg
      <3>4. ListEnd(cut) <= ListEnd(h)
        <4>1. CASE s = h.LastHdr
          BY <1>0, <3>1, <3>3, <4>1, InChain DEF ListEnd, Hdr
        <4>2. CASE s # h.LastHdr
          <5>1. cut.seg[h.LastHdr].length = h.seg[h.LastHdr].length
            BY <1>0, <3>3, <4>2
          <5>. QED  BY <1>0, <3>1, <4>2, <5>1 DEF ListEnd
        <4>. QED  BY <4>1, <4>2
      <3>. HIDE DEF new, cutting
      <3>5. SameBusy(h.seg, cut.seg, s)
        BY <3>3 DEF SameBusy
      <3>6. ASSUME NEW t \in DOMAIN cut.seg \ {s}, FreePair(cut.seg, t) PROVE FALSE
        <4>1. CASE t = new
          <5>1. /\ h.seg[s].free /\ h.seg[s].next # NULL /\ cut.seg[h.seg[s].next].free
                /\ h.seg[s].next \in DOMAIN h.seg \ {s}
            BY <1>0, <3>3, <3>6, <4>1, InChain DEF FreePair
          <5>2. h.seg[h.seg[s].next].free
            BY <3>3, <5>1
          <5>. QED  BY <1>0, <5>1, <5>2 DEF FreePair
        <4>2. CASE t # new
          <5>1. /\ t \in DOMAIN h.seg /\ h.seg[t].free /\ h.seg[t].next # NULL
                /\ cut.seg[h.seg[t].next].free
            BY <3>3, <3>6, <4>2 DEF FreePair
          <5>2. h.seg[t].next \in DOMAIN h.seg
            BY <1>0, <5>1, InChain
          <5>3. h.seg[h.seg[t].next].free
            BY <3>3, <5>1, <5>2
          <5>. QED  BY <1>0, <5>1, <5>3 DEF FreePair
        <4>. QED  BY <4>1, <4>2
      <3>. QED  BY <2>1, <3>1, <3>2, <3>3, <3>4, <3>5, <3>6 DEF List
    <2>2. CASE ~cutting
      <3>1. cut = h
        <4>1. CASE CurSize(h, s) > n
          <5>1. h.seg[s].length - n - Hdr < 1
            BY <1>0, <2>2, <4>1 DEF Hdr
          <5>. QED  BY <4>1, <5>1 DEF Split
        <4>. QED  BY <4>1
      <3>2. SameBusy(h.seg, h.seg, s)
        BY DEF SameBusy
      <3>. HIDE DEF cut, cutting
      <3>. QED  BY <1>0, <2>2, <3>1, <3>2
    <2>. HIDE DEF cut, cutting
    <2>. QED  BY <2>1, <2>2
  <1>. HIDE DEF cut, cutting
  <1>2. /\ IsHeap(g) /\ g.seg = Flagged(cut.seg, s, FALSE)
        /\ g.LastHdr = cut.LastHdr /\ g.heapEnd = cut.heapEnd /\ g.usedPages = cut.usedPages
    <2>1. IsHeap(cut) /\ Chain(cut.seg, cut.LastHdr) /\ s \in DOMAIN cut.seg
      BY <1>1 DEF List
    <2>. QED  BY <2>1, FlagEffect
  <1>. HIDE DEF g
  <1>3. /\ Chain(g.seg, g.LastHdr) /\ DOMAIN g.seg = DOMAIN cut.seg
        /\ \A t \in DOMAIN cut.seg :
             /\ g.seg[t].length = cut.seg[t].length /\ g.seg[t].next = cut.seg[t].next
             /\ t = s => ~g.seg[t].free
             /\ t # s => g.seg[t].free = cut.seg[t].free
    <2>. DEFINE seg == cut.seg
    <2>1. Chain(seg, cut.LastHdr) /\ s \in DOMAIN seg
      BY <1>1 DEF List
    <2>. HIDE DEF seg
    <2>2. g.seg = Flagged(seg, s, FALSE) /\ g.LastHdr = cut.LastHdr
      BY <1>2 DEF seg
    <2>3. Chain(g.seg, g.LastHdr)
      BY <2>1, <2>2, FlagChain
    <2>4. /\ DOMAIN g.seg = DOMAIN seg
          /\ \A t \in DOMAIN seg :
               /\ g.seg[t].length = seg[t].length /\ g.seg[t].next = seg[t].next
               /\ t = s => ~g.seg[t].free
               /\ t # s => g.seg[t].free = seg[t].free
      <3>. DEFINE no == FALSE
      <3>1. g.seg = Flagged(seg, s, no)
        BY <2>2
      <3>. HIDE DEF no
      <3>2. /\ DOMAIN g.seg = DOMAIN seg
            /\ g.seg[s].free = no
            /\ \A t \in DOMAIN seg :
                 /\ g.seg[t].length = seg[t].length /\ g.seg[t].next = seg[t].next
                 /\ t # s => g.seg[t].free = seg[t].free
        BY <2>1, <3>1, FlagFields
      <3>. QED  BY <3>2 DEF no
    <2>. QED  BY <2>3, <2>4 DEF seg
  <1>4. ListEnd(g) = ListEnd(cut)
    <2>1. cut.LastHdr \in DOMAIN cut.seg
      BY <1>1 DEF List, Chain
    <2>2. g.LastHdr = cut.LastHdr
      BY <1>2
    <2>3. g.seg[cut.LastHdr].length = cut.seg[cut.LastHdr].length
      BY <1>3, <2>1
    <2>. QED  BY <2>2, <2>3 DEF ListEnd
  <1>5. NoFreeNeighbours(g.seg)
    <2>1. ASSUME NEW t \in DOMAIN g.seg, FreePair(g.seg, t) PROVE FALSE
      <3>1. /\ t \in DOMAIN cut.seg \ {s} /\ cut.seg[t].free /\ cut.seg[t].next # NULL
            /\ g.seg[cut.seg[t].next].free
        BY <1>3, <2>1 DEF FreePair
      <3>2. cut.seg[t].next \in DOMAIN cut.seg
        BY <1>1, <3>1, InChain DEF List
      <3>3. cut.seg[cut.seg[t].next].free
        BY <1>3, <3>1, <3>2
      <3>. QED  BY <1>1, <3>1, <3>3 DEF FreePair
    <2>. QED  BY <2>1 DEF NoFreeNeighbours, FreePair
  <1>6. SameBusy(h.seg, g.seg, s)
    BY <1>1, <1>3 DEF SameBusy
  <1>7. Taken(h, s, n) = g
    BY DEF Taken, g, cut
  <1>. QED  BY <1>1, <1>2, <1>3, <1>4, <1>5, <1>6, <1>7 DEF List, cutting

\* ExpandHeap before it combines: a free segment behind the last one.
Extension(h, s, length) ==
  LET linked == [h EXCEPT !.seg[h.LastHdr].next = s, !.LastHdr = s]
  IN  AddHeader(linked, s, Header(length, NULL, h.LastHdr, TRUE))

Extended(seg, L, s, length) ==
  [t \in DOMAIN seg \cup {s} |->
     IF t = s THEN Header(length, NULL, L, TRUE)
     ELSE IF t = L THEN Header(seg[L].length, s, seg[L].last, seg[L].free)
     ELSE seg[t]]

LEMMA ExtendEffect ==
  ASSUME NEW h, IsHeap(h), Chain(h.seg, h.LastHdr), NEW s \in Nat, s \notin DOMAIN h.seg,
         NEW length, NEW g, g = Extension(h, s, length)
  PROVE  /\ IsHeap(g)
         /\ g.seg = Extended(h.seg, h.LastHdr, s, length)
         /\ g.LastHdr = s /\ g.heapEnd = h.heapEnd /\ g.usedPages = h.usedPages
  <1>. DEFINE L == h.LastHdr
              seg1 == [h.seg EXCEPT ![L].next = s]
              h1 == [h EXCEPT !.seg = seg1]
              header == Header(length, NULL, L, TRUE)
              linked == [h EXCEPT !.seg[h.LastHdr].next = s, !.LastHdr = s]
  <1>0. g = AddHeader(linked, s, header)
    BY DEF Extension
  <1>1. L \in DOMAIN h.seg /\ Header4(h.seg[L])
    BY InChain DEF Chain
  <1>2. linked = [h1 EXCEPT !.LastHdr = s]
    OBVIOUS
  <1>3. seg1 = [t \in DOMAIN h.seg |->
                  IF t = L THEN Header(h.seg[L].length, s, h.seg[L].last, h.seg[L].free)
                  ELSE h.seg[t]]
    <2>1. [h.seg[L] EXCEPT !.next = s]
            = Header(h.seg[L].length, s, h.seg[L].last, h.seg[L].free)
      <3>. DEFINE r == h.seg[L]
      <3>1. Header4(r)
        BY <1>1
      <3>. HIDE DEF r
      <3>2. [r EXCEPT !.next = s] = Header(r.length, s, r.last, r.free)
        BY <3>1, HeaderFields
      <3>. QED  BY <3>2 DEF r
    <2>2. h.seg = [t \in DOMAIN h.seg |-> h.seg[t]]
      BY DEF Chain, Typed
    <2>. HIDE DEF L
    <2>. QED  BY <2>1, <2>2, FunctionUpdate
  <1>. HIDE DEF seg1
  <1>4. /\ IsHeap(h1) /\ h1.seg = seg1 /\ h1.LastHdr = L
        /\ h1.heapEnd = h.heapEnd /\ h1.usedPages = h.usedPages
    BY Fields DEF IsHeap
  <1>. HIDE DEF h1, header, linked
  <1>5. /\ IsHeap(linked) /\ linked.seg = seg1 /\ linked.LastHdr = s
        /\ linked.heapEnd = h.heapEnd /\ linked.usedPages = h.usedPages
    BY <1>2, <1>4, Fields DEF IsHeap
  <1>6. /\ IsHeap(g) /\ g.LastHdr = s
        /\ g.heapEnd = h.heapEnd /\ g.usedPages = h.usedPages
        /\ g.seg = [t \in DOMAIN h.seg \cup {s} |-> IF t = s THEN header ELSE seg1[t]]
    <2>1. DOMAIN linked.seg = DOMAIN h.seg
      BY <1>3, <1>5
    <2>. DEFINE seg2 == [t \in DOMAIN h.seg \cup {s} |-> IF t = s THEN header ELSE seg1[t]]
    <2>2. g = [linked EXCEPT !.seg = seg2]
      BY <1>0, <1>5, <2>1 DEF AddHeader
    <2>. HIDE DEF seg2
    <2>3. /\ IsHeap(g) /\ g.LastHdr = s /\ g.seg = seg2
          /\ g.heapEnd = h.heapEnd /\ g.usedPages = h.usedPages
      BY <1>5, <2>2, Fields DEF IsHeap
    <2>. QED  BY <2>3 DEF seg2
  <1>7. g.seg = Extended(h.seg, L, s, length)
    <2>. HIDE DEF L
    <2>. QED  BY <1>3, <1>6 DEF Extended, header
  <1>. QED  BY <1>6, <1>7

LEMMA ExtendFields ==
  ASSUME NEW seg, NEW L, Chain(seg, L), NEW s \in Nat, s >= L + Hdr + seg[L].length,
         NEW length \in Nat \ {0}, NEW g, g = Extended(seg, L, s, length)
  PROVE  /\ s \notin DOMAIN seg /\ L < s /\ DOMAIN g = DOMAIN seg \cup {s}
         /\ g[s].length = length /\ g[s].next = NULL /\ g[s].last = L /\ g[s].free
         /\ Header4(g[s])
         /\ g[L].next = s
         /\ \A t \in DOMAIN seg :
              /\ g[t].length = seg[t].length /\ g[t].free = seg[t].free
              /\ g[t].last = seg[t].last /\ Header4(g[t])
              /\ t # L => g[t].next = seg[t].next
  <1>1. L \in DOMAIN seg /\ L \in Nat /\ seg[L].length \in Nat
    BY InChain DEF Chain
  <1>2. \A t \in DOMAIN seg : t \in Nat /\ t <= L
    BY UpToLast
  <1>3. s \notin DOMAIN seg /\ L < s
    BY <1>1, <1>2 DEF Hdr
  <1>4. DOMAIN g = DOMAIN seg \cup {s} /\ g[s] = Header(length, NULL, L, TRUE)
    BY <1>3 DEF Extended
  <1>5. g[L] = Header(seg[L].length, s, seg[L].last, seg[L].free)
    BY <1>1, <1>3 DEF Extended
  <1>6. ASSUME NEW t \in DOMAIN seg
        PROVE  /\ g[t].length = seg[t].length /\ g[t].free = seg[t].free
               /\ g[t].last = seg[t].last /\ Header4(g[t])
               /\ t # L => g[t].next = seg[t].next
    <2>1. CASE t = L
      BY <1>5, <2>1 DEF Header, Header4
    <2>2. CASE t # L
      <3>1. g[t] = seg[t]
        BY <1>3, <2>2 DEF Extended
      <3>2. Header4(seg[t])
        BY InChain
      <3>. QED  BY <3>1, <3>2
    <2>. QED  BY <2>1, <2>2
  <1>7. g[L].next = s
    BY <1>5 DEF Header
  <1>8. /\ g[s].length = length /\ g[s].next = NULL /\ g[s].last = L /\ g[s].free
        /\ Header4(g[s])
    BY <1>4 DEF Header, Header4
  <1>. QED  BY <1>3, <1>4, <1>6, <1>7, <1>8

LEMMA ExtendChain ==
  ASSUME NEW seg, NEW L, Chain(seg, L), NEW s \in Nat, s >= L + Hdr + seg[L].length,
         NEW length \in Nat \ {0}, NEW g, g = Extended(seg, L, s, length)
  PROVE  Chain(g, s)
  <1>1. /\ s \notin DOMAIN seg /\ L < s /\ DOMAIN g = DOMAIN seg \cup {s}
        /\ g[s].length = length /\ g[s].next = NULL /\ g[s].last = L /\ g[s].free
        /\ Header4(g[s])
        /\ g[L].next = s
        /\ \A t \in DOMAIN seg :
             /\ g[t].length = seg[t].length /\ g[t].free = seg[t].free
             /\ g[t].last = seg[t].last /\ Header4(g[t])
             /\ t # L => g[t].next = seg[t].next
    BY ExtendFields
  <1>2. /\ g[s].length = length /\ g[s].next = NULL /\ g[s].last = L /\ g[s].free
        /\ Header4(g[s])
    BY <1>1
  <1>3. L \in DOMAIN seg /\ L \in Nat /\ s # 0
    <2>1. L \in DOMAIN seg /\ L \in Nat
      BY InChain DEF Chain
    <2>. QED  BY <1>1, <2>1
  <1>4. Typed(g)
    <2>1. g = [t \in DOMAIN g |-> g[t]]
      BY DEF Extended
    <2>2. ASSUME NEW t \in DOMAIN g
          PROVE  /\ t \in Nat /\ Header4(g[t]) /\ g[t].length \in Nat \ {0}
                 /\ g[t].free \in BOOLEAN
      <3>1. CASE t = s
        <4>1. g[s].free = TRUE
          <5>1. g[s] = Header(length, NULL, L, TRUE)
            BY <1>1 DEF Extended
          <5>. QED  BY <5>1 DEF Header
        <4>. QED  BY <1>2, <3>1, <4>1
      <3>2. CASE t \in DOMAIN seg
        BY <1>1, <3>2, InChain
      <3>. QED  BY <1>1, <3>1, <3>2
    <2>. QED  BY <2>1, <2>2 DEF Typed
  <1>5. Forward(g, s)
    <2>. SUFFICES ASSUME NEW t \in DOMAIN g
                  PROVE  IF t = s THEN g[t].next = NULL
                         ELSE /\ g[t].next \in DOMAIN g /\ g[g[t].next].last = t
                              /\ t + Hdr + g[t].length <= g[t].next
      BY DEF Forward
    <2>1. CASE t = s
      BY <1>2, <2>1
    <2>2. CASE t = L
      BY <1>1, <1>2, <1>3, <2>2
    <2>3. CASE t \in DOMAIN seg \ {L}
      <3>1. /\ seg[t].next \in DOMAIN seg /\ seg[seg[t].next].last = t
            /\ t + Hdr + seg[t].length <= seg[t].next
        BY <2>3, InChain
      <3>. QED  BY <1>1, <2>3, <3>1
    <2>. QED  BY <1>1, <2>1, <2>2, <2>3
  <1>6. Backward(g)
    <2>. SUFFICES ASSUME NEW t \in DOMAIN g
                  PROVE  IF t = 0 THEN g[t].last = NULL
                         ELSE g[t].last \in DOMAIN g /\ g[g[t].last].next = t
      BY DEF Backward
    <2>1. CASE t = s
      BY <1>1, <1>2, <1>3, <2>1
    <2>2. CASE t \in DOMAIN seg
      <3>1. CASE t = 0
        BY <1>1, <2>2, <3>1, InChain
      <3>2. CASE t # 0
        <4>1. seg[t].last \in DOMAIN seg /\ seg[seg[t].last].next = t
          BY <2>2, <3>2, InChain
        <4>2. seg[t].last # L
          BY <2>2, <4>1, InChain
        <4>. QED  BY <1>1, <2>2, <3>2, <4>1, <4>2
      <3>. QED  BY <3>1, <3>2
    <2>. QED  BY <1>1, <2>1, <2>2
  <1>7. Ordered(g, s)
    <2>. SUFFICES ASSUME NEW t \in DOMAIN g, NEW u \in DOMAIN g, t < u
                  PROVE  t # s /\ g[t].next <= u
      BY DEF Ordered
    <2>1. \A v \in DOMAIN seg : v \in Nat /\ v <= L
      BY UpToLast
    <2>2. t # s
      BY <1>1, <1>3, <2>1
    <2>3. t \in DOMAIN seg
      BY <1>1, <2>2
    <2>4. CASE t = L
      BY <1>1, <1>3, <2>1, <2>4
    <2>5. CASE t # L
      <3>1. g[t].next = seg[t].next /\ seg[t].next \in DOMAIN seg
        BY <1>1, <2>3, <2>5, InChain
      <3>2. CASE u = s
        BY <1>1, <1>3, <2>1, <2>2, <3>1, <3>2
      <3>3. CASE u \in DOMAIN seg
        BY <2>2, <2>3, <3>1, <3>3, InChain
      <3>. QED  BY <1>1, <3>2, <3>3
    <2>. QED  BY <2>2, <2>4, <2>5
  <1>8. 0 \in DOMAIN g /\ s \in DOMAIN g
    BY <1>1 DEF Chain
  <1>. QED  BY <1>4, <1>5, <1>6, <1>7, <1>8 DEF Chain

LEMMA PagesLength ==
  ASSUME NEW pages \in Nat \ {0}
  PROVE  pages * PageUnits \in Nat /\ pages * PageUnits >= PageUnits
         /\ pages * PageUnits - Hdr \in Nat \ {0}
  <1>1. PageUnits \in Nat /\ PageUnits > 4
    BY HeapAssumption DEF Hdr
  <1>2. pages * PageUnits \in Nat
    BY <1>1
  <1>3. pages * PageUnits >= PageUnits
    BY <1>1
  <1>. QED  BY <1>1, <1>2, <1>3 DEF Hdr

\* ExpandHeap's new pages join the free segment at the end, if there is one.
LEMMA AppendedEffect ==
  ASSUME NEW h, List(h), NoFreeNeighbours(h.seg), NEW s \in Nat, s >= ListEnd(h),
         NEW pages \in Nat \ {0}
  PROVE  LET g == Appended(h, s, pages)
         IN  /\ List(g) /\ ListEnd(g) <= s + pages * PageUnits
             /\ g.heapEnd = h.heapEnd /\ g.usedPages = h.usedPages
             /\ NoFreeNeighbours(g.seg)
             /\ SameBusy(h.seg, g.seg, s)
             /\ s \notin DOMAIN h.seg /\ (s \in DOMAIN g.seg => g.seg[s].free)
             /\ g.seg[g.LastHdr].free
             /\ g.seg[g.LastHdr].length >= pages * PageUnits - Hdr
             /\ h.seg[h.LastHdr].free =>
                  g.seg[g.LastHdr].length = h.seg[h.LastHdr].length + pages * PageUnits
  <1>0. PICK length \in Nat \ {0} : length = pages * PageUnits - Hdr
    BY PagesLength
  <1>. DEFINE L == h.LastHdr
              f == Extension(h, s, length)
              g == CombineBackward(f, s)
  <1>1. pages * PageUnits \in Nat
    BY PagesLength
  <1>2. /\ IsHeap(h) /\ Chain(h.seg, L) /\ s >= L + Hdr + h.seg[L].length
        /\ L \in DOMAIN h.seg /\ NULL \notin DOMAIN h.seg /\ h.seg[L].next = NULL
    BY InChain DEF List, ListEnd, Chain
  <1>3. s \notin DOMAIN h.seg
    <2>1. \A t \in DOMAIN h.seg : t \in Nat /\ t <= L
      BY <1>2, UpToLast
    <2>2. L \in Nat /\ h.seg[L].length \in Nat
      BY <1>2, InChain
    <2>. QED  BY <1>2, <2>1, <2>2 DEF Hdr
  <1>4. /\ IsHeap(f) /\ f.seg = Extended(h.seg, L, s, length)
        /\ f.LastHdr = s /\ f.heapEnd = h.heapEnd /\ f.usedPages = h.usedPages
    BY <1>2, <1>3, ExtendEffect
  <1>. HIDE DEF f
  <1>5. Chain(f.seg, s)
    BY <1>1, <1>2, <1>4, ExtendChain
  <1>6. /\ L < s /\ DOMAIN f.seg = DOMAIN h.seg \cup {s}
        /\ f.seg[s].length = length /\ f.seg[s].next = NULL /\ f.seg[s].last = L
        /\ f.seg[s].free
        /\ f.seg[L].next = s
        /\ \A t \in DOMAIN h.seg :
             /\ f.seg[t].length = h.seg[t].length /\ f.seg[t].free = h.seg[t].free
             /\ t # L => f.seg[t].next = h.seg[t].next
    <2>1. PICK seg, K, e : seg = h.seg /\ K = L /\ e = f.seg
      OBVIOUS
    <2>2. Chain(seg, K) /\ s >= K + Hdr + seg[K].length /\ e = Extended(seg, K, s, length)
      BY <1>2, <1>4, <2>1
    <2>3. /\ K < s /\ DOMAIN e = DOMAIN seg \cup {s}
          /\ e[s].length = length /\ e[s].next = NULL /\ e[s].last = K /\ e[s].free
          /\ e[K].next = s
          /\ \A t \in DOMAIN seg :
               /\ e[t].length = seg[t].length /\ e[t].free = seg[t].free
               /\ t # K => e[t].next = seg[t].next
      BY <2>2, ExtendFields
    <2>. QED  BY <2>1, <2>3
  <1>7. List(f)
    BY <1>4, <1>5 DEF List
  <1>8. \A t \in DOMAIN f.seg \ {f.seg[s].last} : ~FreePair(f.seg, t)
    <2>1. ASSUME NEW t \in DOMAIN f.seg \ {L}, FreePair(f.seg, t) PROVE FALSE
      <3>1. t # s
        BY <1>6, <2>1 DEF FreePair
      <3>2. /\ t \in DOMAIN h.seg /\ h.seg[t].free /\ h.seg[t].next # NULL
            /\ f.seg[h.seg[t].next].free
        BY <1>6, <2>1, <3>1 DEF FreePair
      <3>3. h.seg[t].next \in DOMAIN h.seg
        BY <1>2, <3>2, InChain
      <3>. QED  BY <1>6, <3>2, <3>3 DEF NoFreeNeighbours
    <2>. QED  BY <1>6, <2>1
  <1>9. /\ List(g) /\ ListEnd(g) <= ListEnd(f)
        /\ g.heapEnd = f.heapEnd /\ g.usedPages = f.usedPages
        /\ NoFreeNeighbours(g.seg)
        /\ SameBusy(f.seg, g.seg, s)
        /\ s \in DOMAIN g.seg => g.seg[s].free
        /\ g.seg[g.LastHdr].free
        /\ g.seg[g.LastHdr].length >= length
        /\ f.seg[L].free => g.seg[g.LastHdr].length = f.seg[L].length + length + Hdr
    <2>1. s \in DOMAIN f.seg /\ s = f.LastHdr /\ L # NULL
      BY <1>2, <1>4, <1>6
    <2>. HIDE DEF g, L
    <2>2. LET last == f.seg[s].last
          IN  /\ List(g) /\ ListEnd(g) <= ListEnd(f)
              /\ g.heapEnd = f.heapEnd /\ g.usedPages = f.usedPages
              /\ NoFreeNeighbours(g.seg)
              /\ SameBusy(f.seg, g.seg, s)
              /\ s \in DOMAIN g.seg => g.seg[s].free
              /\ g.seg[g.LastHdr].free
              /\ g.seg[g.LastHdr].length >= f.seg[s].length
              /\ last # NULL /\ f.seg[last].free =>
                   g.seg[g.LastHdr].length = f.seg[last].length + f.seg[s].length + Hdr
      BY <1>6, <1>7, <1>8, <2>1, CombineBackwardEffect DEF g
    <2>. QED  BY <1>6, <2>1, <2>2
  <1>10. Appended(h, s, pages) = g
    BY <1>0 DEF Appended, f, Extension
  <1>11. ListEnd(f) = s + pages * PageUnits
    BY <1>0, <1>1, <1>4, <1>6 DEF ListEnd, Hdr
  <1>12. SameBusy(h.seg, g.seg, s)
    BY <1>3, <1>6, <1>9 DEF SameBusy
  <1>13. h.seg[L].free => g.seg[g.LastHdr].length = h.seg[L].length + pages * PageUnits
    <2>1. h.seg[L].length \in Nat
      BY <1>2, InChain
    <2>. QED  BY <1>0, <1>1, <1>2, <1>6, <1>9, <2>1 DEF Hdr
  <1>. HIDE DEF g
  <1>. QED  BY <1>0, <1>3, <1>4, <1>9, <1>10, <1>11, <1>12, <1>13

-----------------------------------------------------------------------------
(* The inductive invariant.                                                *)

Started == pc \notin {"boot", "panic"}
InCall == pc \in {"search", "expand"}

\* The heap is a list of segments that ends before the pages mapped for it do.
ListInv ==
  /\ IsHeap(heap)
  /\ heap.usedPages \in Nat /\ heap.usedPages <= MaxPages
  /\ heap.heapEnd = heap.usedPages * PageUnits
  /\ ~Started => heap = NoHeap
  /\ Started => /\ List(heap) /\ NoFreeNeighbours(heap.seg)
                /\ ListEnd(heap) <= heap.heapEnd

\* What a call is doing: searching the list, or mapping pages behind its end.
CallInv ==
  /\ pc \in {"boot", "panic", "idle", "search", "expand", "smashed"}
  /\ IF InCall THEN call \in [op : {"malloc", "calloc"}, size : Sizes] ELSE call = NoCall
  /\ currentSeg \in Nat
  /\ pc = "search" => currentSeg \in DOMAIN heap.seg
  /\ ~InCall => currentSeg = 0
  /\ lost \in Nat
  /\ IF pc = "expand"
     THEN /\ expansion \in [newSegment : Nat, todo : Nat]
          /\ ListEnd(heap) <= expansion.newSegment
          /\ expansion.newSegment <= heap.heapEnd
          /\ heap.heapEnd + expansion.todo * PageUnits
               = expansion.newSegment + PagesFor(call.size) * PageUnits
     ELSE expansion = NoExpansion

\* The segments in use are the blocks handed out.
LiveInv ==
  /\ live = [b \in DOMAIN live |-> live[b]]
  /\ {s \in DOMAIN heap.seg : ~heap.seg[s].free} = DOMAIN live
  /\ \A b \in DOMAIN live :
       /\ live[b] \in Sizes
       /\ heap.seg[b].length <= live[b] + Hdr
       /\ heap.seg[b].length >= live[b] \/ heap.seg[b].length < Hdr

\* After one expansion the last segment holds the request without its header,
\* after two it holds both.
Grown(n) ==
  LET last == heap.seg[heap.LastHdr] IN
  /\ n \in 0 .. 2
  /\ n >= 1 => last.free /\ last.length >= PagesFor(call.size) * PageUnits - Hdr
  /\ n = 2 => last.length >= call.size + Hdr

ExpansionInv ==
  /\ expansions \in Nat
  /\ ~InCall => expansions = 0
  /\ pc = "search" => Grown(expansions)
  /\ pc = "expand" => expansions \in {1, 2} /\ Grown(expansions - 1)

HeapInv == ListInv /\ CallInv /\ LiveInv /\ ExpansionInv

-----------------------------------------------------------------------------
(* Arithmetic of pages and sizes.                                          *)

LEMMA PagesForSize ==
  ASSUME NEW n \in Nat \ {0}
  PROVE  PagesFor(n) \in Nat \ {0} /\ PagesFor(n) * PageUnits >= n
  <1>. DEFINE m == n + PageUnits - 1
              q == m \div PageUnits
  <1>1. PageUnits \in Nat /\ PageUnits > 4
    BY HeapAssumption DEF Hdr
  <1>2. m \in Nat /\ m >= PageUnits /\ n = m - PageUnits + 1
    BY <1>1
  <1>. HIDE DEF m
  <1>3. q \in Int /\ q * PageUnits <= m /\ m < (q + 1) * PageUnits
    BY <1>1, <1>2
  <1>. HIDE DEF q
  <1>4. (q + 1) * PageUnits = q * PageUnits + PageUnits
    BY <1>1, <1>3
  <1>5. q >= 1
    <2>1. ASSUME q <= 0 PROVE FALSE
      <3>1. (q + 1) * PageUnits <= PageUnits
        BY <1>1, <1>3, <2>1
      <3>. QED  BY <1>1, <1>2, <1>3, <3>1
    <2>. QED  BY <1>3, <2>1
  <1>6. q * PageUnits \in Int
    BY <1>1, <1>3
  <1>7. q * PageUnits >= n
    BY <1>1, <1>2, <1>3, <1>4, <1>6
  <1>. QED  BY <1>3, <1>5, <1>7 DEF PagesFor, q, m

LEMMA PagesBound ==
  ASSUME NEW used \in Nat, used <= MaxPages
  PROVE  used * PageUnits \in Nat /\ used * PageUnits < SizeSpan
  <1>1. PageUnits \in Nat /\ MaxPages \in Nat /\ SizeSpan \in Nat
        /\ SizeSpan > MaxPages * PageUnits
    BY HeapAssumption
  <1>2. used * PageUnits <= MaxPages * PageUnits
    BY <1>1
  <1>3. used * PageUnits \in Nat /\ MaxPages * PageUnits \in Nat
    BY <1>1
  <1>. QED  BY <1>1, <1>2, <1>3

\* malloc's subtraction only wraps on a segment shorter than a header.
LEMMA NoWrap ==
  ASSUME NEW length \in Nat, length >= Hdr, length < SizeSpan
  PROVE  (length - Hdr) % SizeSpan = length - Hdr
  <1>1. SizeSpan \in Nat /\ SizeSpan > 0
    BY HeapAssumption, PagesBound
  <1>2. length - Hdr \in Nat /\ length - Hdr < SizeSpan
    BY <1>1 DEF Hdr
  <1>. QED  BY <1>1, <1>2

-----------------------------------------------------------------------------
(* Every action preserves the invariant.                                   *)

LEMMA SegmentBounds ==
  ASSUME ListInv, Started, NEW s \in DOMAIN heap.seg
  PROVE  /\ heap.seg[s].length \in Nat \ {0} /\ heap.seg[s].length < SizeSpan
         /\ s \in Nat /\ heap.seg[s].free \in BOOLEAN
         /\ heap.LastHdr \in DOMAIN heap.seg
  <1>1. Chain(heap.seg, heap.LastHdr) /\ List(heap)
    BY DEF ListInv, List
  <1>2. /\ s + Hdr + heap.seg[s].length <= ListEnd(heap)
        /\ heap.seg[s].length \in Nat \ {0} /\ s \in Nat /\ heap.seg[s].free \in BOOLEAN
        /\ heap.LastHdr \in DOMAIN heap.seg
    BY <1>1, InChain, UpToLast DEF ListEnd
  <1>3. heap.heapEnd \in Nat /\ heap.heapEnd < SizeSpan
    BY PagesBound DEF ListInv
  <1>4. ListEnd(heap) \in Nat /\ ListEnd(heap) <= heap.heapEnd
    BY <1>1, ListEndNat DEF ListInv
  <1>5. SizeSpan \in Nat
    BY HeapAssumption
  <1>. QED  BY <1>2, <1>3, <1>4, <1>5 DEF Hdr

LEMMA CallSize ==
  ASSUME CallInv, InCall
  PROVE  call.size \in Sizes /\ call.size \in Nat \ {0} /\ call.op \in {"malloc", "calloc"}
  BY HeapAssumption DEF CallInv

\* What malloc's test says of a segment.
LEMMA FitsSize ==
  ASSUME ListInv, CallInv, pc = "search", NEW s \in DOMAIN heap.seg
  PROVE  /\ heap.seg[s].length >= Hdr => CurSize(heap, s) = heap.seg[s].length - Hdr
         /\ Fits(s) /\ heap.seg[s].length >= Hdr => heap.seg[s].length >= call.size + Hdr
         /\ heap.seg[s].free /\ heap.seg[s].length >= call.size + Hdr => Fits(s)
  <1>1. call.size \in Nat \ {0}
    BY CallSize DEF InCall
  <1>2. heap.seg[s].length \in Nat /\ heap.seg[s].length < SizeSpan
    BY SegmentBounds DEF Started
  <1>3. heap.seg[s].length >= Hdr => CurSize(heap, s) = heap.seg[s].length - Hdr
    BY <1>2, NoWrap DEF CurSize
  <1>4. heap.seg[s].length >= call.size + Hdr => heap.seg[s].length >= Hdr
    BY <1>1, <1>2 DEF Hdr
  <1>. QED  BY <1>1, <1>2, <1>3, <1>4 DEF Fits, Hdr

\* The blocks in use, s apart, are untouched by what happens at s.
LEMMA OtherBlocks ==
  ASSUME LiveInv, NEW g, NEW s, SameBusy(heap.seg, g, s)
  PROVE  /\ {t \in DOMAIN g : ~g[t].free} \ {s} = DOMAIN live \ {s}
         /\ \A b \in DOMAIN live \ {s} :
              b \in DOMAIN g /\ ~g[b].free /\ g[b].length = heap.seg[b].length
  BY DEF LiveInv, SameBusy

LEMMA TakeStep ==
  ASSUME HeapInv, TakeSegment
  PROVE  HeapInv'
  <1>. USE DEF HeapInv
  <1>. DEFINE s == currentSeg
              n == call.size
              g == heap'
  <1>1. /\ s \in DOMAIN heap.seg /\ heap.seg[s].free /\ pc = "search"
        /\ n \in Nat \ {0} /\ n \in Sizes /\ Fits(s)
    BY CallSize DEF TakeSegment, Fits, CallInv, InCall
  <1>2. List(heap) /\ NoFreeNeighbours(heap.seg) /\ ListEnd(heap) <= heap.heapEnd
    BY <1>1 DEF ListInv, Started
  <1>3. heap' = Taken(heap, s, n)
    BY DEF TakeSegment
  <1>4. /\ List(g) /\ ListEnd(g) <= ListEnd(heap)
        /\ g.heapEnd = heap.heapEnd /\ g.usedPages = heap.usedPages
        /\ NoFreeNeighbours(g.seg)
        /\ SameBusy(heap.seg, g.seg, s)
        /\ s \in DOMAIN g.seg /\ ~g.seg[s].free
        /\ g.seg[s].length = IF CurSize(heap, s) > n /\ heap.seg[s].length - n - Hdr >= 1
                             THEN n ELSE heap.seg[s].length
    <2>. HIDE DEF s, n
    <2>. QED  BY <1>1, <1>2, <1>3, TakenEffect
  <1>5. Started /\ Started' /\ ~InCall' /\ pc' \in {"idle", "smashed"}
    BY <1>1 DEF TakeSegment, Started, InCall
  <1>6. ListInv'
    <2>1. ListEnd(heap) \in Nat /\ ListEnd(g) \in Nat /\ heap.heapEnd \in Nat
      BY <1>2, <1>4, ListEndNat, PagesBound DEF ListInv
    <2>2. ListEnd(g) <= heap.heapEnd
      BY <1>2, <1>4, <2>1
    <2>. QED  BY <1>4, <1>5, <2>2 DEF ListInv, List, Started, ListEnd
  <1>7. CallInv'
    BY <1>1, <1>5 DEF TakeSegment, CallInv, InCall
  <1>8. LiveInv'
    <2>1. live' = [b \in DOMAIN live \cup {s} |-> IF b = s THEN n ELSE live[b]]
      BY DEF TakeSegment
    <2>2. /\ {t \in DOMAIN g.seg : ~g.seg[t].free} \ {s} = DOMAIN live \ {s}
          /\ \A b \in DOMAIN live \ {s} :
               b \in DOMAIN g.seg /\ ~g.seg[b].free /\ g.seg[b].length = heap.seg[b].length
      BY <1>4, OtherBlocks
    <2>3. {t \in DOMAIN g.seg : ~g.seg[t].free} = DOMAIN live \cup {s}
      BY <1>4, <2>2
    <2>4. g.seg[s].length <= n + Hdr /\ (g.seg[s].length >= n \/ g.seg[s].length < Hdr)
      <3>1. heap.seg[s].length \in Nat
        BY <1>1, <1>5, SegmentBounds
      <3>2. heap.seg[s].length >= Hdr =>
              CurSize(heap, s) = heap.seg[s].length - Hdr /\ heap.seg[s].length >= n + Hdr
        BY <1>1, FitsSize
      <3>. QED  BY <1>1, <1>4, <3>1, <3>2 DEF Hdr
    <2>5. ASSUME NEW b \in DOMAIN live \cup {s}
          PROVE  /\ live'[b] \in Sizes
                 /\ g.seg[b].length <= live'[b] + Hdr
                 /\ g.seg[b].length >= live'[b] \/ g.seg[b].length < Hdr
      <3>1. CASE b = s
        BY <1>1, <2>1, <2>4, <3>1
      <3>2. CASE b # s
        <4>1. live'[b] = live[b] /\ b \in DOMAIN live /\ g.seg[b].length = heap.seg[b].length
          BY <2>1, <2>2, <3>2
        <4>. QED  BY <4>1 DEF LiveInv
      <3>. QED  BY <3>1, <3>2
    <2>. QED  BY <2>1, <2>3, <2>5 DEF LiveInv
  <1>9. ExpansionInv'
    BY <1>5 DEF TakeSegment, ExpansionInv, InCall
  <1>. QED  BY <1>6, <1>7, <1>8, <1>9

LEMMA FreeStep ==
  ASSUME HeapInv, NEW b \in DOMAIN live, Free(b)
  PROVE  HeapInv'
  <1>. USE DEF HeapInv
  <1>. DEFINE g == heap'
  <1>1. b \in DOMAIN heap.seg /\ pc = "idle" /\ heap' = Freed(heap, b)
    BY DEF Free, LiveInv
  <1>2. List(heap) /\ NoFreeNeighbours(heap.seg) /\ ListEnd(heap) <= heap.heapEnd
    BY <1>1 DEF ListInv, Started
  <1>3. /\ List(g) /\ ListEnd(g) <= ListEnd(heap)
        /\ g.heapEnd = heap.heapEnd /\ g.usedPages = heap.usedPages
        /\ NoFreeNeighbours(g.seg)
        /\ SameBusy(heap.seg, g.seg, b)
        /\ b \in DOMAIN g.seg => g.seg[b].free
    BY <1>1, <1>2, FreedEffect
  <1>4. ListInv'
    <2>1. ListEnd(heap) \in Nat /\ ListEnd(g) \in Nat /\ heap.heapEnd \in Nat
      BY <1>2, <1>3, ListEndNat, PagesBound DEF ListInv
    <2>2. ListEnd(g) <= heap.heapEnd
      BY <1>2, <1>3, <2>1
    <2>3. Started'
      BY <1>1 DEF Free, Started
    <2>. QED  BY <1>3, <2>2, <2>3 DEF ListInv, List, ListEnd
  <1>5. CallInv'
    BY <1>1 DEF Free, CallInv, InCall
  <1>6. LiveInv'
    <2>1. live' = [c \in DOMAIN live \ {b} |-> live[c]]
      BY DEF Free
    <2>2. /\ {t \in DOMAIN g.seg : ~g.seg[t].free} \ {b} = DOMAIN live \ {b}
          /\ \A c \in DOMAIN live \ {b} :
               c \in DOMAIN g.seg /\ ~g.seg[c].free /\ g.seg[c].length = heap.seg[c].length
      BY <1>3, OtherBlocks
    <2>3. {t \in DOMAIN g.seg : ~g.seg[t].free} = DOMAIN live \ {b}
      BY <1>3, <2>2
    <2>4. ASSUME NEW c \in DOMAIN live \ {b}
          PROVE  /\ live'[c] \in Sizes
                 /\ g.seg[c].length <= live'[c] + Hdr
                 /\ g.seg[c].length >= live'[c] \/ g.seg[c].length < Hdr
      <3>1. live'[c] = live[c] /\ g.seg[c].length = heap.seg[c].length
        BY <2>1, <2>2
      <3>. QED  BY <3>1 DEF LiveInv
    <2>. QED  BY <2>1, <2>3, <2>4 DEF LiveInv
  <1>7. ExpansionInv'
    BY <1>1 DEF Free, ExpansionInv, InCall
  <1>. QED  BY <1>4, <1>5, <1>6, <1>7

LEMMA FinishStep ==
  ASSUME HeapInv, FinishExpansion
  PROVE  HeapInv'
  <1>. USE DEF HeapInv
  <1>. DEFINE s == expansion.newSegment
              pages == PagesFor(call.size)
              g == heap'
  <1>1. pc = "expand" /\ expansion.todo = 0 /\ pc' = "search" /\ heap' = Appended(heap, s, pages)
    BY DEF FinishExpansion
  <1>2. /\ call.size \in Nat \ {0} /\ pages \in Nat \ {0}
        /\ pages * PageUnits >= call.size /\ pages * PageUnits \in Nat
        /\ pages * PageUnits >= PageUnits
    BY <1>1, CallSize, PagesForSize, PagesLength DEF InCall
  <1>. HIDE DEF pages
  <1>3. /\ List(heap) /\ NoFreeNeighbours(heap.seg) /\ ListEnd(heap) <= heap.heapEnd
        /\ s \in Nat /\ s >= ListEnd(heap) /\ s + pages * PageUnits = heap.heapEnd
    <2>1. List(heap) /\ NoFreeNeighbours(heap.seg) /\ ListEnd(heap) <= heap.heapEnd
      BY <1>1 DEF ListInv, Started
    <2>2. heap.heapEnd \in Nat /\ ListEnd(heap) \in Nat
      BY <2>1, ListEndNat, PagesBound DEF ListInv
    <2>3. s \in Nat /\ ListEnd(heap) <= s /\ heap.heapEnd + 0 * PageUnits = s + pages * PageUnits
      BY <1>1 DEF CallInv, pages
    <2>4. 0 * PageUnits = 0
      BY HeapAssumption
    <2>. QED  BY <1>2, <2>1, <2>2, <2>3, <2>4
  <1>4. /\ List(g) /\ ListEnd(g) <= s + pages * PageUnits
        /\ g.heapEnd = heap.heapEnd /\ g.usedPages = heap.usedPages
        /\ NoFreeNeighbours(g.seg)
        /\ SameBusy(heap.seg, g.seg, s)
        /\ s \notin DOMAIN heap.seg /\ (s \in DOMAIN g.seg => g.seg[s].free)
        /\ g.seg[g.LastHdr].free
        /\ g.seg[g.LastHdr].length >= pages * PageUnits - Hdr
        /\ heap.seg[heap.LastHdr].free =>
             g.seg[g.LastHdr].length = heap.seg[heap.LastHdr].length + pages * PageUnits
    <2>. HIDE DEF s
    <2>. QED  BY <1>1, <1>2, <1>3, AppendedEffect
  <1>5. Started /\ Started' /\ InCall /\ InCall'
    BY <1>1 DEF Started, InCall
  <1>6. ListInv'
    BY <1>3, <1>4, <1>5 DEF ListInv, List, ListEnd
  <1>7. CallInv'
    <2>1. 0 \in DOMAIN g.seg
      BY <1>4 DEF List, Chain
    <2>. QED  BY <1>1, <1>5, <2>1 DEF FinishExpansion, CallInv, InCall
  <1>8. LiveInv'
    <2>1. live' = live /\ s \notin DOMAIN live
      BY <1>4 DEF FinishExpansion, LiveInv
    <2>2. /\ {t \in DOMAIN g.seg : ~g.seg[t].free} \ {s} = DOMAIN live \ {s}
          /\ \A c \in DOMAIN live \ {s} :
               c \in DOMAIN g.seg /\ ~g.seg[c].free /\ g.seg[c].length = heap.seg[c].length
      BY <1>4, OtherBlocks
    <2>3. {t \in DOMAIN g.seg : ~g.seg[t].free} = DOMAIN live
      BY <1>4, <2>1, <2>2
    <2>4. ASSUME NEW c \in DOMAIN live
          PROVE  /\ live[c] \in Sizes
                 /\ g.seg[c].length <= live[c] + Hdr
                 /\ g.seg[c].length >= live[c] \/ g.seg[c].length < Hdr
      <3>1. g.seg[c].length = heap.seg[c].length
        BY <2>1, <2>2
      <3>. QED  BY <3>1 DEF LiveInv
    <2>5. live = [c \in DOMAIN live |-> live[c]]
      BY DEF LiveInv
    <2>. QED  BY <2>1, <2>3, <2>4, <2>5 DEF LiveInv
  <1>9. ExpansionInv'
    <2>1. expansions' = expansions /\ call' = call
      BY DEF FinishExpansion
    <2>2. expansions \in {1, 2} /\ Grown(expansions - 1)
      BY <1>1 DEF ExpansionInv
    <2>3. expansions = 2 => g.seg[g.LastHdr].length >= call.size + Hdr
      <3>. SUFFICES ASSUME expansions = 2 PROVE g.seg[g.LastHdr].length >= call.size + Hdr
        OBVIOUS
      <3>1. /\ heap.seg[heap.LastHdr].free
            /\ heap.seg[heap.LastHdr].length >= pages * PageUnits - Hdr
        BY <2>2 DEF Grown, pages
      <3>2. heap.seg[heap.LastHdr].length \in Nat
        BY <1>5, SegmentBounds DEF ListInv, List, Chain
      <3>3. PageUnits > 4 /\ PageUnits \in Nat
        BY HeapAssumption DEF Hdr
      <3>. QED  BY <1>2, <1>4, <3>1, <3>2, <3>3 DEF Hdr
    <2>4. Grown(expansions)'
      BY <1>4, <2>1, <2>2, <2>3 DEF Grown, pages
    <2>. QED  BY <1>1, <1>5, <2>1, <2>2, <2>4 DEF ExpansionInv
  <1>. QED  BY <1>6, <1>7, <1>8, <1>9

LEMMA CreateStep ==
  ASSUME HeapInv, CreateHeap
  PROVE  HeapInv'
  <1>. USE DEF HeapInv
  <1>0. pc = "boot" /\ heap = NoHeap /\ ~InCall
    BY DEF CreateHeap, ListInv, Started, InCall
  <1>1. DOMAIN live = {} /\ live = [b \in DOMAIN live |-> live[b]]
    BY <1>0 DEF LiveInv, NoHeap
  <1>2. CASE pc' = "panic" /\ heap' = heap
    BY <1>0, <1>2 DEF CreateHeap, ListInv, CallInv, LiveInv, ExpansionInv, Started, InCall
  <1>3. CASE /\ pc' = "idle"
             /\ heap' = [NoHeap EXCEPT
                  !.seg = [s \in {0} |->
                             Header(StartPages * PageUnits - Hdr, NULL, NULL, TRUE)],
                  !.LastHdr = 0,
                  !.heapEnd = StartPages * PageUnits,
                  !.usedPages = StartPages]
    <2>. DEFINE length == StartPages * PageUnits - Hdr
                seg == [s \in {0} |-> Header(length, NULL, NULL, TRUE)]
    <2>1. /\ length \in Nat \ {0} /\ StartPages * PageUnits \in Nat
          /\ StartPages \in Nat /\ StartPages <= MaxPages
      BY PagesLength, HeapAssumption
    <2>2. heap' = [seg |-> seg, LastHdr |-> 0, heapEnd |-> StartPages * PageUnits,
                   usedPages |-> StartPages, nullLast |-> NULL]
      BY <1>3 DEF NoHeap
    <2>. HIDE DEF length
    <2>3. /\ DOMAIN seg = {0} /\ seg[0].length = length /\ seg[0].next = NULL
          /\ seg[0].last = NULL /\ seg[0].free = TRUE /\ Header4(seg[0])
          /\ seg = [s \in DOMAIN seg |-> seg[s]]
      BY DEF Header, Header4
    <2>. HIDE DEF seg
    <2>4. IsHeap(heap') /\ heap'.seg = seg /\ heap'.LastHdr = 0
          /\ heap'.heapEnd = StartPages * PageUnits /\ heap'.usedPages = StartPages
      BY <2>2 DEF IsHeap
    <2>5. Chain(seg, 0)
      <3>1. Typed(seg)
        <4>1. DOMAIN seg \subseteq Nat /\ seg[0].length \in Nat \ {0}
          BY <2>1, <2>3
        <4>3. seg[0].free \in BOOLEAN
          BY <2>3, Zenon
        <4>2. \A s \in DOMAIN seg : s = 0
          BY <2>3
        <4>. QED  BY <2>3, <4>1, <4>2, <4>3, Zenon DEF Typed
      <3>2. Forward(seg, 0) /\ Backward(seg)
        BY <2>3 DEF Forward, Backward
      <3>3. Ordered(seg, 0)
        BY <2>3 DEF Ordered
      <3>. QED  BY <2>3, <3>1, <3>2, <3>3 DEF Chain
    <2>6. NoFreeNeighbours(seg)
      BY <2>3 DEF NoFreeNeighbours
    <2>7. ListEnd(heap') <= heap'.heapEnd
      BY <2>1, <2>3, <2>4 DEF ListEnd, length, Hdr
    <2>8. ListInv'
      BY <1>3, <2>1, <2>4, <2>5, <2>6, <2>7 DEF ListInv, List, Started, ListEnd
    <2>9. CallInv'
      BY <1>0, <1>3 DEF CreateHeap, CallInv, InCall
    <2>10. LiveInv'
      <3>1. live' = live
        BY DEF CreateHeap
      <3>2. {s \in DOMAIN heap'.seg : ~heap'.seg[s].free} = {}
        BY <2>3, <2>4
      <3>. QED  BY <1>1, <3>1, <3>2 DEF LiveInv
    <2>11. ExpansionInv'
      BY <1>0, <1>3 DEF CreateHeap, ExpansionInv, InCall
    <2>. QED  BY <2>8, <2>9, <2>10, <2>11
  <1>. QED  BY <1>2, <1>3 DEF CreateHeap

LEMMA RequestStep ==
  ASSUME HeapInv, NEW op \in {"malloc", "calloc"}, NEW n \in Sizes, Request(op, n)
  PROVE  HeapInv'
  <1>. USE DEF HeapInv
  <1>1. pc = "idle" /\ pc' = "search" /\ ~InCall /\ InCall' /\ Started /\ Started'
        /\ heap' = heap /\ live' = live /\ expansions' = expansions
    BY DEF Request, InCall, Started
  <1>2. ListInv'
    BY <1>1 DEF ListInv, Started, ListEnd
  <1>3. CallInv'
    <2>1. 0 \in DOMAIN heap.seg /\ currentSeg = 0
      BY <1>1 DEF ListInv, CallInv, List, Chain
    <2>. QED  BY <1>1, <2>1 DEF Request, CallInv
  <1>4. LiveInv'
    BY <1>1 DEF LiveInv
  <1>5. ExpansionInv'
    <2>1. expansions' = 0
      BY <1>1 DEF ExpansionInv
    <2>. QED  BY <1>1, <2>1 DEF ExpansionInv, Grown
  <1>. QED  BY <1>2, <1>3, <1>4, <1>5

LEMMA NextSegmentStep ==
  ASSUME HeapInv, NextSegment
  PROVE  HeapInv'
  <1>. USE DEF HeapInv
  <1>1. pc = "search" /\ pc' = "search" /\ InCall /\ InCall' /\ Started /\ Started'
        /\ heap' = heap /\ live' = live /\ expansions' = expansions /\ call' = call
    BY DEF NextSegment, InCall, Started
  <1>2. ListInv'
    BY <1>1 DEF ListInv, Started, ListEnd
  <1>3. CallInv'
    <2>1. currentSeg \in DOMAIN heap.seg /\ heap.seg[currentSeg].next # NULL
      BY <1>1 DEF NextSegment, CallInv
    <2>2. heap.seg[currentSeg].next \in DOMAIN heap.seg
          /\ heap.seg[currentSeg].next \in Nat
      BY <1>1, <2>1, InChain DEF ListInv, List, Chain, Typed
    <2>. QED  BY <1>1, <2>2 DEF NextSegment, CallInv
  <1>4. LiveInv'
    BY <1>1 DEF LiveInv
  <1>5. ExpansionInv'
    BY <1>1 DEF ExpansionInv, Grown
  <1>. QED  BY <1>2, <1>3, <1>4, <1>5

LEMMA StartStep ==
  ASSUME HeapInv, StartExpansion
  PROVE  HeapInv'
  <1>. USE DEF HeapInv
  <1>1. pc = "search" /\ pc' = "expand" /\ InCall /\ InCall' /\ Started /\ Started'
        /\ heap' = heap /\ live' = live /\ expansions' = expansions + 1 /\ call' = call
    BY DEF StartExpansion, InCall, Started
  <1>2. ListInv'
    BY <1>1 DEF ListInv, Started, ListEnd
  <1>3. CallInv'
    <2>1. /\ heap.heapEnd \in Nat /\ ListEnd(heap) <= heap.heapEnd
          /\ call.size \in Nat \ {0} /\ PagesFor(call.size) \in Nat
      BY <1>1, PagesBound, CallSize, PagesForSize DEF ListInv
    <2>2. expansion' = [newSegment |-> heap.heapEnd, todo |-> PagesFor(call.size)]
          /\ currentSeg' = currentSeg /\ lost' = lost
      BY DEF StartExpansion
    <2>. QED  BY <1>1, <2>1, <2>2 DEF CallInv, ListEnd, PagesFor
  <1>4. LiveInv'
    BY <1>1 DEF LiveInv
  <1>5. ExpansionInv'
    <2>1. Grown(expansions)
      BY <1>1 DEF ExpansionInv
    <2>2. expansions # 2
      <3>. SUFFICES ASSUME expansions = 2 PROVE FALSE
        OBVIOUS
      <3>1. currentSeg \in DOMAIN heap.seg /\ heap.seg[currentSeg].next = NULL
            /\ ~Fits(currentSeg)
        BY <1>1 DEF StartExpansion, CallInv
      <3>2. currentSeg = heap.LastHdr
        BY <1>1, <3>1, InChain DEF ListInv, List
      <3>3. heap.seg[currentSeg].free /\ heap.seg[currentSeg].length >= call.size + Hdr
        BY <2>1, <3>2 DEF Grown
      <3>. QED  BY <1>1, <3>1, <3>3, FitsSize
    <2>3. expansions \in {0, 1}
      BY <2>1, <2>2 DEF Grown
    <2>4. expansions' \in {1, 2} /\ expansions' - 1 = expansions /\ expansions' \in Nat
      BY <1>1, <2>3
    <2>6. (Grown(expansions - 1))'
      BY <1>1, <2>1, <2>4 DEF Grown
    <2>. QED  BY <1>1, <2>4, <2>6 DEF ExpansionInv
  <1>. QED  BY <1>2, <1>3, <1>4, <1>5

LEMMA MapStep ==
  ASSUME HeapInv, MapPage
  PROVE  HeapInv'
  <1>. USE DEF HeapInv
  <1>1. /\ pc = "expand" /\ pc' = "expand" /\ InCall /\ InCall' /\ Started /\ Started'
        /\ live' = live /\ expansions' = expansions /\ call' = call
        /\ heap.usedPages < MaxPages
        /\ heap' = [heap EXCEPT !.heapEnd = @ + PageUnits, !.usedPages = @ + 1]
        /\ PageUnits \in Nat /\ MaxPages \in Nat
    BY HeapAssumption DEF MapPage, InCall, Started
  <1>2. /\ IsHeap(heap') /\ heap'.seg = heap.seg /\ heap'.LastHdr = heap.LastHdr
        /\ heap'.heapEnd = heap.heapEnd + PageUnits /\ heap'.usedPages = heap.usedPages + 1
    BY <1>1 DEF ListInv, IsHeap
  <1>3. heap.heapEnd \in Nat /\ heap.usedPages \in Nat
    BY PagesBound DEF ListInv
  <1>4. ListInv'
    <2>1. heap'.heapEnd = heap'.usedPages * PageUnits
      BY <1>1, <1>2, <1>3 DEF ListInv
    <2>2. heap'.usedPages \in Nat /\ heap'.usedPages <= MaxPages
      BY <1>1, <1>2, <1>3
    <2>3. List(heap) /\ ListEnd(heap) <= heap.heapEnd /\ ListEnd(heap) \in Nat
          /\ NoFreeNeighbours(heap.seg)
      BY <1>1, ListEndNat DEF ListInv
    <2>4. List(heap') /\ ListEnd(heap') = ListEnd(heap)
      BY <1>2, <2>3 DEF List, ListEnd
    <2>5. ListEnd(heap') <= heap'.heapEnd
      BY <1>1, <1>2, <1>3, <2>3, <2>4
    <2>. QED  BY <1>1, <1>2, <2>1, <2>2, <2>3, <2>4, <2>5 DEF ListInv, ListEnd
  <1>5. CallInv'
    <2>1. /\ expansion \in [newSegment : Nat, todo : Nat] /\ expansion.todo > 0
          /\ ListEnd(heap) <= expansion.newSegment /\ expansion.newSegment <= heap.heapEnd
          /\ heap.heapEnd + expansion.todo * PageUnits
               = expansion.newSegment + PagesFor(call.size) * PageUnits
      BY <1>1 DEF CallInv, MapPage
    <2>2. expansion' = [newSegment |-> expansion.newSegment, todo |-> expansion.todo - 1]
          /\ currentSeg' = currentSeg /\ lost' = lost
      BY <2>1 DEF MapPage
    <2>3. (expansion.todo - 1) * PageUnits = expansion.todo * PageUnits - PageUnits
          /\ expansion.todo * PageUnits \in Nat
      BY <1>1, <2>1
    <2>4. call.size \in Nat \ {0} /\ PagesFor(call.size) * PageUnits \in Nat
      BY <1>1, CallSize, PagesForSize, PagesLength
    <2>5. heap'.heapEnd + expansion'.todo * PageUnits
            = expansion'.newSegment + PagesFor(call.size) * PageUnits
      BY <1>1, <1>2, <1>3, <2>1, <2>2, <2>3, <2>4
    <2>6. expansion' \in [newSegment : Nat, todo : Nat]
          /\ expansion'.newSegment = expansion.newSegment
      BY <2>1, <2>2
    <2>7. expansion.newSegment <= heap'.heapEnd
      BY <1>1, <1>2, <1>3, <2>1
    <2>8. ListEnd(heap') = ListEnd(heap)
      BY <1>2 DEF ListEnd
    <2>. QED  BY <1>1, <2>1, <2>2, <2>5, <2>6, <2>7, <2>8 DEF CallInv, ListEnd, PagesFor
  <1>6. LiveInv'
    BY <1>1, <1>2 DEF LiveInv
  <1>7. ExpansionInv'
    BY <1>1, <1>2 DEF ExpansionInv, Grown
  <1>. QED  BY <1>4, <1>5, <1>6, <1>7

LEMMA FailStep ==
  ASSUME HeapInv, ExpansionFails
  PROVE  HeapInv'
  <1>. USE DEF HeapInv
  <1>1. /\ pc = "expand" /\ pc' = "idle" /\ InCall /\ ~InCall' /\ Started /\ Started'
        /\ heap' = heap /\ live' = live /\ expansions' = 0
    BY DEF ExpansionFails, InCall, Started
  <1>2. ListInv'
    BY <1>1 DEF ListInv, Started, ListEnd
  <1>3. CallInv'
    <2>1. /\ heap.heapEnd \in Nat /\ expansion.newSegment \in Nat /\ lost \in Nat
          /\ expansion.newSegment <= heap.heapEnd
      BY <1>1, PagesBound DEF ListInv, CallInv
    <2>2. lost' \in Nat
      BY <2>1 DEF ExpansionFails
    <2>. QED  BY <1>1, <2>2 DEF ExpansionFails, CallInv
  <1>4. LiveInv'
    BY <1>1 DEF LiveInv
  <1>5. ExpansionInv'
    BY <1>1 DEF ExpansionInv
  <1>. QED  BY <1>2, <1>3, <1>4, <1>5

LEMMA HeapInit == Init => HeapInv
  <1>. SUFFICES ASSUME Init PROVE HeapInv
    OBVIOUS
  <1>1. /\ heap = [seg |-> heap.seg, LastHdr |-> NULL, heapEnd |-> 0, usedPages |-> 0,
                   nullLast |-> NULL]
        /\ heap.seg = [s \in {} |-> 0] /\ heap = NoHeap
    BY DEF Init, NoHeap
  <1>2. 0 * PageUnits = 0 /\ 0 <= MaxPages
    BY HeapAssumption
  <1>3. ListInv
    <2>1. pc = "boot"
      BY DEF Init
    <2>. QED  BY <1>1, <1>2, <2>1 DEF ListInv, IsHeap, Started
  <1>4. CallInv /\ ExpansionInv
    BY DEF Init, CallInv, ExpansionInv, InCall
  <1>5. LiveInv
    BY <1>1 DEF Init, LiveInv
  <1>. QED  BY <1>3, <1>4, <1>5 DEF HeapInv

LEMMA HeapNext == HeapInv /\ [Next]_vars => HeapInv'
  <1>. SUFFICES ASSUME HeapInv, [Next]_vars PROVE HeapInv'
    OBVIOUS
  <1>1. CASE HeapStep
    BY <1>1, CreateStep, TakeStep, NextSegmentStep, StartStep, MapStep, FailStep, FinishStep
       DEF HeapStep
  <1>2. CASE \E op \in {"malloc", "calloc"}, n \in Sizes : Request(op, n)
    BY <1>2, RequestStep
  <1>3. CASE \E b \in DOMAIN live : Free(b)
    BY <1>3, FreeStep
  <1>4. CASE UNCHANGED vars
    BY <1>4 DEF vars, HeapInv, ListInv, CallInv, LiveInv, ExpansionInv, Started, InCall,
                ListEnd, Grown
  <1>. QED  BY <1>1, <1>2, <1>3, <1>4 DEF Next

LEMMA HeapInvariant == Spec => []HeapInv
  <1>. QED  BY HeapInit, HeapNext, PTL DEF Spec

-----------------------------------------------------------------------------
(* What the invariant says of the properties.                              *)

LEMMA TypeFromInv == HeapInv => TypeOK
  <1>. SUFFICES ASSUME HeapInv PROVE TypeOK
    OBVIOUS
  <1>. USE DEF HeapInv
  <1>1. DOMAIN heap = DOMAIN NoHeap /\ heap.nullLast \in Nat \cup {NULL}
    BY DEF ListInv, IsHeap, NoHeap
  <1>2. /\ Segments \subseteq Nat /\ heap.LastHdr \in Nat \cup {NULL}
        /\ \A s \in Segments : heap.seg[s] \in HeaderType /\ heap.seg[s].length >= 1
    <2>1. CASE ~Started
      BY <2>1 DEF ListInv, NoHeap, Segments
    <2>2. CASE Started
      <3>1. Chain(heap.seg, heap.LastHdr)
        BY <2>2 DEF ListInv, List
      <3>2. Segments \subseteq Nat /\ heap.LastHdr \in Segments
        BY <3>1 DEF Chain, Typed, Segments
      <3>3. ASSUME NEW s \in Segments
            PROVE  heap.seg[s] \in HeaderType /\ heap.seg[s].length >= 1
        <4>1. /\ Header4(heap.seg[s]) /\ heap.seg[s].length \in Nat \ {0}
              /\ heap.seg[s].free \in BOOLEAN
              /\ heap.seg[s].next \in Segments \cup {NULL}
              /\ heap.seg[s].last \in Segments \cup {NULL}
          BY <3>1, InChain DEF Segments
        <4>2. PICK r : r = heap.seg[s]
          OBVIOUS
        <4>3. /\ r = [length |-> r.length, next |-> r.next, last |-> r.last, free |-> r.free]
              /\ r.length \in Nat /\ r.free \in BOOLEAN
              /\ r.next \in Nat \cup {NULL} /\ r.last \in Nat \cup {NULL}
          BY <3>2, <4>1, <4>2 DEF Header4
        <4>4. r \in HeaderType
          BY <4>3 DEF HeaderType
        <4>. QED  BY <4>1, <4>2, <4>4
      <3>. QED  BY <3>2, <3>3
    <2>. QED  BY <2>1, <2>2
  <1>3. heap.heapEnd \in Nat /\ heap.usedPages \in Nat
    BY PagesBound DEF ListInv
  <1>4. /\ pc \in {"boot", "panic", "idle", "search", "expand", "smashed"}
        /\ call \in {NoCall} \cup [op : {"malloc", "calloc"}, size : Sizes]
        /\ currentSeg \in Nat /\ lost \in Nat /\ expansions \in Nat
    BY DEF CallInv, ExpansionInv
  <1>5. expansion \in [newSegment : Nat \cup {NULL}, todo : Nat]
    BY DEF CallInv, NoExpansion
  <1>6. DOMAIN live \subseteq Segments /\ \A b \in DOMAIN live : live[b] \in Sizes
    BY DEF LiveInv, Segments
  <1>. QED  BY <1>1, <1>2, <1>3, <1>4, <1>5, <1>6 DEF TypeOK

LEMMA ChainFromInv == HeapInv => ChainIntact
  <1>. SUFFICES ASSUME HeapInv, Started
                PROVE  /\ heap.LastHdr \in Segments
                       /\ SegEnd(heap, heap.LastHdr) <= heap.heapEnd
                       /\ 0 \in Segments /\ heap.seg[0].last = NULL
                       /\ heap.seg[heap.LastHdr].next = NULL
                       /\ \A s \in Segments \ {heap.LastHdr} :
                            LET next == heap.seg[s].next IN
                            /\ next \in Segments /\ heap.seg[next].last = s
                            /\ SegEnd(heap, s) <= next
    BY DEF ChainIntact, Started
  <1>1. Chain(heap.seg, heap.LastHdr) /\ ListEnd(heap) <= heap.heapEnd
    BY DEF HeapInv, ListInv, List
  <1>2. heap.LastHdr \in Segments /\ 0 \in Segments
    BY <1>1 DEF Chain, Segments
  <1>3. heap.seg[0].last = NULL /\ heap.seg[heap.LastHdr].next = NULL
    BY <1>1, <1>2, InChain DEF Segments
  <1>4. ASSUME NEW s \in Segments \ {heap.LastHdr}
        PROVE  LET next == heap.seg[s].next IN
               /\ next \in Segments /\ heap.seg[next].last = s
               /\ SegEnd(heap, s) <= next
    BY <1>1, <1>4, InChain DEF Segments, SegEnd
  <1>. QED  BY <1>1, <1>2, <1>3, <1>4 DEF ListEnd, SegEnd

LEMMA CoalescedFromInv == HeapInv => Coalesced
  <1>. SUFFICES ASSUME HeapInv PROVE Coalesced
    OBVIOUS
  <1>1. CASE Started
    BY <1>1 DEF HeapInv, ListInv, NoFreeNeighbours, Coalesced, Segments
  <1>2. CASE ~Started
    BY <1>2 DEF HeapInv, ListInv, NoHeap, Coalesced, Segments
  <1>. QED  BY <1>1, <1>2

\* The types of the heap's state, in every call, expansion and failure.
THEOREM HeapTypes == Spec => []TypeOK
  <1>. QED  BY HeapInvariant, TypeFromInv, PTL

\* However malloc, calloc and free follow each other, whether the page frame
\* allocator serves them or not, the headers stay one list in address order
\* from heapStart to LastHdr, linked both ways, and no segment reaches into
\* another or past the pages mapped.
THEOREM HeapChain == Spec => []ChainIntact
  <1>. QED  BY HeapInvariant, ChainFromInv, PTL

\* free, malloc and ExpandHeap never leave two free neighbours.
THEOREM HeapCoalesced == Spec => []Coalesced
  <1>. QED  BY HeapInvariant, CoalescedFromInv, PTL

\* The segments in use are the blocks handed out and not freed, with at most a
\* header of waste each; none is shorter than asked for unless it is shorter
\* than a header.
THEOREM HeapBlocksMatch == Spec => []BlocksMatchSegments
  <1>1. HeapInv => BlocksMatchSegments
    BY DEF HeapInv, LiveInv, BlocksMatchSegments, Segments
  <1>. QED  BY <1>1, HeapInvariant, PTL

\* malloc's recursion through ExpandHeap is at most two deep, for every request
\* and every size of page.
THEOREM HeapExpansions == Spec => []AtMostTwoExpansions
  <1>1. HeapInv => AtMostTwoExpansions
    <2>. SUFFICES ASSUME HeapInv PROVE expansions <= 2
      BY DEF AtMostTwoExpansions
    <2>1. InCall => pc = "search" \/ pc = "expand"
      BY DEF InCall
    <2>. QED  BY <2>1 DEF HeapInv, ExpansionInv, Grown
  <1>. QED  BY <1>1, HeapInvariant, PTL

-----------------------------------------------------------------------------
(* The heap implements HeapBlocks.                                         *)

\* A block starts behind its header.
At(c) == c + Hdr

HeldOf(D, seg) == [b \in {At(c) : c \in D} |-> seg[b - Hdr].length]

Held == HeldOf(DOMAIN live, heap.seg)

\* What Held says of a state whose blocks are segments.
LEMMA AtApart ==
  ASSUME NEW c \in Nat, NEW d \in Nat, At(c) = At(d)
  PROVE  c = d
  BY DEF At, Hdr

LEMMA HeldDomain ==
  ASSUME NEW D, NEW seg
  PROVE  \A u \in DOMAIN HeldOf(D, seg) : \E c \in D : u = At(c)
  BY DEF HeldOf

LEMMA HeldAt ==
  ASSUME NEW D, D \subseteq Nat, NEW seg, NEW c \in D
  PROVE  At(c) \in DOMAIN HeldOf(D, seg) /\ HeldOf(D, seg)[At(c)] = seg[c].length
  <1>1. c \in Nat
    OBVIOUS
  <1>2. At(c) - Hdr = c
    BY <1>1 DEF At, Hdr
  <1>. QED  BY <1>2 DEF HeldOf

\* Two blocks of the list share no unit.
LEMMA Apart ==
  ASSUME NEW seg, NEW L, Chain(seg, L), NEW s \in DOMAIN seg, NEW t \in DOMAIN seg, s # t,
         NEW u \in (s + Hdr) .. (s + Hdr + seg[s].length - 1)
  PROVE  u \notin (t + Hdr) .. (t + Hdr + seg[t].length - 1)
  <1>1. s \in Nat /\ t \in Nat /\ seg[s].length \in Nat /\ seg[t].length \in Nat
    BY InChain
  <1>2. s < t => s + Hdr + seg[s].length <= t
    BY InChain
  <1>3. t < s => t + Hdr + seg[t].length <= s
    BY InChain
  <1>. QED  BY <1>1, <1>2, <1>3 DEF Hdr

LEMMA StepHolds ==
  ASSUME HeapInv, Started
  PROVE  /\ Chain(heap.seg, heap.LastHdr) /\ DOMAIN live \subseteq DOMAIN heap.seg
         /\ DOMAIN live \subseteq Nat
  <1>1. Chain(heap.seg, heap.LastHdr) /\ DOMAIN live \subseteq DOMAIN heap.seg
    BY DEF HeapInv, ListInv, LiveInv, List
  <1>. QED  BY <1>1 DEF Chain, Typed

LEMMA TakeAcquires ==
  ASSUME HeapInv, TakeSegment
  PROVE  Blocks!Acquire
  <1>. DEFINE s == currentSeg
              D == DOMAIN live
              a == At(s)
  <1>1. /\ Started /\ Started' /\ HeapInv' /\ s \in DOMAIN heap.seg /\ heap.seg[s].free
        /\ pc = "search" /\ call.size \in Nat \ {0}
    BY TakeStep, CallSize DEF TakeSegment, Fits, HeapInv, CallInv, InCall, Started
  <1>2. /\ Chain(heap.seg, heap.LastHdr) /\ D \subseteq DOMAIN heap.seg /\ D \subseteq Nat
        /\ s \notin D /\ s \in Nat
    BY <1>1, StepHolds DEF HeapInv, LiveInv, Chain, Typed
  <1>3. /\ Chain(heap'.seg, heap'.LastHdr)
        /\ D \cup {s} \subseteq DOMAIN heap'.seg
        /\ DOMAIN live' = D \cup {s} /\ D \cup {s} \subseteq Nat
    <2>1. /\ Chain(heap'.seg, heap'.LastHdr) /\ DOMAIN live' \subseteq DOMAIN heap'.seg
          /\ DOMAIN live' \subseteq Nat
      <3>1. Chain(heap'.seg, heap'.LastHdr) /\ DOMAIN live' \subseteq DOMAIN heap'.seg
        BY <1>1 DEF HeapInv, ListInv, LiveInv, List
      <3>. QED  BY <3>1 DEF Chain, Typed
    <2>2. DOMAIN live' = D \cup {s}
      BY DEF TakeSegment
    <2>. QED  BY <2>1, <2>2
  <1>4. \A b \in D : heap'.seg[b].length = heap.seg[b].length
    <2>1. SameBusy(heap.seg, heap'.seg, s)
      <3>1. heap' = Taken(heap, s, call.size)
        BY DEF TakeSegment
      <3>2. List(heap) /\ NoFreeNeighbours(heap.seg)
        BY <1>1 DEF HeapInv, ListInv
      <3>. HIDE DEF s
      <3>. QED  BY <1>1, <3>1, <3>2, TakenEffect
    <2>. QED  BY <1>2, <2>1 DEF SameBusy, HeapInv, LiveInv
  <1>5. /\ \A u \in DOMAIN Held : \E c \in D : u = At(c)
        /\ \A c \in D : At(c) \in DOMAIN Held /\ Held[At(c)] = heap.seg[c].length
    <2>1. PICK E, seg : E = D /\ seg = heap.seg
      OBVIOUS
    <2>2. Held = HeldOf(E, seg) /\ E \subseteq Nat
      BY <1>2, <2>1 DEF Held
    <2>3. \A u \in DOMAIN HeldOf(E, seg) : \E c \in E : u = At(c)
      BY HeldDomain
    <2>5. ASSUME NEW c \in E
          PROVE  At(c) \in DOMAIN HeldOf(E, seg) /\ HeldOf(E, seg)[At(c)] = seg[c].length
      BY <2>2, HeldAt
    <2>. QED  BY <2>1, <2>2, <2>3, <2>5
  <1>6. /\ \A u \in DOMAIN Held' : \E c \in D \cup {s} : u = At(c)
        /\ \A c \in D \cup {s} :
             At(c) \in DOMAIN Held' /\ Held'[At(c)] = heap'.seg[c].length
    <2>1. Held' = HeldOf(D \cup {s}, heap'.seg)
      BY <1>3 DEF Held
    <2>2. PICK E, seg : E = D \cup {s} /\ seg = heap'.seg
      OBVIOUS
    <2>3. Held' = HeldOf(E, seg) /\ E \subseteq Nat
      BY <1>3, <2>1, <2>2
    <2>4. \A u \in DOMAIN HeldOf(E, seg) : \E c \in E : u = At(c)
      BY HeldDomain
    <2>5. ASSUME NEW c \in E
          PROVE  At(c) \in DOMAIN HeldOf(E, seg) /\ HeldOf(E, seg)[At(c)] = seg[c].length
      BY <2>3, HeldAt
    <2>. QED  BY <2>2, <2>3, <2>4, <2>5
  <1>7. a \in DOMAIN Held' \ DOMAIN Held
    BY <1>2, <1>5, <1>6, AtApart
  <1>8. Held'[a] \in Nat \ {0}
    BY <1>3, <1>6, InChain
  <1>9. \A b \in DOMAIN Held :
          (a .. (a + Held'[a] - 1)) \cap (b .. (b + Held[b] - 1)) = {}
    <2>. SUFFICES ASSUME NEW c \in D
                  PROVE  (a .. (a + Held'[a] - 1)) \cap
                         (At(c) .. (At(c) + Held[At(c)] - 1)) = {}
      BY <1>5
    <2>1. Held'[a] = heap'.seg[s].length /\ Held[At(c)] = heap'.seg[c].length
      BY <1>4, <1>5, <1>6
    <2>2. s # c /\ c \in DOMAIN heap'.seg /\ s \in DOMAIN heap'.seg
      BY <1>2, <1>3
    <2>3. \A u \in (s + Hdr) .. (s + Hdr + heap'.seg[s].length - 1) :
            u \notin (c + Hdr) .. (c + Hdr + heap'.seg[c].length - 1)
      BY <1>3, <2>2, Apart
    <2>. HIDE DEF s
    <2>. QED  BY <2>1, <2>3 DEF At
  <1>10. Held' = [b \in DOMAIN Held \cup {a} |-> IF b = a THEN Held'[a] ELSE Held[b]]
    <2>1. DOMAIN Held' = DOMAIN Held \cup {a}
      BY <1>5, <1>6
    <2>2. Held' = [b \in DOMAIN Held' |-> Held'[b]]
      BY DEF Held, HeldOf
    <2>3. ASSUME NEW b \in DOMAIN Held PROVE b # a /\ Held'[b] = Held[b]
      <3>1. PICK c \in D : b = At(c)
        BY <1>5
      <3>. QED  BY <1>4, <1>5, <1>6, <1>7, <3>1
    <2>. QED  BY <2>1, <2>2, <2>3
  <1>. HIDE DEF a
  <1>. QED  BY <1>7, <1>8, <1>9, <1>10
            DEF Blocks!Acquire, Blocks!Disjoint, Blocks!Units, Held, HeldOf, At

LEMMA FreeReleases ==
  ASSUME HeapInv, NEW b \in DOMAIN live, Free(b)
  PROVE  Blocks!ReleaseBlock
  <1>. DEFINE D == DOMAIN live
              a == At(b)
  <1>1. Started /\ b \in DOMAIN heap.seg /\ heap' = Freed(heap, b)
    BY DEF Free, HeapInv, LiveInv, Started
  <1>2. Chain(heap.seg, heap.LastHdr) /\ D \subseteq DOMAIN heap.seg /\ D \subseteq Nat
    BY <1>1, StepHolds
  <1>3. DOMAIN live' = D \ {b}
    BY DEF Free
  <1>4. \A c \in D \ {b} : heap'.seg[c].length = heap.seg[c].length
    <2>1. SameBusy(heap.seg, heap'.seg, b)
      BY <1>1, FreedEffect DEF HeapInv, ListInv
    <2>. QED  BY <1>2, <2>1 DEF SameBusy, HeapInv, LiveInv
  <1>5. /\ \A u \in DOMAIN Held : \E c \in D : u = At(c)
        /\ \A c \in D : At(c) \in DOMAIN Held /\ Held[At(c)] = heap.seg[c].length
    <2>1. PICK E, seg : E = D /\ seg = heap.seg
      OBVIOUS
    <2>2. Held = HeldOf(E, seg) /\ E \subseteq Nat
      BY <1>2, <2>1 DEF Held
    <2>3. \A u \in DOMAIN HeldOf(E, seg) : \E c \in E : u = At(c)
      BY HeldDomain
    <2>5. ASSUME NEW c \in E
          PROVE  At(c) \in DOMAIN HeldOf(E, seg) /\ HeldOf(E, seg)[At(c)] = seg[c].length
      BY <2>2, HeldAt
    <2>. QED  BY <2>1, <2>2, <2>3, <2>5
  <1>6. /\ \A u \in DOMAIN Held' : \E c \in D \ {b} : u = At(c)
        /\ \A c \in D \ {b} :
             At(c) \in DOMAIN Held' /\ Held'[At(c)] = heap'.seg[c].length
    <2>1. Held' = HeldOf(D \ {b}, heap'.seg)
      BY <1>3 DEF Held
    <2>2. PICK E, seg : E = D \ {b} /\ seg = heap'.seg
      OBVIOUS
    <2>3. Held' = HeldOf(E, seg) /\ E \subseteq Nat
      BY <1>2, <2>1, <2>2
    <2>4. \A u \in DOMAIN HeldOf(E, seg) : \E c \in E : u = At(c)
      BY HeldDomain
    <2>5. ASSUME NEW c \in E
          PROVE  At(c) \in DOMAIN HeldOf(E, seg) /\ HeldOf(E, seg)[At(c)] = seg[c].length
      BY <2>3, HeldAt
    <2>. QED  BY <2>2, <2>3, <2>4, <2>5
  <1>7. a \in DOMAIN Held
    BY <1>5
  <1>8. Held' = [u \in DOMAIN Held \ {a} |-> Held[u]]
    <2>1. DOMAIN Held' = DOMAIN Held \ {a}
      <3>1. ASSUME NEW u \in DOMAIN Held' PROVE u \in DOMAIN Held /\ u # a
        <4>1. PICK c \in D \ {b} : u = At(c)
          BY <1>6
        <4>2. c \in D /\ c \in Nat /\ b \in Nat /\ c # b
          BY <1>2
        <4>. QED  BY <1>5, <4>1, <4>2, AtApart
      <3>2. ASSUME NEW u \in DOMAIN Held, u # a PROVE u \in DOMAIN Held'
        <4>1. PICK c \in D : u = At(c)
          BY <1>5
        <4>2. c # b
          BY <3>2, <4>1
        <4>. QED  BY <1>6, <4>1, <4>2
      <3>. QED  BY <3>1, <3>2
    <2>2. Held' = [u \in DOMAIN Held' |-> Held'[u]]
      BY DEF Held, HeldOf
    <2>3. ASSUME NEW u \in DOMAIN Held' PROVE Held'[u] = Held[u]
      <3>1. PICK c \in D \ {b} : u = At(c)
        BY <1>6
      <3>. QED  BY <1>4, <1>5, <1>6, <3>1
    <2>. QED  BY <2>1, <2>2, <2>3
  <1>. QED  BY <1>7, <1>8 DEF Blocks!ReleaseBlock, Held, HeldOf, At

\* A step that leaves the blocks and their lengths alone.
LEMMA HeldSame ==
  ASSUME live' = live, \A c \in DOMAIN live : heap'.seg[c].length = heap.seg[c].length,
         DOMAIN live \subseteq Nat
  PROVE  Held' = Held
  <1>1. ASSUME NEW b \in {At(c) : c \in DOMAIN live}
        PROVE  heap'.seg[b - Hdr].length = heap.seg[b - Hdr].length
    <2>1. PICK c \in DOMAIN live : b = At(c)
      OBVIOUS
    <2>2. b - Hdr = c
      BY <2>1 DEF At, Hdr
    <2>. QED  BY <2>2
  <1>. QED  BY <1>1 DEF Held, HeldOf

LEMMA FinishStutters ==
  ASSUME HeapInv, FinishExpansion
  PROVE  Held' = Held
  <1>. DEFINE s == expansion.newSegment
              pages == PagesFor(call.size)
  <1>1. pc = "expand" /\ expansion.todo = 0 /\ heap' = Appended(heap, s, pages) /\ Started
        /\ live' = live
    BY DEF FinishExpansion, Started
  <1>2. pages \in Nat \ {0}
    BY <1>1, CallSize, PagesForSize DEF InCall, HeapInv
  <1>3. /\ List(heap) /\ NoFreeNeighbours(heap.seg) /\ s \in Nat /\ s >= ListEnd(heap)
    <2>1. List(heap) /\ NoFreeNeighbours(heap.seg) /\ ListEnd(heap) \in Nat
      BY <1>1, ListEndNat DEF HeapInv, ListInv
    <2>2. s \in Nat /\ ListEnd(heap) <= s
      BY <1>1 DEF HeapInv, CallInv
    <2>. QED  BY <2>1, <2>2
  <1>4. SameBusy(heap.seg, heap'.seg, s) /\ s \notin DOMAIN heap.seg
    <2>. HIDE DEF s, pages
    <2>. QED  BY <1>1, <1>2, <1>3, AppendedEffect
  <1>5. \A c \in DOMAIN live : heap'.seg[c].length = heap.seg[c].length
    BY <1>4 DEF SameBusy, HeapInv, LiveInv
  <1>6. DOMAIN live \subseteq Nat
    BY <1>1, StepHolds
  <1>. QED  BY <1>1, <1>5, <1>6, HeldSame

\* Blocks never overlap, never move and keep their size while somebody holds
\* them: every step of the heap acquires a block, releases one or changes none.
THEOREM HeapRefinement == Spec => ImplementsBlocks
  <1>1. Init => Blocks!BlocksInit
    BY DEF Init, Blocks!BlocksInit
  <1>2. HeapInv /\ [Next]_vars => [Blocks!BlocksNext]_Held
    <2>. SUFFICES ASSUME HeapInv, [Next]_vars PROVE Blocks!BlocksNext \/ Held' = Held
      OBVIOUS
    <2>1. ASSUME live' = live, heap'.seg = heap.seg PROVE Held' = Held
      BY <2>1 DEF Held
    <2>2. CASE TakeSegment
      BY <2>2, TakeAcquires DEF Blocks!BlocksNext
    <2>3. CASE \E b \in DOMAIN live : Free(b)
      BY <2>3, FreeReleases DEF Blocks!BlocksNext
    <2>4. CASE FinishExpansion
      BY <2>4, FinishStutters
    <2>5. CASE CreateHeap
      <3>1. live' = live /\ DOMAIN live = {}
        <4>1. live' = live /\ heap = NoHeap
          BY <2>5 DEF CreateHeap, HeapInv, ListInv, Started
        <4>2. DOMAIN heap.seg = {}
          BY <4>1 DEF NoHeap
        <4>. QED  BY <4>1, <4>2 DEF HeapInv, LiveInv
      <3>. QED  BY <3>1, HeldSame
    <2>6. CASE MapPage
      <3>1. live' = live /\ heap'.seg = heap.seg
        BY <2>6 DEF MapPage, HeapInv, ListInv, IsHeap
      <3>. QED  BY <2>1, <3>1
    <2>7. CASE NextSegment \/ StartExpansion \/ ExpansionFails
      BY <2>1, <2>7 DEF NextSegment, StartExpansion, ExpansionFails
    <2>8. CASE \E op \in {"malloc", "calloc"}, n \in Sizes : Request(op, n)
      BY <2>1, <2>8 DEF Request
    <2>9. CASE UNCHANGED vars
      BY <2>1, <2>9 DEF vars
    <2>. QED  BY <2>2, <2>3, <2>4, <2>5, <2>6, <2>7, <2>8, <2>9 DEF Next, HeapStep
  <1>. QED  BY <1>1, <1>2, HeapInvariant, PTL
            DEF Spec, ImplementsBlocks, Blocks!BlocksSpec, Held, HeldOf, At

-----------------------------------------------------------------------------
(* What the segments add up to.                                            *)

UnitsOf(S, seg) == UNION {{s} \X (1 .. Hdr + seg[s].length) : s \in S}

\* The segments of S with their headers are n units.
Counted(S, seg, n) == IsFiniteSet(UnitsOf(S, seg)) /\ Cardinality(UnitsOf(S, seg)) = n

LEMMA UpTo ==
  ASSUME NEW k \in Nat
  PROVE  IsFiniteSet(1 .. k) /\ Cardinality(1 .. k) = k
  <1>1. IsFiniteSet(1 .. k) /\ Cardinality(1 .. k) = IF 1 > k THEN 0 ELSE k - 1 + 1
    BY FS_Interval
  <1>. QED  BY <1>1

LEMMA OneMore ==
  ASSUME NEW S, NEW s, s \notin S, NEW T, T = S \cup {s},
         NEW seg, NEW l \in Nat, l = seg[s].length,
         NEW n \in Nat, Counted(S, seg, n), NEW m, m = n + Hdr + l
  PROVE  Counted(T, seg, m)
  <1>. DEFINE A == UnitsOf(S, seg)
              I == 1 .. Hdr + l
              B == {s} \X I
  <1>1. UnitsOf(T, seg) = A \cup B
    BY DEF UnitsOf
  <1>2. A \cap B = {}
    BY DEF UnitsOf
  <1>3. IsFiniteSet(I) /\ Cardinality(I) = Hdr + l
    BY UpTo DEF Hdr
  <1>4. IsFiniteSet({s}) /\ Cardinality({s}) = 1
    BY FS_Singleton
  <1>. HIDE DEF I
  <1>5. IsFiniteSet(B) /\ Cardinality(B) = Hdr + l
    <2>1. IsFiniteSet(B) /\ Cardinality(B) = Cardinality({s}) * Cardinality(I)
      BY <1>3, <1>4, FS_Product
    <2>. QED  BY <1>3, <1>4, <2>1 DEF Hdr
  <1>6. IsFiniteSet(A) /\ Cardinality(A) = n
    BY DEF Counted
  <1>. HIDE DEF A, B
  <1>7. IsFiniteSet(A \cup B) /\ Cardinality(A \cup B) = m
    <2>1. /\ IsFiniteSet(A \cup B)
          /\ Cardinality(A \cup B) = Cardinality(A) + Cardinality(B) - Cardinality(A \cap B)
      BY <1>5, <1>6, FS_Union
    <2>2. Cardinality(A \cap B) = 0
      BY <1>2, FS_EmptySet
    <2>. QED  BY <1>5, <1>6, <2>1, <2>2 DEF Hdr
  <1>. QED  BY <1>1, <1>7 DEF Counted

LEMMA PartCounted ==
  ASSUME NEW T, NEW seg, NEW m, Counted(T, seg, m), NEW S, S \subseteq T
  PROVE  \E n \in Nat : Counted(S, seg, n)
  <1>1. UnitsOf(S, seg) \subseteq UnitsOf(T, seg)
    BY DEF UnitsOf
  <1>2. IsFiniteSet(UnitsOf(S, seg))
    BY <1>1, FS_Subset DEF Counted
  <1>. QED  BY <1>2, FS_CardinalityType DEF Counted

\* Only the lengths count.
LEMMA SameLengths ==
  ASSUME NEW S, NEW seg, NEW g, \A s \in S : g[s].length = seg[s].length,
         NEW n, Counted(S, seg, n)
  PROVE  Counted(S, g, n)
  <1>1. UnitsOf(S, g) = UnitsOf(S, seg)
    BY DEF UnitsOf
  <1>. QED  BY <1>1 DEF Counted

\* A segment cut in two, or two segments made one: what one of them loses in length
\* is the length and the header of the other.
LEMMA OneIsTwo ==
  ASSUME NEW seg, NEW g, NEW s \in DOMAIN seg, NEW new, new \notin DOMAIN seg,
         DOMAIN g = DOMAIN seg \cup {new},
         g[s].length \in Nat, g[new].length \in Nat,
         seg[s].length = g[s].length + Hdr + g[new].length,
         \A t \in DOMAIN seg \ {s} : g[t].length = seg[t].length,
         NEW n
  PROVE  Counted(DOMAIN seg, seg, n) <=> Counted(DOMAIN g, g, n)
  <1>1. PICK D, E, R : D = DOMAIN seg /\ E = DOMAIN g /\ R = D \ {s}
    OBVIOUS
  <1>2. s \notin R /\ D = R \cup {s}
    BY <1>1
  <1>3. new \notin D /\ E = D \cup {new}
    BY <1>1
  <1>4. \A t \in R : g[t].length = seg[t].length /\ seg[t].length = g[t].length
    BY <1>1
  <1>5. PICK a \in Nat : a = seg[s].length
    BY DEF Hdr
  <1>6. PICK b \in Nat : b = g[s].length
    OBVIOUS
  <1>7. PICK c \in Nat : c = g[new].length
    OBVIOUS
  <1>8. a = b + Hdr + c
    BY <1>5, <1>6, <1>7
  <1>9. ASSUME Counted(D, seg, n) PROVE Counted(E, g, n)
    <2>1. R \subseteq D
      BY <1>2
    <2>2. PICK k \in Nat : Counted(R, seg, k)
      BY <1>9, <2>1, PartCounted
    <2>3. PICK m \in Nat : m = k + Hdr + a
      BY DEF Hdr
    <2>4. Counted(D, seg, m)
      BY <1>2, <1>5, <2>2, <2>3, OneMore
    <2>5. m = n
      BY <1>9, <2>4 DEF Counted
    <2>6. Counted(R, g, k)
      BY <1>4, <2>2, SameLengths
    <2>7. PICK j \in Nat : j = k + Hdr + b
      BY DEF Hdr
    <2>8. Counted(D, g, j)
      BY <1>2, <1>6, <2>6, <2>7, OneMore
    <2>9. n = j + Hdr + c
      BY <1>8, <2>3, <2>5, <2>7 DEF Hdr
    <2>. QED  BY <1>3, <1>7, <2>8, <2>9, OneMore
  <1>10. ASSUME Counted(E, g, n) PROVE Counted(D, seg, n)
    <2>1. R \subseteq E
      BY <1>2, <1>3
    <2>2. PICK k \in Nat : Counted(R, g, k)
      BY <1>10, <2>1, PartCounted
    <2>3. PICK j \in Nat : j = k + Hdr + b
      BY DEF Hdr
    <2>4. Counted(D, g, j)
      BY <1>2, <1>6, <2>2, <2>3, OneMore
    <2>5. PICK m \in Nat : m = j + Hdr + c
      BY DEF Hdr
    <2>6. Counted(E, g, m)
      BY <1>3, <1>7, <2>4, <2>5, OneMore
    <2>7. m = n
      BY <1>10, <2>6 DEF Counted
    <2>8. Counted(R, seg, k)
      BY <1>4, <2>2, SameLengths
    <2>9. n = k + Hdr + a
      BY <1>8, <2>3, <2>5, <2>7 DEF Hdr
    <2>. QED  BY <1>2, <1>5, <2>8, <2>9, OneMore
  <1>. QED  BY <1>1, <1>9, <1>10

Total(h, n) == Counted(DOMAIN h.seg, h.seg, n)

LEMMA TotalIs ==
  ASSUME NEW h, NEW n
  PROVE  Total(h, n) <=> /\ IsFiniteSet(SegmentUnits(h.seg))
                         /\ Cardinality(SegmentUnits(h.seg)) = n
  <1>1. UnitsOf(DOMAIN h.seg, h.seg) = SegmentUnits(h.seg)
    BY DEF UnitsOf, SegmentUnits
  <1>. QED  BY <1>1 DEF Total, Counted

\* Swallowing the next segment or not, CombineForward loses nothing.
LEMMA CombineForwardCounts ==
  ASSUME NEW h, List(h), NEW s \in DOMAIN h.seg, NEW n \in Nat, Total(h, n),
         NEW g, g = CombineForward(h, s)
  PROVE  List(g) /\ s \in DOMAIN g.seg /\ Total(g, n)
  <1>. DEFINE nxt == h.seg[s].next
  <1>1. CASE nxt = NULL \/ ~h.seg[nxt].free
    <2>1. g = h
      BY <1>1 DEF CombineForward
    <2>. QED  BY <2>1
  <1>2. CASE nxt # NULL /\ h.seg[nxt].free
    <2>1. IsHeap(h) /\ Chain(h.seg, h.LastHdr)
      BY DEF List
    <2>2. /\ IsHeap(g) /\ g.seg = Merged(h.seg, s)
          /\ g.LastHdr = IF nxt = h.LastHdr THEN s ELSE h.LastHdr
      BY <1>2, <2>1, MergeEffect
    <2>3. Chain(g.seg, g.LastHdr)
      BY <1>2, <2>1, <2>2, MergeChain
    <2>4. PICK seg, L, m, e : seg = h.seg /\ L = h.LastHdr /\ m = nxt /\ e = g.seg
      OBVIOUS
    <2>5. /\ Chain(seg, L) /\ s \in DOMAIN seg /\ seg[s].next # NULL /\ m = seg[s].next
          /\ e = Merged(seg, s)
      BY <1>2, <2>1, <2>2, <2>4
    <2>6. /\ m \in DOMAIN seg /\ s # m
          /\ seg[s].length \in Nat /\ seg[m].length \in Nat
      BY <2>5, Neighbours, InChain
    <2>7. /\ DOMAIN e = DOMAIN seg \ {m}
          /\ e[s].length = seg[s].length + Hdr + seg[m].length
      <3>1. e[s].length = seg[s].length + seg[m].length + Hdr
        BY <2>5, <2>6 DEF Merged, Header
      <3>. QED  BY <2>5, <2>6, <3>1 DEF Merged, Hdr
    <2>8. \A t \in DOMAIN e \ {s} : e[t].length = seg[t].length
      BY <2>5, <2>7, MergedOthers
    <2>9. Counted(DOMAIN e, e, n) <=> Counted(DOMAIN seg, seg, n)
      <3>1. /\ s \in DOMAIN e /\ m \notin DOMAIN e /\ DOMAIN seg = DOMAIN e \cup {m}
            /\ \A t \in DOMAIN e \ {s} : seg[t].length = e[t].length
        BY <2>5, <2>6, <2>7, <2>8
      <3>. QED  BY <2>6, <2>7, <3>1, OneIsTwo
    <2>. QED  BY <2>2, <2>3, <2>4, <2>5, <2>6, <2>7, <2>9 DEF Total, List
  <1>. QED  BY <1>1, <1>2

LEMMA CombineBackwardCounts ==
  ASSUME NEW h, List(h), NEW s \in DOMAIN h.seg, NEW n \in Nat, Total(h, n)
  PROVE  Total(CombineBackward(h, s), n)
  <1>. DEFINE last == h.seg[s].last
  <1>1. CASE last = NULL \/ ~h.seg[last].free
    BY <1>1 DEF CombineBackward
  <1>2. CASE last # NULL /\ h.seg[last].free
    <2>1. CombineBackward(h, s) = CombineForward(h, last)
      BY <1>2 DEF CombineBackward
    <2>2. last \in DOMAIN h.seg
      BY <1>2, InChain DEF List
    <2>. HIDE DEF last
    <2>. QED  BY <2>1, <2>2, CombineForwardCounts
  <1>. QED  BY <1>1, <1>2

\* Whether a segment is free changes nothing.
LEMMA FlagCounts ==
  ASSUME NEW h, List(h), NEW s \in DOMAIN h.seg, NEW free \in BOOLEAN, NEW n, Total(h, n),
         NEW g, g = [h EXCEPT !.seg[s].free = free]
  PROVE  List(g) /\ s \in DOMAIN g.seg /\ Total(g, n)
  <1>1. IsHeap(h) /\ Chain(h.seg, h.LastHdr)
    BY DEF List
  <1>2. IsHeap(g) /\ g.seg = Flagged(h.seg, s, free) /\ g.LastHdr = h.LastHdr
    BY <1>1, FlagEffect
  <1>3. Chain(g.seg, g.LastHdr)
    BY <1>1, <1>2, FlagChain
  <1>4. PICK seg, L, e : seg = h.seg /\ L = h.LastHdr /\ e = g.seg
    OBVIOUS
  <1>5. DOMAIN e = DOMAIN seg /\ \A t \in DOMAIN seg : e[t].length = seg[t].length
    <2>1. Chain(seg, L) /\ s \in DOMAIN seg /\ e = Flagged(seg, s, free)
      BY <1>1, <1>2, <1>4
    <2>. QED  BY <2>1, FlagFields
  <1>6. Counted(DOMAIN e, e, n)
    <2>1. Counted(DOMAIN seg, seg, n)
      BY <1>4 DEF Total
    <2>2. Counted(DOMAIN seg, e, n)
      BY <1>5, <2>1, SameLengths
    <2>. QED  BY <1>5, <2>2
  <1>. QED  BY <1>2, <1>3, <1>4, <1>5, <1>6 DEF List, Total

LEMMA FreedCounts ==
  ASSUME NEW h, List(h), NEW s \in DOMAIN h.seg, NEW n \in Nat, Total(h, n)
  PROVE  Total(Freed(h, s), n)
  <1>. DEFINE yes == TRUE
              f == [h EXCEPT !.seg[s].free = yes]
              m == CombineForward(f, s)
  <1>1. yes \in BOOLEAN /\ Freed(h, s) = CombineBackward(m, s)
    BY DEF Freed
  <1>. HIDE DEF yes
  <1>2. List(f) /\ s \in DOMAIN f.seg /\ Total(f, n)
    BY <1>1, FlagCounts
  <1>. HIDE DEF f
  <1>3. List(m) /\ s \in DOMAIN m.seg /\ Total(m, n)
    BY <1>2, CombineForwardCounts
  <1>. HIDE DEF m
  <1>. QED  BY <1>1, <1>3, CombineBackwardCounts

LEMMA SplitCounts ==
  ASSUME NEW h, List(h), NEW s \in DOMAIN h.seg, NEW k \in Nat \ {0}, NEW n \in Nat,
         Total(h, n), NEW g, g = Split(h, s, k)
  PROVE  List(g) /\ s \in DOMAIN g.seg /\ Total(g, n)
  <1>1. IsHeap(h) /\ Chain(h.seg, h.LastHdr) /\ h.seg[s].length \in Nat
    BY InChain DEF List
  <1>2. CASE h.seg[s].length - k - Hdr < 1
    <2>1. g = h
      BY <1>2 DEF Split
    <2>. QED  BY <2>1
  <1>3. CASE h.seg[s].length - k - Hdr >= 1
    <2>. DEFINE new == s + k + Hdr
    <2>1. /\ IsHeap(g) /\ g.seg = Cut(h.seg, s, k)
          /\ g.LastHdr = IF s = h.LastHdr THEN new ELSE h.LastHdr
      BY <1>1, <1>3, SplitEffect
    <2>2. Chain(g.seg, g.LastHdr)
      BY <1>1, <1>3, <2>1, CutChain
    <2>3. PICK seg, L, e, c : seg = h.seg /\ L = h.LastHdr /\ e = g.seg /\ c = new
      OBVIOUS
    <2>4. /\ Chain(seg, L) /\ s \in DOMAIN seg /\ e = Cut(seg, s, k)
          /\ seg[s].length - k - Hdr >= 1 /\ seg[s].length \in Nat /\ c = s + k + Hdr
      BY <1>1, <1>3, <2>1, <2>3
    <2>5. /\ DOMAIN e = DOMAIN seg \cup {c} /\ c \notin DOMAIN seg
          /\ e[s].length = k /\ e[c].length = seg[s].length - k - Hdr
          /\ \A t \in DOMAIN seg \ {s} :
               /\ e[t].length = seg[t].length /\ e[t].next = seg[t].next
               /\ e[t].free = seg[t].free
      BY <2>4, CutFields
    <2>6. /\ e[s].length \in Nat /\ e[c].length \in Nat
          /\ seg[s].length = e[s].length + Hdr + e[c].length
      <3>1. PICK a \in Nat : a = seg[s].length
        BY <2>4
      <3>2. PICK b \in Nat : b = a - k - Hdr
        BY <2>4, <3>1 DEF Hdr
      <3>3. a = k + Hdr + b
        BY <3>2 DEF Hdr
      <3>4. e[s].length = k /\ e[c].length = b
        BY <2>5, <3>1, <3>2
      <3>. QED  BY <3>1, <3>3, <3>4
    <2>7. Counted(DOMAIN seg, seg, n) <=> Counted(DOMAIN e, e, n)
      BY <2>4, <2>5, <2>6, OneIsTwo
    <2>. QED  BY <2>1, <2>2, <2>3, <2>4, <2>5, <2>7 DEF Total, List
  <1>. QED  BY <1>1, <1>2, <1>3 DEF Hdr

LEMMA TakenCounts ==
  ASSUME NEW h, List(h), NEW s \in DOMAIN h.seg, NEW k \in Nat \ {0}, NEW n \in Nat,
         Total(h, n)
  PROVE  Total(Taken(h, s, k), n)
  <1>. DEFINE no == FALSE
              cut == IF CurSize(h, s) > k THEN Split(h, s, k) ELSE h
              g == [cut EXCEPT !.seg[s].free = no]
  <1>1. no \in BOOLEAN /\ Taken(h, s, k) = g
    BY DEF Taken
  <1>. HIDE DEF no
  <1>2. List(cut) /\ s \in DOMAIN cut.seg /\ Total(cut, n)
    BY SplitCounts
  <1>. HIDE DEF cut
  <1>3. Total(g, n)
    BY <1>1, <1>2, FlagCounts
  <1>. QED  BY <1>1, <1>3

\* ExpandHeap's new pages are what the list gains.
LEMMA AppendedCounts ==
  ASSUME NEW h, List(h), NEW s \in Nat, s >= ListEnd(h), NEW pages \in Nat \ {0},
         NEW n \in Nat, Total(h, n)
  PROVE  Total(Appended(h, s, pages), n + pages * PageUnits)
  <1>0. PICK length \in Nat \ {0} : length = pages * PageUnits - Hdr
    BY PagesLength
  <1>. DEFINE f == Extension(h, s, length)
  <1>1. /\ Appended(h, s, pages) = CombineBackward(f, s)
        /\ pages * PageUnits \in Nat
    BY <1>0, PagesLength DEF Appended, Extension
  <1>2. PICK seg, L : seg = h.seg /\ L = h.LastHdr
    OBVIOUS
  <1>3. /\ IsHeap(h) /\ Chain(seg, L) /\ s >= L + Hdr + seg[L].length
        /\ Counted(DOMAIN seg, seg, n)
    BY <1>2 DEF List, ListEnd, Total
  <1>4. PICK e : e = Extended(seg, L, s, length)
    OBVIOUS
  <1>5. /\ s \notin DOMAIN seg /\ DOMAIN e = DOMAIN seg \cup {s} /\ e[s].length = length
        /\ \A t \in DOMAIN seg : e[t].length = seg[t].length
    <2>1. \A t \in DOMAIN seg : t \in Nat /\ t <= L
      BY <1>3, UpToLast
    <2>2. L \in DOMAIN seg /\ L \in Nat /\ seg[L].length \in Nat
      BY <1>3, InChain DEF Chain
    <2>3. s \notin DOMAIN seg
      BY <1>3, <2>1, <2>2 DEF Hdr
    <2>4. DOMAIN e = DOMAIN seg \cup {s} /\ e[s] = Header(length, NULL, L, TRUE)
      BY <1>4, <2>3 DEF Extended
    <2>5. ASSUME NEW t \in DOMAIN seg PROVE e[t].length = seg[t].length
      <3>1. CASE t = L
        <4>1. e[t] = Header(seg[L].length, s, seg[L].last, seg[L].free)
          BY <1>4, <2>3, <3>1 DEF Extended
        <4>. QED  BY <3>1, <4>1 DEF Header
      <3>2. CASE t # L
        <4>1. e[t] = seg[t]
          BY <1>4, <2>3, <3>2 DEF Extended
        <4>. QED  BY <4>1
      <3>. QED  BY <3>1, <3>2
    <2>6. e[s].length = length
      BY <2>4 DEF Header
    <2>. QED  BY <2>3, <2>4, <2>5, <2>6
  <1>6. IsHeap(f) /\ f.seg = e /\ f.LastHdr = s
    BY <1>2, <1>3, <1>4, <1>5, ExtendEffect
  <1>7. Chain(e, s)
    BY <1>3, <1>4, ExtendChain
  <1>. HIDE DEF f
  <1>8. PICK k \in Nat : k = n + pages * PageUnits /\ k = n + Hdr + length
    BY <1>0, <1>1 DEF Hdr
  <1>9. Counted(DOMAIN e, e, k)
    <2>1. PICK D, E : D = DOMAIN seg /\ E = DOMAIN e
      OBVIOUS
    <2>2. /\ s \notin D /\ E = D \cup {s} /\ length = e[s].length
          /\ k = n + Hdr + length
      BY <1>5, <1>8, <2>1
    <2>3. Counted(D, e, n)
      BY <1>3, <1>5, <2>1, SameLengths
    <2>4. Counted(E, e, k)
      BY <2>2, <2>3, OneMore
    <2>. QED  BY <2>1, <2>4
  <1>10. List(f) /\ s \in DOMAIN f.seg /\ Total(f, k)
    BY <1>5, <1>6, <1>7, <1>9 DEF List, Total
  <1>. QED  BY <1>1, <1>8, <1>10, CombineBackwardCounts

\* The inductive part of HeapAccounted: a finite number of units that, with those of
\* half-done expansions, makes up the heap.
Growing == IF pc = "expand" THEN heap.heapEnd - expansion.newSegment ELSE 0

AccountInv ==
  /\ IsFiniteSet(SegmentUnits(heap.seg))
  /\ Cardinality(SegmentUnits(heap.seg)) + lost + Growing = heap.heapEnd

LEMMA AccountIs ==
  ASSUME HeapInv, AccountInv
  PROVE  /\ heap.heapEnd \in Nat /\ lost \in Nat /\ Growing \in Nat
         /\ \E n \in Nat : Total(heap, n) /\ n + lost + Growing = heap.heapEnd
  <1>1. heap.heapEnd \in Nat
    BY PagesBound DEF HeapInv, ListInv
  <1>2. Growing \in Nat
    <2>1. CASE pc = "expand"
      BY <1>1, <2>1 DEF HeapInv, CallInv, Growing
    <2>. QED  BY <2>1 DEF Growing
  <1>3. lost \in Nat
    BY DEF HeapInv, CallInv
  <1>4. Cardinality(SegmentUnits(heap.seg)) \in Nat
    BY FS_CardinalityType DEF AccountInv
  <1>. QED  BY <1>1, <1>2, <1>3, <1>4, TotalIs DEF AccountInv

LEMMA CreateAccount ==
  ASSUME HeapInv, AccountInv, CreateHeap
  PROVE  AccountInv'
  <1>1. PICK n \in Nat : Total(heap, n) /\ n + lost + Growing = heap.heapEnd
    BY AccountIs
  <1>2. pc = "boot" /\ heap = NoHeap /\ lost' = lost /\ pc' # "expand"
    BY DEF CreateHeap, HeapInv, ListInv, Started
  <1>3. lost = 0 /\ n = 0
    <2>1. heap.heapEnd = 0 /\ Growing = 0 /\ lost \in Nat
      BY <1>2, AccountIs DEF NoHeap, Growing
    <2>. QED  BY <1>1, <2>1
  <1>4. CASE heap' = heap
    <2>1. Total(heap', n) /\ n + lost' + Growing' = heap'.heapEnd
      BY <1>1, <1>2, <1>4 DEF Total, Growing
    <2>. QED  BY <2>1, TotalIs DEF AccountInv
  <1>5. CASE heap' # heap
    <2>1. PICK k \in Nat \ {0} : k = StartPages * PageUnits - Hdr
      BY PagesLength, HeapAssumption
    <2>2. StartPages * PageUnits \in Nat /\ StartPages * PageUnits = Hdr + k
      BY <2>1, PagesLength, HeapAssumption DEF Hdr
    <2>. DEFINE first == [s \in {0} |-> Header(k, NULL, NULL, TRUE)]
    <2>3. heap' = [NoHeap EXCEPT !.seg = first, !.LastHdr = 0,
                                 !.heapEnd = StartPages * PageUnits, !.usedPages = StartPages]
      BY <1>5, <2>1 DEF CreateHeap
    <2>4. heap'.seg = first /\ heap'.heapEnd = Hdr + k
      BY <2>2, <2>3 DEF NoHeap
    <2>5. DOMAIN heap'.seg = {0} /\ heap'.seg[0].length = k
      BY <2>4 DEF Header
    <2>6. Counted({}, heap'.seg, 0)
      <3>1. UnitsOf({}, heap'.seg) = {}
        BY DEF UnitsOf
      <3>. QED  BY <3>1, FS_EmptySet DEF Counted
    <2>7. PICK m \in Nat : m = 0 + Hdr + k
      BY DEF Hdr
    <2>8. PICK S, T, g : S = {} /\ T = {0} /\ g = heap'.seg
      OBVIOUS
    <2>9. Counted(T, g, m)
      <3>1. 0 \notin S /\ T = S \cup {0}
        BY <2>8
      <3>2. k = g[0].length /\ Counted(S, g, 0)
        BY <2>5, <2>6, <2>8
      <3>. QED  BY <2>7, <3>1, <3>2, OneMore
    <2>10. Total(heap', m) /\ m + lost' + Growing' = heap'.heapEnd
      BY <1>2, <1>3, <2>4, <2>5, <2>7, <2>8, <2>9 DEF Total, Growing, Hdr
    <2>. QED  BY <2>10, TotalIs DEF AccountInv
  <1>. QED  BY <1>4, <1>5

LEMMA TakeAccount ==
  ASSUME HeapInv, AccountInv, TakeSegment
  PROVE  AccountInv'
  <1>1. PICK n \in Nat : Total(heap, n) /\ n + lost + Growing = heap.heapEnd
    BY AccountIs
  <1>2. PICK s \in DOMAIN heap.seg, k \in Nat \ {0} :
          s = currentSeg /\ k = call.size /\ heap' = Taken(heap, s, k)
    BY CallSize DEF TakeSegment, HeapInv, CallInv, InCall
  <1>3. /\ List(heap) /\ NoFreeNeighbours(heap.seg) /\ heap.seg[s].free
        /\ lost' = lost /\ Growing = 0 /\ Growing' = 0
    BY <1>2 DEF TakeSegment, Fits, HeapInv, ListInv, Started, Growing
  <1>4. heap'.heapEnd = heap.heapEnd
    BY <1>2, <1>3, TakenEffect
  <1>5. Total(heap', n)
    BY <1>1, <1>2, <1>3, TakenCounts
  <1>. QED  BY <1>1, <1>3, <1>4, <1>5, TotalIs DEF AccountInv

LEMMA FreeAccount ==
  ASSUME HeapInv, AccountInv, NEW b \in DOMAIN live, Free(b)
  PROVE  AccountInv'
  <1>1. PICK n \in Nat : Total(heap, n) /\ n + lost + Growing = heap.heapEnd
    BY AccountIs
  <1>2. /\ b \in DOMAIN heap.seg /\ heap' = Freed(heap, b)
        /\ List(heap) /\ NoFreeNeighbours(heap.seg)
        /\ lost' = lost /\ Growing = 0 /\ Growing' = 0
    BY DEF Free, HeapInv, LiveInv, ListInv, Started, Growing
  <1>3. heap'.heapEnd = heap.heapEnd
    BY <1>2, FreedEffect
  <1>4. Total(heap', n)
    BY <1>1, <1>2, FreedCounts
  <1>. QED  BY <1>1, <1>2, <1>3, <1>4, TotalIs DEF AccountInv

LEMMA FinishAccount ==
  ASSUME HeapInv, AccountInv, FinishExpansion
  PROVE  AccountInv'
  <1>1. PICK n \in Nat : Total(heap, n) /\ n + lost + Growing = heap.heapEnd
    BY AccountIs
  <1>2. /\ pc = "expand" /\ expansion.todo = 0 /\ pc' = "search" /\ lost' = lost
        /\ heap' = Appended(heap, expansion.newSegment, PagesFor(call.size))
    BY DEF FinishExpansion
  <1>3. PICK s \in Nat, pages \in Nat \ {0} :
          s = expansion.newSegment /\ pages = PagesFor(call.size)
    BY <1>2, CallSize, PagesForSize DEF HeapInv, CallInv, InCall
  <1>4. /\ List(heap) /\ NoFreeNeighbours(heap.seg) /\ s >= ListEnd(heap)
        /\ heap' = Appended(heap, s, pages) /\ pages * PageUnits \in Nat
    <2>1. List(heap) /\ NoFreeNeighbours(heap.seg) /\ ListEnd(heap) \in Nat
      BY <1>2, ListEndNat DEF HeapInv, ListInv, Started
    <2>. QED  BY <1>2, <1>3, <2>1, PagesLength DEF HeapInv, CallInv
  <1>5. Growing = pages * PageUnits /\ Growing' = 0
    <2>1. heap.heapEnd + 0 * PageUnits = s + pages * PageUnits
      BY <1>2, <1>3 DEF HeapInv, CallInv
    <2>2. heap.heapEnd \in Nat /\ 0 * PageUnits = 0
      BY AccountIs, HeapAssumption
    <2>. QED  BY <1>2, <1>3, <1>4, <2>1, <2>2 DEF Growing
  <1>6. heap'.heapEnd = heap.heapEnd
    BY <1>4, AppendedEffect
  <1>7. Total(heap', n + pages * PageUnits)
    BY <1>1, <1>4, AppendedCounts
  <1>8. n + pages * PageUnits + lost' + Growing' = heap'.heapEnd
    BY <1>1, <1>2, <1>4, <1>5, <1>6, AccountIs
  <1>. QED  BY <1>7, <1>8, TotalIs DEF AccountInv

LEMMA MapAccount ==
  ASSUME HeapInv, AccountInv, MapPage
  PROVE  AccountInv'
  <1>1. PICK n \in Nat : Total(heap, n) /\ n + lost + Growing = heap.heapEnd
    BY AccountIs
  <1>2. /\ pc = "expand" /\ pc' = "expand" /\ lost' = lost /\ PageUnits \in Nat
        /\ heap' = [heap EXCEPT !.heapEnd = @ + PageUnits, !.usedPages = @ + 1]
        /\ expansion.newSegment \in Nat /\ expansion'.newSegment = expansion.newSegment
    BY HeapAssumption DEF MapPage, HeapInv, CallInv
  <1>3. heap'.seg = heap.seg /\ heap'.heapEnd = heap.heapEnd + PageUnits
    BY <1>2 DEF HeapInv, ListInv, IsHeap
  <1>4. heap.heapEnd \in Nat /\ lost \in Nat
    BY AccountIs
  <1>5. n + lost' + Growing' = heap'.heapEnd
    BY <1>1, <1>2, <1>3, <1>4 DEF Growing
  <1>6. Total(heap', n)
    BY <1>1, <1>3 DEF Total
  <1>. QED  BY <1>5, <1>6, TotalIs DEF AccountInv

LEMMA FailAccount ==
  ASSUME HeapInv, AccountInv, ExpansionFails
  PROVE  AccountInv'
  <1>1. PICK n \in Nat : Total(heap, n) /\ n + lost + Growing = heap.heapEnd
    BY AccountIs
  <1>2. /\ pc = "expand" /\ pc' = "idle" /\ heap' = heap
        /\ lost' = lost + (heap.heapEnd - expansion.newSegment)
    BY DEF ExpansionFails
  <1>3. lost' = lost + Growing /\ Growing' = 0
    BY <1>2 DEF Growing
  <1>4. n + lost' + Growing' = heap'.heapEnd
    BY <1>1, <1>2, <1>3, AccountIs
  <1>5. Total(heap', n)
    BY <1>1, <1>2
  <1>. QED  BY <1>4, <1>5, TotalIs DEF AccountInv

LEMMA AccountInit == Init => AccountInv
  <1>. SUFFICES ASSUME Init PROVE AccountInv
    OBVIOUS
  <1>1. heap = NoHeap /\ pc = "boot" /\ lost = 0
    BY DEF Init
  <1>2. heap.heapEnd = 0 /\ heap.seg = [s \in {} |-> 0] /\ Growing = 0
    BY <1>1 DEF NoHeap, Growing
  <1>3. SegmentUnits(heap.seg) = {}
    BY <1>2 DEF SegmentUnits
  <1>. QED  BY <1>1, <1>2, <1>3, FS_EmptySet DEF AccountInv

LEMMA AccountNext == HeapInv /\ AccountInv /\ [Next]_vars => AccountInv'
  <1>. SUFFICES ASSUME HeapInv, AccountInv, [Next]_vars PROVE AccountInv'
    OBVIOUS
  <1>1. ASSUME heap' = heap, lost' = lost, Growing' = Growing PROVE AccountInv'
    BY <1>1 DEF AccountInv
  <1>2. CASE CreateHeap \/ TakeSegment \/ MapPage \/ ExpansionFails \/ FinishExpansion
    BY <1>2, CreateAccount, TakeAccount, MapAccount, FailAccount, FinishAccount
  <1>3. CASE NextSegment
    BY <1>1, <1>3 DEF NextSegment, Growing
  <1>4. CASE StartExpansion
    <2>1. heap.heapEnd \in Nat
      BY AccountIs
    <2>. QED  BY <1>1, <1>4, <2>1 DEF StartExpansion, Growing
  <1>5. CASE \E op \in {"malloc", "calloc"}, n \in Sizes : Request(op, n)
    BY <1>1, <1>5 DEF Request, Growing
  <1>6. CASE \E b \in DOMAIN live : Free(b)
    BY <1>6, FreeAccount
  <1>7. CASE UNCHANGED vars
    BY <1>1, <1>7 DEF vars, Growing
  <1>. QED  BY <1>2, <1>3, <1>4, <1>5, <1>6, <1>7 DEF Next, HeapStep

\* No unit of the heap is lost or counted twice: in every state the segments with
\* their headers, the pages of the expansion under way and those failed expansions
\* left behind are as many units as the heap has, and usedPages is its size.
THEOREM HeapAccounting == Spec => []HeapAccounted
  <1>1. HeapInv /\ AccountInv => HeapAccounted
    BY DEF AccountInv, Growing, HeapAccounted, HeapInv, ListInv
  <1>2. Spec => []AccountInv
    BY AccountInit, AccountNext, HeapInvariant, PTL DEF Spec
  <1>. QED  BY <1>1, <1>2, HeapInvariant, PTL
=============================================================================
