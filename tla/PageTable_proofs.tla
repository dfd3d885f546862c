-------------------------- MODULE PageTable_proofs --------------------------
(* The tables stay a tree and the tree a map from pages to pages, for      *)
(* every number of entries in a table, every pool of frames and whatever   *)
(* is mapped, unmapped and moved.                                          *)
EXTENDS PageTable, FiniteSetTheorems, FunctionTheorems,
        WellFoundedInduction, TLAPS

-----------------------------------------------------------------------------
(* Indexes: a page is what its four indexes say it is.                     *)

(* Quotients and remainders are given names the provers leave closed: with *)
(* a divisor that is not a number they must not calculate with them.       *)

Quot(n, d) == n \div d
Rem(n, d) == n % d

LEMMA DivMod ==
  ASSUME NEW n \in Nat, NEW d \in Nat \ {0}
  PROVE  \E q \in Nat, x \in Nat :
           q = Quot(n, d) /\ x = Rem(n, d) /\ x < d /\ n = q * d + x
  <1>1. d \in Nat /\ d > 0
    OBVIOUS
  <1>2. n \div d \in Int
    BY <1>1
  <1>3. n \div d >= 0
    BY <1>1
  <1>4. n % d >= 0 /\ n % d < d
    BY <1>1
  <1>5. n % d \in Nat
    OBVIOUS
  <1>6. PICK q \in Nat : q = n \div d
    BY <1>2, <1>3
  <1>7. n % d = n - d * q
    BY <1>1, <1>6
  <1>8. PICK x \in Nat : x = n % d
    BY <1>5
  <1>9. x < d
    BY <1>4, <1>8
  <1>10. n = q * d + x
    <2>1. x = n - d * q
      BY <1>7, <1>8
    <2>. QED  BY <2>1
  <1>. QED  BY <1>6, <1>8, <1>9, <1>10 DEF Quot, Rem

LEMMA RemSmall ==
  ASSUME NEW n \in Nat, NEW d \in Nat, n < d
  PROVE  Rem(n, d) = n
  BY DEF Rem

LEMMA DivUnique ==
  ASSUME NEW n \in Nat, NEW d \in Nat \ {0}, NEW q \in Nat, q * d <= n, n < (q + 1) * d
  PROVE  Quot(n, d) = q
  BY DEF Quot

\* Multiplication keeps the order.
LEMMA TimesMonotone ==
  ASSUME NEW x \in Nat, NEW y \in Nat, NEW d \in Nat, y <= x
  PROVE  y * d \in Nat /\ x * d \in Nat /\ y * d <= x * d
  OBVIOUS

LEMMA DivTwice ==
  ASSUME NEW n \in Nat, NEW c \in Nat \ {0}, NEW d \in Nat \ {0},
         NEW m \in Nat, m = c * d
  PROVE  Quot(n, m) = Quot(Quot(n, c), d)
  <1>1. PICK q \in Nat, x \in Nat : q = Quot(n, c) /\ x < c /\ n = q * c + x
    BY DivMod
  <1>2. PICK r \in Nat, y \in Nat : r = Quot(q, d) /\ y < d /\ q = r * d + y
    BY DivMod
  <1>4. m \in Nat \ {0} /\ m = c * d
    OBVIOUS
  <1>5. PICK z \in Nat : z = r * d
    OBVIOUS
  <1>6. z * c = r * m
    <2>1. (r * d) * c = r * (c * d)
      OBVIOUS
    <2>. QED  BY <2>1, <1>4, <1>5
  <1>7. q * c = r * m + y * c
    <2>1. q = z + y
      BY <1>2, <1>5
    <2>2. (z + y) * c = z * c + y * c
      OBVIOUS
    <2>. QED  BY <1>6, <2>1, <2>2
  <1>8. y * c + x < m
    <2>1. (y + 1) * c <= d * c
      BY <1>2, TimesMonotone
    <2>2. (y + 1) * c = y * c + c /\ d * c = c * d /\ y * c \in Nat
      OBVIOUS
    <2>. QED  BY <1>1, <1>4, <2>1, <2>2
  <1>9. r * m <= n /\ n < (r + 1) * m
    <2>1. y * c \in Nat /\ r * m \in Nat /\ (r + 1) * m = r * m + m
      OBVIOUS
    <2>2. n = r * m + y * c + x
      BY <1>1, <1>7
    <2>. QED  BY <1>8, <2>1, <2>2
  <1>10. Quot(n, m) = r
    BY <1>4, <1>9, DivUnique
  <1>. QED  BY <1>1, <1>2, <1>10

LEMMA EntriesNat == Entries \in Nat \ {0}
  BY PageTableAssumption

LEMMA IndexAt ==
  ASSUME NEW v
  PROVE  /\ Index(v, 0) = Rem(v, Entries)
         /\ Index(v, 1) = Rem(Quot(v, Entries), Entries)
         /\ Index(v, 2) = Rem(Quot(v, Entries * Entries), Entries)
         /\ Index(v, 3) = Rem(Quot(v, Entries * Entries * Entries), Entries)
  BY DEF Index, Rem, Quot

LEMMA IndexInRange ==
  ASSUME NEW v \in Nat
  PROVE  /\ Index(v, 0) \in Indexes /\ Index(v, 1) \in Indexes
         /\ Index(v, 2) \in Indexes /\ Index(v, 3) \in Indexes
  <1>1. ASSUME NEW n \in Nat PROVE Rem(n, Entries) \in Indexes
    <2>1. PICK d \in Nat \ {0} : d = Entries
      BY EntriesNat
    <2>2. PICK x \in Nat : x = Rem(n, d) /\ x < d
      BY DivMod
    <2>. QED  BY <2>1, <2>2 DEF Indexes
  <1>2. ASSUME NEW d \in Nat \ {0} PROVE Rem(Quot(v, d), Entries) \in Indexes
    BY <1>1, DivMod
  <1>3. PICK E2 \in Nat \ {0} : E2 = Entries * Entries
    BY EntriesNat
  <1>4. PICK E3 \in Nat \ {0} : E3 = E2 * Entries
    BY EntriesNat
  <1>. QED  BY <1>1, <1>2, <1>3, <1>4, EntriesNat, IndexAt

\* A number below d * d * d * d is made of its four digits.
LEMMA FourDigits ==
  ASSUME NEW v \in Nat, NEW d \in Nat \ {0}, NEW d2 \in Nat \ {0}, NEW d3 \in Nat \ {0},
         d2 = d * d, d3 = d2 * d, v < d3 * d
  PROVE  v = ((Rem(Quot(v, d3), d) * d + Rem(Quot(v, d2), d)) * d + Rem(Quot(v, d), d)) * d
             + Rem(v, d)
  <1>1. PICK a \in Nat, p \in Nat : a = Quot(v, d) /\ p = Rem(v, d) /\ v = a * d + p
    BY DivMod
  <1>2. PICK b \in Nat, q \in Nat : b = Quot(a, d) /\ q = Rem(a, d) /\ a = b * d + q
    BY DivMod
  <1>3. PICK c \in Nat, r \in Nat : c = Quot(b, d) /\ r = Rem(b, d) /\ b = c * d + r
    BY DivMod
  <1>4. Quot(v, d2) = b
    <2>1. Quot(v, d2) = Quot(Quot(v, d), d)
      BY DivTwice
    <2>. QED  BY <1>1, <1>2, <2>1
  <1>5. Quot(v, d3) = c
    <2>1. Quot(v, d3) = Quot(Quot(v, d2), d)
      BY DivTwice
    <2>. QED  BY <1>3, <1>4, <2>1
  <1>6. c < d
    <2>. SUFFICES ASSUME d <= c PROVE FALSE
      BY <1>3
    <2>1. d2 <= b
      <3>1. d * d <= c * d
        BY <1>3, TimesMonotone
      <3>. QED  BY <1>3, <3>1
    <2>2. d3 <= a
      <3>1. d2 * d <= b * d
        BY <1>3, <2>1, TimesMonotone
      <3>. QED  BY <1>2, <1>3, <3>1
    <2>3. d3 * d <= a * d
      BY <1>2, <2>2, TimesMonotone
    <2>. QED  BY <1>1, <2>3
  <1>7. Rem(c, d) = c
    BY <1>3, <1>6, RemSmall
  <1>. QED  BY <1>1, <1>2, <1>3, <1>4, <1>5, <1>7

\* A page is what its indexes say.
LEMMA IndexDigits ==
  ASSUME NEW v \in AllPages
  PROVE  LET E == Entries
         IN  v = ((Index(v, 3) * E + Index(v, 2)) * E + Index(v, 1)) * E + Index(v, 0)
  <1>1. PICK n \in Nat, d \in Nat \ {0}, d2 \in Nat \ {0}, d3 \in Nat \ {0} :
          n = v /\ d = Entries /\ d2 = d * d /\ d3 = d2 * d /\ n < d3 * d
    BY EntriesNat DEF AllPages
  <1>2. n = ((Rem(Quot(n, d3), d) * d + Rem(Quot(n, d2), d)) * d + Rem(Quot(n, d), d)) * d
           + Rem(n, d)
    BY <1>1, FourDigits
  <1>. QED  BY <1>1, <1>2, IndexAt

LEMMA SamePage ==
  ASSUME NEW v \in AllPages, NEW w \in AllPages, Index(v, 0) = Index(w, 0),
         Index(v, 1) = Index(w, 1), Index(v, 2) = Index(w, 2), Index(v, 3) = Index(w, 3)
  PROVE  v = w
  BY IndexDigits

-----------------------------------------------------------------------------
(* The shape of the tables.  lvl gives every table its level: 3 to the     *)
(* root, 0 to the tables whose entries are pages.                          *)

TypedTables(m) ==
  /\ DOMAIN m \subseteq Nat /\ IsFiniteSet(DOMAIN m)
  /\ \A t \in DOMAIN m : m[t] \in [Indexes -> EntryType]
  /\ \A t \in DOMAIN m, i \in Indexes : m[t][i].present \/ m[t][i] = Clear

Levelled(m, root, lvl) ==
  /\ \A t \in DOMAIN m : lvl[t] \in 0 .. 3
  /\ root \in DOMAIN m
  /\ \A t \in DOMAIN m : lvl[t] = 3 <=> t = root

\* An entry of a table that is not a last one refers to a table a level lower.
Down(m, lvl) ==
  \A t \in DOMAIN m, i \in Indexes :
    lvl[t] > 0 /\ m[t][i].present =>
      m[t][i].address \in DOMAIN m /\ lvl[m[t][i].address] = lvl[t] - 1

OneParent(m, lvl) ==
  \A t \in DOMAIN m, u \in DOMAIN m, i \in Indexes, j \in Indexes :
    /\ lvl[t] > 0 /\ m[t][i].present /\ lvl[u] > 0 /\ m[u][j].present
    /\ m[t][i].address = m[u][j].address
    => t = u /\ i = j

NoneLost(m, root, lvl) ==
  \A c \in DOMAIN m \ {root} :
    \E t \in DOMAIN m, i \in Indexes :
      lvl[t] > 0 /\ m[t][i].present /\ m[t][i].address = c

Shaped(m, root, lvl) ==
  Levelled(m, root, lvl) /\ Down(m, lvl) /\ OneParent(m, lvl) /\ NoneLost(m, root, lvl)

\* The tables v is translated through: levels 2, 1 and 0.
Path(m, root, v, a, b, c) ==
  /\ m[root][Index(v, 3)].present /\ m[root][Index(v, 3)].address = a
  /\ m[a][Index(v, 2)].present /\ m[a][Index(v, 2)].address = b
  /\ m[b][Index(v, 1)].present /\ m[b][Index(v, 1)].address = c

\* The processor translates v to p.
Translates(m, root, v, p) ==
  \E a \in DOMAIN m, b \in DOMAIN m, c \in DOMAIN m :
    /\ Path(m, root, v, a, b, c)
    /\ m[c][Index(v, 0)].present /\ m[c][Index(v, 0)].address = p

PageIndexes(v) ==
  /\ Index(v, 0) \in Indexes /\ Index(v, 1) \in Indexes
  /\ Index(v, 2) \in Indexes /\ Index(v, 3) \in Indexes

LEMMA PagesIndexed ==
  ASSUME NEW v \in AllPages
  PROVE  v \in Nat /\ PageIndexes(v)
  <1>1. v \in Nat
    BY EntriesNat DEF AllPages
  <1>. QED  BY <1>1, IndexInRange DEF PageIndexes

LEMMA OnPath ==
  ASSUME NEW root, NEW m, NEW lvl, Shaped(m, root, lvl), NEW v \in AllPages,
         NEW a, NEW b, NEW c, Path(m, root, v, a, b, c)
  PROVE  /\ a \in DOMAIN m /\ lvl[a] = 2 /\ b \in DOMAIN m /\ lvl[b] = 1
         /\ c \in DOMAIN m /\ lvl[c] = 0
  <1>1. root \in DOMAIN m /\ lvl[root] = 3
    BY DEF Shaped, Levelled
  <1>2. /\ Index(v, 3) \in Indexes /\ Index(v, 2) \in Indexes /\ Index(v, 1) \in Indexes
    BY PagesIndexed DEF PageIndexes
  <1>3. a \in DOMAIN m /\ lvl[a] = 2
    BY <1>1, <1>2 DEF Path, Shaped, Down
  <1>4. b \in DOMAIN m /\ lvl[b] = 1
    BY <1>2, <1>3 DEF Path, Shaped, Down
  <1>5. c \in DOMAIN m /\ lvl[c] = 0
    BY <1>2, <1>4 DEF Path, Shaped, Down
  <1>. QED  BY <1>3, <1>4, <1>5

\* Two pages that share the last table share all of them and differ in the
\* last index only.
LEMMA SameLastTable ==
  ASSUME NEW root, NEW m, NEW lvl, Shaped(m, root, lvl),
         NEW v \in AllPages, NEW w \in AllPages, NEW a, NEW b, NEW c, Path(m, root, v, a, b, c),
         NEW x, NEW y, Path(m, root, w, x, y, c),
         Index(v, 0) = Index(w, 0)
  PROVE  v = w
  <1>1. /\ a \in DOMAIN m /\ lvl[a] = 2 /\ b \in DOMAIN m /\ lvl[b] = 1
        /\ x \in DOMAIN m /\ lvl[x] = 2 /\ y \in DOMAIN m /\ lvl[y] = 1
        /\ root \in DOMAIN m /\ lvl[root] = 3
    BY OnPath DEF Shaped, Levelled
  <1>2. PageIndexes(v) /\ PageIndexes(w)
    BY PagesIndexed
  <1>3. b = y /\ Index(v, 1) = Index(w, 1)
    BY <1>1, <1>2 DEF Path, Shaped, OneParent, PageIndexes
  <1>4. a = x /\ Index(v, 2) = Index(w, 2)
    BY <1>1, <1>2, <1>3 DEF Path, Shaped, OneParent, PageIndexes
  <1>5. Index(v, 3) = Index(w, 3)
    BY <1>1, <1>2, <1>4 DEF Path, Shaped, OneParent, PageIndexes
  <1>. QED  BY <1>3, <1>4, <1>5, SamePage

LEMMA LeafOnPath ==
  ASSUME NEW root, PML4 = root, NEW m, NEW v, NEW a, NEW b, NEW c \in Nat,
         Path(m, root, v, a, b, c)
  PROVE  LeafTable(m, v) = c /\ HasLeaf(m, v) /\ Leaf(m, v) = m[c][Index(v, 0)]
  <1>1. LeafTable(m, v) = c
    BY DEF LeafTable, Path
  <1>. QED  BY <1>1 DEF HasLeaf, Leaf

LEMMA PathOfLeaf ==
  ASSUME NEW root, PML4 = root, NEW m, NEW lvl, TypedTables(m), Shaped(m, root, lvl),
         NEW v \in AllPages, HasLeaf(m, v)
  PROVE  \E a \in DOMAIN m, b \in DOMAIN m, c \in DOMAIN m :
           /\ Path(m, root, v, a, b, c) /\ c \in Nat
           /\ LeafTable(m, v) = c /\ Leaf(m, v) = m[c][Index(v, 0)]
  <1>1. PICK a, b, c : Path(m, root, v, a, b, c)
    BY DEF HasLeaf, LeafTable, Path
  <1>2. a \in DOMAIN m /\ b \in DOMAIN m /\ c \in DOMAIN m
    BY <1>1, OnPath
  <1>3. c \in Nat
    BY <1>2 DEF TypedTables
  <1>. QED  BY <1>1, <1>2, <1>3, LeafOnPath

\* The root table alone, before anything is mapped.
LEMMA RootAlone ==
  ASSUME NEW root \in Nat, NEW m, m = [f \in {root} |-> ZeroTable]
  PROVE  /\ DOMAIN m = {root} /\ TypedTables(m)
         /\ \E lvl : Shaped(m, root, lvl)
  <1>1. /\ DOMAIN m = {root} /\ \A i \in Indexes : m[root][i] = Clear
        /\ m[root] \in [Indexes -> EntryType]
    BY DEF ZeroTable, Clear, EntryType
  <1>2. TypedTables(m)
    <2>1. IsFiniteSet({root}) /\ {root} \subseteq Nat
      BY FS_Singleton
    <2>2. \A t \in DOMAIN m : m[t] \in [Indexes -> EntryType]
      BY <1>1
    <2>3. \A t \in DOMAIN m, i \in Indexes : m[t][i].present \/ m[t][i] = Clear
      BY <1>1
    <2>. QED  BY <1>1, <2>1, <2>2, <2>3, Zenon DEF TypedTables
  <1>3. PICK lvl : lvl = [t \in {root} |-> 3]
    OBVIOUS
  <1>4. Shaped(m, root, lvl)
    BY <1>1, <1>3 DEF Shaped, Levelled, Down, OneParent, NoneLost, Clear
  <1>. QED  BY <1>1, <1>2, <1>4

-----------------------------------------------------------------------------
(* The two ways a table changes: a cleared one is added under an entry,    *)
(* and an entry is written.                                                *)

AddTable(m, t, i, f) ==
  [[x \in DOMAIN m \cup {f} |-> IF x = f THEN ZeroTable ELSE m[x]]
     EXCEPT ![t][i] = Entry(f)]

SetEntry(m, t, i, e) == [m EXCEPT ![t][i] = e]

Written(m, m2, t, i, e) ==
  /\ m2[t][i] = e
  /\ \A x \in DOMAIN m, j \in Indexes : x # t \/ j # i => m2[x][j] = m[x][j]

LEMMA SetEntryEffect ==
  ASSUME NEW m, TypedTables(m), NEW t \in DOMAIN m, NEW i \in Indexes, NEW e \in EntryType,
         e.present \/ e = Clear
  PROVE  /\ DOMAIN SetEntry(m, t, i, e) = DOMAIN m /\ TypedTables(SetEntry(m, t, i, e))
         /\ Written(m, SetEntry(m, t, i, e), t, i, e)
  <1>. DEFINE m2 == SetEntry(m, t, i, e)
  <1>1. DOMAIN m2 = DOMAIN m
    BY DEF SetEntry
  <1>2. m[t] \in [Indexes -> EntryType]
    BY DEF TypedTables
  <1>3. m2[t] = [m[t] EXCEPT ![i] = e] /\ \A x \in DOMAIN m : x # t => m2[x] = m[x]
    BY DEF SetEntry
  <1>4. m2[t][i] = e /\ \A j \in Indexes : j # i => m2[t][j] = m[t][j]
    BY <1>2, <1>3
  <1>5. m2[t] \in [Indexes -> EntryType]
    BY <1>2, <1>3
  <1>. HIDE DEF m2
  <1>6. TypedTables(m2)
    <2>1. \A x \in DOMAIN m2 : m2[x] \in [Indexes -> EntryType]
      BY <1>1, <1>3, <1>5 DEF TypedTables
    <2>2. ASSUME NEW x \in DOMAIN m2, NEW j \in Indexes
          PROVE  m2[x][j].present \/ m2[x][j] = Clear
      <3>1. CASE x = t /\ j = i
        BY <1>4, <3>1
      <3>2. CASE x # t \/ j # i
        BY <1>1, <1>3, <1>4, <3>2 DEF TypedTables
      <3>. QED  BY <3>1, <3>2
    <2>. QED  BY <1>1, <2>1, <2>2 DEF TypedTables
  <1>7. Written(m, m2, t, i, e)
    BY <1>3, <1>4 DEF Written
  <1>. QED  BY <1>1, <1>6, <1>7 DEF m2

Added(m, m2, t, i, f) ==
  /\ DOMAIN m2 = DOMAIN m \cup {f}
  /\ m2[t][i] = Entry(f)
  /\ \A x \in DOMAIN m \ {f}, j \in Indexes : x # t \/ j # i => m2[x][j] = m[x][j]
  /\ \A j \in Indexes : f # t \/ j # i => m2[f][j] = Clear

LEMMA AddTableEffect ==
  ASSUME NEW m, TypedTables(m), NEW t \in DOMAIN m, NEW i \in Indexes, NEW f \in Nat
  PROVE  TypedTables(AddTable(m, t, i, f)) /\ Added(m, AddTable(m, t, i, f), t, i, f)
  <1>. DEFINE cleared == [x \in DOMAIN m \cup {f} |-> IF x = f THEN ZeroTable ELSE m[x]]
              m2 == AddTable(m, t, i, f)
  <1>1. Clear \in EntryType /\ Entry(f) \in EntryType /\ Entry(f).present
    BY DEF Clear, Entry, EntryType
  <1>2. ZeroTable \in [Indexes -> EntryType] /\ \A j \in Indexes : ZeroTable[j] = Clear
    BY <1>1 DEF ZeroTable
  <1>3. /\ DOMAIN cleared = DOMAIN m \cup {f} /\ cleared[f] = ZeroTable
        /\ \A x \in DOMAIN m \ {f} : cleared[x] = m[x]
    OBVIOUS
  <1>. HIDE DEF cleared
  <1>4. TypedTables(cleared)
    <2>1. IsFiniteSet(DOMAIN cleared) /\ DOMAIN cleared \subseteq Nat
      BY <1>3, FS_AddElement DEF TypedTables
    <2>2. \A x \in DOMAIN cleared : cleared[x] \in [Indexes -> EntryType]
      BY <1>2, <1>3 DEF TypedTables
    <2>3. \A x \in DOMAIN cleared, j \in Indexes :
            cleared[x][j].present \/ cleared[x][j] = Clear
      BY <1>2, <1>3 DEF TypedTables
    <2>. QED  BY <2>1, <2>2, <2>3 DEF TypedTables
  <1>5. m2 = SetEntry(cleared, t, i, Entry(f))
    BY DEF AddTable, SetEntry, cleared
  <1>6. t \in DOMAIN cleared
    BY <1>3
  <1>7. /\ DOMAIN m2 = DOMAIN cleared /\ TypedTables(m2)
        /\ Written(cleared, m2, t, i, Entry(f))
    BY <1>1, <1>4, <1>5, <1>6, SetEntryEffect
  <1>. HIDE DEF m2
  <1>8. Added(m, m2, t, i, f)
    BY <1>2, <1>3, <1>7 DEF Added, Written
  <1>. QED  BY <1>7, <1>8 DEF m2

\* What a fresh table under an empty entry does to the shape: it is one level
\* below its parent, and everything else stays where it was.
NewLevel(lvl, m, t, f) == [x \in DOMAIN m \cup {f} |-> IF x = f THEN lvl[t] - 1 ELSE lvl[x]]

LEMMA AddedShape ==
  ASSUME NEW root, NEW m, TypedTables(m), NEW lvl, Shaped(m, root, lvl), NEW t \in DOMAIN m,
         lvl[t] > 0, NEW i \in Indexes, ~m[t][i].present, NEW f \in Nat \ DOMAIN m,
         NEW m2, Added(m, m2, t, i, f)
  PROVE  Shaped(m2, root, NewLevel(lvl, m, t, f))
  <1>. DEFINE lvl2 == NewLevel(lvl, m, t, f)
  <1>1. /\ lvl2[f] = lvl[t] - 1 /\ \A x \in DOMAIN m : lvl2[x] = lvl[x]
        /\ DOMAIN m2 = DOMAIN m \cup {f} /\ f # t /\ lvl[t] \in 1 .. 3
    BY DEF NewLevel, Added, Shaped, Levelled
  <1>2. /\ m2[t][i].present /\ m2[t][i].address = f
        /\ \A x \in DOMAIN m, j \in Indexes : x # t \/ j # i => m2[x][j] = m[x][j]
        /\ \A j \in Indexes : ~m2[f][j].present
    BY <1>1 DEF Added, Entry, Clear
  <1>. HIDE DEF lvl2
  <1>3. Levelled(m2, root, lvl2)
    BY <1>1 DEF Shaped, Levelled
  <1>4. Down(m2, lvl2)
    <2>. SUFFICES ASSUME NEW x \in DOMAIN m2, NEW j \in Indexes,
                         lvl2[x] > 0, m2[x][j].present
                  PROVE  /\ m2[x][j].address \in DOMAIN m2
                         /\ lvl2[m2[x][j].address] = lvl2[x] - 1
      BY DEF Down
    <2>1. x \in DOMAIN m
      BY <1>1, <1>2
    <2>2. CASE x = t /\ j = i
      BY <1>1, <1>2, <2>2
    <2>3. CASE x # t \/ j # i
      BY <1>1, <1>2, <2>1, <2>3 DEF Shaped, Down
    <2>. QED  BY <2>2, <2>3
  <1>5. OneParent(m2, lvl2)
    <2>. SUFFICES ASSUME NEW x \in DOMAIN m2, NEW y \in DOMAIN m2,
                         NEW j \in Indexes, NEW k \in Indexes,
                         lvl2[x] > 0, m2[x][j].present, lvl2[y] > 0, m2[y][k].present,
                         m2[x][j].address = m2[y][k].address
                  PROVE  x = y /\ j = k
      BY DEF OneParent
    <2>1. x \in DOMAIN m /\ y \in DOMAIN m
      BY <1>1, <1>2
    <2>2. ASSUME NEW z \in DOMAIN m, NEW h \in Indexes, z # t \/ h # i,
                 lvl2[z] > 0, m2[z][h].present
          PROVE  m2[z][h].address # f
      BY <1>1, <1>2, <2>2 DEF Shaped, Down
    <2>3. CASE x = t /\ j = i
      BY <1>2, <2>1, <2>2, <2>3
    <2>4. CASE y = t /\ k = i
      BY <1>2, <2>1, <2>2, <2>4
    <2>5. CASE (x # t \/ j # i) /\ (y # t \/ k # i)
      BY <1>1, <1>2, <2>1, <2>5 DEF Shaped, OneParent
    <2>. QED  BY <2>3, <2>4, <2>5
  <1>6. NoneLost(m2, root, lvl2)
    <2>. SUFFICES ASSUME NEW c \in DOMAIN m2 \ {root}
                  PROVE  \E x \in DOMAIN m2, j \in Indexes :
                           lvl2[x] > 0 /\ m2[x][j].present /\ m2[x][j].address = c
      BY DEF NoneLost
    <2>1. CASE c = f
      BY <1>1, <1>2, <2>1
    <2>2. CASE c # f
      <3>1. PICK x \in DOMAIN m, j \in Indexes :
              lvl[x] > 0 /\ m[x][j].present /\ m[x][j].address = c
        BY <1>1, <2>2 DEF Shaped, NoneLost
      <3>. QED  BY <1>1, <1>2, <3>1
    <2>. QED  BY <2>1, <2>2
  <1>. QED  BY <1>3, <1>4, <1>5, <1>6 DEF Shaped, lvl2

\* A fresh table is empty, so no page is translated differently.
LEMMA AddedKeeps ==
  ASSUME NEW root, NEW m, TypedTables(m), NEW lvl, Shaped(m, root, lvl), NEW t \in DOMAIN m,
         lvl[t] > 0, NEW i \in Indexes, ~m[t][i].present, NEW f \in Nat \ DOMAIN m,
         NEW m2, Added(m, m2, t, i, f), NEW v \in AllPages, NEW p
  PROVE  Translates(m2, root, v, p) <=> Translates(m, root, v, p)
  <1>1. /\ DOMAIN m2 = DOMAIN m \cup {f} /\ f # t
        /\ m2[t][i].present /\ m2[t][i].address = f
        /\ \A x \in DOMAIN m, j \in Indexes : x # t \/ j # i => m2[x][j] = m[x][j]
        /\ \A j \in Indexes : ~m2[f][j].present
    BY DEF Added, Entry, Clear
  <1>2. PageIndexes(v) /\ root \in DOMAIN m /\ lvl[root] = 3
    BY PagesIndexed DEF Shaped, Levelled
  <1>3. ASSUME Translates(m, root, v, p) PROVE Translates(m2, root, v, p)
    <2>1. PICK a, b, c :
            /\ Path(m, root, v, a, b, c)
            /\ m[c][Index(v, 0)].present /\ m[c][Index(v, 0)].address = p
      BY <1>3 DEF Translates
    <2>2. /\ a \in DOMAIN m /\ b \in DOMAIN m /\ c \in DOMAIN m /\ c # t
      BY <2>1, OnPath
    <2>3. Path(m2, root, v, a, b, c)
      BY <1>1, <1>2, <2>1, <2>2 DEF Path, PageIndexes
    <2>4. m2[c][Index(v, 0)] = m[c][Index(v, 0)]
      BY <1>1, <1>2, <2>2 DEF PageIndexes
    <2>. QED  BY <1>1, <2>1, <2>2, <2>3, <2>4 DEF Translates
  <1>4. ASSUME Translates(m2, root, v, p) PROVE Translates(m, root, v, p)
    <2>1. PICK a, b, c :
            /\ Path(m2, root, v, a, b, c)
            /\ m2[c][Index(v, 0)].present /\ m2[c][Index(v, 0)].address = p
      BY <1>4 DEF Translates
    <2>2. a # f /\ b # f /\ c # f
      BY <1>1, <1>2, <2>1 DEF Path, PageIndexes
    <2>3. /\ m[root][Index(v, 3)].present /\ m[root][Index(v, 3)].address = a
          /\ a \in DOMAIN m
      BY <1>1, <1>2, <2>1, <2>2 DEF Path, PageIndexes, Shaped, Down
    <2>4. lvl[a] = 2
      BY <1>2, <2>3 DEF PageIndexes, Shaped, Down
    <2>5. m[a][Index(v, 2)].present /\ m[a][Index(v, 2)].address = b
      BY <1>1, <1>2, <2>1, <2>2, <2>3 DEF Path, PageIndexes
    <2>6. b \in DOMAIN m /\ lvl[b] = 1
      BY <1>2, <2>3, <2>4, <2>5 DEF PageIndexes, Shaped, Down
    <2>7. m[b][Index(v, 1)].present /\ m[b][Index(v, 1)].address = c
      BY <1>1, <1>2, <2>1, <2>2, <2>6 DEF Path, PageIndexes
    <2>8. Path(m, root, v, a, b, c)
      BY <2>1, <2>3, <2>5, <2>7 DEF Path
    <2>9. a \in DOMAIN m /\ b \in DOMAIN m /\ c \in DOMAIN m /\ c # t
      BY <2>8, OnPath
    <2>10. m2[c][Index(v, 0)] = m[c][Index(v, 0)]
      BY <1>1, <1>2, <2>9 DEF PageIndexes
    <2>. QED  BY <2>1, <2>8, <2>9, <2>10 DEF Translates
  <1>. QED  BY <1>3, <1>4

\* An entry of a last table is written: the shape stays, the page it belongs to
\* is translated as the entry says, and every other one as before.
LEMMA LeafWritten ==
  ASSUME NEW root, NEW m, TypedTables(m), NEW lvl, Shaped(m, root, lvl), NEW v \in AllPages,
         NEW a, NEW b, NEW c, Path(m, root, v, a, b, c), NEW e,
         NEW m2, DOMAIN m2 = DOMAIN m, Written(m, m2, c, Index(v, 0), e)
  PROVE  /\ Shaped(m2, root, lvl) /\ Path(m2, root, v, a, b, c)
         /\ \A p : Translates(m2, root, v, p) <=> e.present /\ e.address = p
         /\ \A w \in AllPages : \A p :
              w # v => (Translates(m2, root, w, p) <=> Translates(m, root, w, p))
  <1>1. /\ a \in DOMAIN m /\ lvl[a] = 2 /\ b \in DOMAIN m /\ lvl[b] = 1
        /\ c \in DOMAIN m /\ lvl[c] = 0
    BY OnPath
  <1>2. \A x \in DOMAIN m, j \in Indexes : lvl[x] > 0 => m2[x][j] = m[x][j]
    BY <1>1 DEF Written
  <1>3. Shaped(m2, root, lvl)
    <2>1. Levelled(m2, root, lvl)
      BY DEF Shaped, Levelled
    <2>2. Down(m2, lvl)
      BY <1>2 DEF Shaped, Down
    <2>3. OneParent(m2, lvl)
      BY <1>2 DEF Shaped, OneParent
    <2>4. NoneLost(m2, root, lvl)
      BY <1>2 DEF Shaped, NoneLost
    <2>. QED  BY <2>1, <2>2, <2>3, <2>4 DEF Shaped
  <1>4. ASSUME NEW w \in AllPages, NEW x, NEW y, NEW z
        PROVE  Path(m2, root, w, x, y, z) <=> Path(m, root, w, x, y, z)
    <2>1. PageIndexes(w) /\ root \in DOMAIN m /\ lvl[root] = 3
      BY PagesIndexed DEF Shaped, Levelled
    <2>2. ASSUME Path(m, root, w, x, y, z) PROVE Path(m2, root, w, x, y, z)
      <3>1. x \in DOMAIN m /\ lvl[x] = 2 /\ y \in DOMAIN m /\ lvl[y] = 1
        BY <2>2, OnPath
      <3>. QED  BY <1>2, <2>1, <2>2, <3>1 DEF Path, PageIndexes
    <2>3. ASSUME Path(m2, root, w, x, y, z) PROVE Path(m, root, w, x, y, z)
      <3>1. x \in DOMAIN m2 /\ lvl[x] = 2 /\ y \in DOMAIN m2 /\ lvl[y] = 1
        BY <1>3, <2>3, OnPath
      <3>. QED  BY <1>2, <2>1, <2>3, <3>1 DEF Path, PageIndexes
    <2>. QED  BY <2>2, <2>3
  <1>5. PageIndexes(v)
    BY PagesIndexed
  <1>6. ASSUME NEW p PROVE Translates(m2, root, v, p) <=> e.present /\ e.address = p
    <2>1. ASSUME NEW x, NEW y, NEW z, Path(m2, root, v, x, y, z) PROVE z = c
      BY <1>4, <2>1 DEF Path
    <2>2. Path(m2, root, v, a, b, c) /\ m2[c][Index(v, 0)] = e
      BY <1>4 DEF Written
    <2>. QED  BY <1>1, <2>1, <2>2 DEF Translates
  <1>7. ASSUME NEW w \in AllPages, NEW p, w # v
        PROVE  Translates(m2, root, w, p) <=> Translates(m, root, w, p)
    <2>1. PageIndexes(w)
      BY PagesIndexed
    <2>2. ASSUME NEW x, NEW y, NEW z, Path(m, root, w, x, y, z), z \in DOMAIN m
          PROVE  m2[z][Index(w, 0)] = m[z][Index(w, 0)]
      <3>1. z = c => Index(w, 0) # Index(v, 0)
        BY <1>7, <2>2, SameLastTable
      <3>. QED  BY <2>1, <2>2, <3>1 DEF Written, PageIndexes
    <2>3. ASSUME NEW x, NEW y, NEW z, Path(m, root, w, x, y, z)
          PROVE  x \in DOMAIN m /\ y \in DOMAIN m /\ z \in DOMAIN m
      BY <2>3, OnPath
    <2>. QED  BY <1>4, <2>2, <2>3 DEF Translates
  <1>. QED  BY <1>3, <1>4, <1>6, <1>7

-----------------------------------------------------------------------------
(* WithTable on the three variables: as long as one table was put at NULL  *)
(* at most, the tables are a tree; afterwards everything happens in the    *)
(* table at NULL, which refers to itself at most.                          *)

Sound(tree, root, lvl) ==
  /\ TypedTables(tree.mem) /\ Shaped(tree.mem, root, lvl)
  /\ tree.free \subseteq Nat \ {0} /\ (DOMAIN tree.mem) \cap tree.free = {}
  /\ tree.refused \in {0, 1} /\ (0 \in DOMAIN tree.mem <=> tree.refused = 1)

Broken(tree) ==
  /\ TypedTables(tree.mem) /\ 0 \in DOMAIN tree.mem
  /\ \A i \in Indexes : tree.mem[0][i].present => tree.mem[0][i].address = 0
  /\ tree.free = {} /\ tree.refused \in Nat /\ tree.refused > 1

\* Either the tables are a tree and t is one of them, of level k, or all is
\* lost and t is the table at NULL.
At(tree, root, lvl, t, k) ==
  \/ Sound(tree, root, lvl) /\ t \in DOMAIN tree.mem /\ lvl[t] = k
  \/ Broken(tree) /\ t = 0

\* The pages m translates are those n translates, to the same frames.
SamePages(n, m, root) ==
  \A v \in AllPages : \A p : Translates(n, root, v, p) <=> Translates(m, root, v, p)

\* Entries that are present stay.
EntriesKept(m, n) ==
  \A t \in DOMAIN m, i \in Indexes : m[t][i].present => t \in DOMAIN n /\ n[t][i] = m[t][i]

LEMMA Requested ==
  ASSUME NEW S, S \subseteq Nat \ {0}
  PROVE  /\ RequestPage(S) \in Nat
         /\ IF S = {} THEN RequestPage(S) = 0 ELSE RequestPage(S) \in S \ {0}
  <1>1. CASE S = {}
    BY <1>1 DEF RequestPage
  <1>2. CASE S # {}
    <2>1. S \subseteq Nat
      OBVIOUS
    <2>2. \E p \in S : \A q \in S : p <= q
      <3>1. PICK p \in S : \A q \in S : <<q, p>> \notin OpToRel(<, Nat)
        BY <1>2, <2>1, WFMin, NatLessThanWellFounded
      <3>2. ASSUME NEW q \in S PROVE p <= q
        <4>1. <<q, p>> \in Nat \X Nat /\ p \in Nat /\ q \in Nat
          BY <2>1, <3>1
        <4>2. ~ (q < p)
          BY <3>1, <4>1 DEF OpToRel
        <4>. QED  BY <4>1, <4>2
      <3>. QED  BY <3>1, <3>2
    <2>3. Lowest(S) \in S
      BY <2>2 DEF Lowest
    <2>. QED  BY <1>2, <2>1, <2>3 DEF RequestPage
  <1>. QED  BY <1>1, <1>2

LEMMA WithTableIs ==
  ASSUME NEW tree, NEW t, NEW i
  PROVE  LET f == RequestPage(tree.free)
             R == WithTable(tree, t, i)
         IN  /\ tree.mem[t][i].present => R = tree
             /\ ~tree.mem[t][i].present =>
                  /\ DOMAIN R = {"mem", "free", "refused"}
                  /\ R.mem = AddTable(tree.mem, t, i, f) /\ R.free = tree.free \ {f}
                  /\ R.refused = IF f = 0 THEN tree.refused + 1 ELSE tree.refused
  BY DEF WithTable, AddTable

LEMMA WithTableStep ==
  ASSUME NEW root, NEW tree, NEW lvl, NEW t, NEW k \in 1 .. 3, NEW i \in Indexes,
         At(tree, root, lvl, t, k), NEW R, R = WithTable(tree, t, i)
  PROVE  \E lvl2 :
           /\ At(R, root, lvl2, Child(R, t, i), k - 1)
           /\ Sound(R, root, lvl2) =>
                /\ Sound(tree, root, lvl) /\ SamePages(R.mem, tree.mem, root)
                /\ EntriesKept(tree.mem, R.mem) /\ t \in DOMAIN R.mem
                /\ R.mem[t][i].present
  <1>. DEFINE m == tree.mem
              f == RequestPage(tree.free)
  <1>1. CASE Sound(tree, root, lvl) /\ m[t][i].present
    <2>1. R = tree
      BY <1>1, WithTableIs
    <2>2. t \in DOMAIN m /\ lvl[t] = k
      BY <1>1 DEF At, Sound, Broken
    <2>3. Child(R, t, i) \in DOMAIN m /\ lvl[Child(R, t, i)] = k - 1
      BY <1>1, <2>1, <2>2 DEF Child, Sound, Shaped, Down
    <2>4. SamePages(R.mem, m, root) /\ EntriesKept(m, R.mem)
      BY <2>1 DEF SamePages, EntriesKept
    <2>. QED  BY <1>1, <2>1, <2>2, <2>3, <2>4 DEF At
  <1>2. CASE Sound(tree, root, lvl) /\ ~m[t][i].present /\ f \notin DOMAIN m
    <2>1. /\ R.mem = AddTable(m, t, i, f) /\ R.free = tree.free \ {f}
          /\ R.refused = IF f = 0 THEN tree.refused + 1 ELSE tree.refused
      BY <1>2, WithTableIs
    <2>2. t \in DOMAIN m /\ lvl[t] = k /\ lvl[t] > 0 /\ TypedTables(m) /\ Shaped(m, root, lvl)
      BY <1>2 DEF At, Sound, Broken
    <2>3. f \in Nat \ DOMAIN m /\ tree.free \subseteq Nat \ {0}
      BY <1>2, Requested DEF Sound
    <2>4. TypedTables(R.mem) /\ Added(m, R.mem, t, i, f)
      BY <2>1, <2>2, <2>3, AddTableEffect
    <2>5. PICK lvl2 : lvl2 = NewLevel(lvl, m, t, f) /\ Shaped(R.mem, root, lvl2)
      BY <1>2, <2>2, <2>3, <2>4, AddedShape
    <2>6. Sound(R, root, lvl2)
      <3>1. R.refused \in {0, 1} /\ (0 \in DOMAIN R.mem <=> R.refused = 1)
        <4>1. CASE f = 0
          BY <1>2, <2>1, <2>4, <4>1 DEF Sound, Added
        <4>2. CASE f # 0
          BY <1>2, <2>1, <2>4, <4>2 DEF Sound, Added
        <4>. QED  BY <4>1, <4>2
      <3>2. (DOMAIN R.mem) \cap R.free = {} /\ R.free \subseteq Nat \ {0}
        BY <1>2, <2>1, <2>4 DEF Sound, Added
      <3>. QED  BY <2>4, <2>5, <3>1, <3>2 DEF Sound
    <2>7. SamePages(R.mem, m, root)
      BY <1>2, <2>2, <2>3, <2>4, AddedKeeps DEF SamePages
    <2>8. EntriesKept(m, R.mem) /\ t \in DOMAIN R.mem
      BY <1>2, <2>2, <2>3, <2>4 DEF EntriesKept, Added
    <2>9. Child(R, t, i) = f /\ R.mem[t][i].present /\ f \in DOMAIN R.mem /\ lvl2[f] = k - 1
      BY <2>2, <2>4, <2>5 DEF Child, Added, Entry, NewLevel
    <2>. QED  BY <1>2, <2>6, <2>7, <2>8, <2>9 DEF At
  <1>3. CASE Sound(tree, root, lvl) /\ ~m[t][i].present /\ f \in DOMAIN m
    <2>1. /\ R.mem = AddTable(m, t, i, f) /\ R.free = tree.free \ {f}
          /\ R.refused = IF f = 0 THEN tree.refused + 1 ELSE tree.refused
      BY <1>3, WithTableIs
    <2>2. f = 0 /\ tree.free = {} /\ tree.refused = 1
      BY <1>3, Requested DEF Sound
    <2>3. t \in DOMAIN m /\ TypedTables(m)
      BY <1>3 DEF At, Sound, Broken
    <2>4. TypedTables(R.mem) /\ Added(m, R.mem, t, i, 0)
      BY <2>1, <2>2, <2>3, AddTableEffect
    <2>5. R.free = {} /\ R.refused = 2
      BY <2>1, <2>2
    <2>6. \A j \in Indexes : R.mem[0][j].present => R.mem[0][j].address = 0
      BY <2>4 DEF Added, Entry, Clear
    <2>7. Broken(R) /\ Child(R, t, i) = 0
      BY <2>4, <2>5, <2>6 DEF Broken, Added, Child, Entry
    <2>8. ~Sound(R, root, lvl)
      BY <2>5 DEF Sound
    <2>. QED  BY <2>7, <2>8 DEF At
  <1>4. CASE Broken(tree)
    <2>1. t = 0 /\ 0 \in DOMAIN m /\ TypedTables(m) /\ ~Sound(R, root, lvl)
      <3>1. tree.refused > 1 /\ tree.refused \in Nat /\ tree.free = {}
        BY <1>4 DEF Broken
      <3>2. R.refused > 1
        BY <1>4, <3>1, WithTableIs, Requested
      <3>. QED  BY <1>4, <3>2 DEF At, Sound, Broken
    <2>2. CASE m[t][i].present
      BY <1>4, <2>1, <2>2, WithTableIs DEF At, Broken, Child
    <2>3. CASE ~m[t][i].present
      <3>1. tree.free = {} /\ f = 0 /\ tree.refused \in Nat /\ tree.refused > 1
        BY <1>4 DEF Broken, RequestPage
      <3>2. R.mem = AddTable(m, t, i, 0) /\ R.free = {} /\ R.refused = tree.refused + 1
        <4>1. /\ R.mem = AddTable(m, t, i, f) /\ R.free = tree.free \ {f}
              /\ R.refused = IF f = 0 THEN tree.refused + 1 ELSE tree.refused
          BY <2>3, WithTableIs
        <4>. HIDE DEF f, m
        <4>. QED  BY <3>1, <4>1
      <3>3. TypedTables(R.mem) /\ Added(m, R.mem, t, i, 0)
        BY <2>1, <3>2, AddTableEffect
      <3>4. \A j \in Indexes : R.mem[0][j].present => R.mem[0][j].address = 0
        BY <3>3 DEF Added, Entry, Clear
      <3>5. Broken(R) /\ Child(R, t, i) = 0
        BY <3>1, <3>2, <3>3, <3>4 DEF Broken, Added, Child, Entry
      <3>. QED  BY <2>1, <3>5 DEF At
    <2>. QED  BY <2>2, <2>3
  <1>. QED  BY <1>1, <1>2, <1>3, <1>4 DEF At

IsTree(tree) == DOMAIN tree = {"mem", "free", "refused"}

\* The types alone, which survive the loss of the tree.
Loose(tree) ==
  TypedTables(tree.mem) /\ tree.free \subseteq Nat \ {0} /\ tree.refused \in Nat

LEMMA AtLoose ==
  ASSUME NEW root, NEW tree, NEW lvl, NEW t, NEW k, At(tree, root, lvl, t, k)
  PROVE  Loose(tree) /\ t \in DOMAIN tree.mem
  BY DEF At, Sound, Broken, Loose

\* n translates v to p and every other page as m does.
MapsOnly(m, n, root, v, p) ==
  /\ \A q : Translates(n, root, v, q) <=> q = p
  /\ \A w \in AllPages : \A q :
       w # v => (Translates(n, root, w, q) <=> Translates(m, root, w, q))

\* n does not translate v, and every other page as m does.
UnmapsOnly(m, n, root, v) ==
  /\ \A q : ~Translates(n, root, v, q)
  /\ \A w \in AllPages : \A q :
       w # v => (Translates(n, root, w, q) <=> Translates(m, root, w, q))

\* A page is mapped as asked and no other page is touched, or a second table
\* was put at NULL.
LEMMA MappedStep ==
  ASSUME NEW root, PML4 = root, NEW tree, IsTree(tree), NEW lvl, Sound(tree, root, lvl),
         NEW v \in AllPages, NEW p \in Nat, NEW R, R = Mapped(tree, v, p)
  PROVE  /\ Loose(R) /\ R.free \subseteq tree.free
         /\ R.refused < 2 =>
              (\E lvl2 : Sound(R, root, lvl2)) /\ MapsOnly(tree.mem, R.mem, root, v, p)
  <1>. DEFINE i3 == Index(v, 3)
              i2 == Index(v, 2)
              i1 == Index(v, 1)
              i0 == Index(v, 0)
  <1>0. i3 \in Indexes /\ i2 \in Indexes /\ i1 \in Indexes /\ i0 \in Indexes
    BY PagesIndexed DEF PageIndexes
  <1>1. PICK tree1, PDP : tree1 = WithTable(tree, root, i3) /\ PDP = Child(tree1, root, i3)
    OBVIOUS
  <1>2. PICK tree2, PD : tree2 = WithTable(tree1, PDP, i2) /\ PD = Child(tree2, PDP, i2)
    OBVIOUS
  <1>3. PICK tree3, PT : tree3 = WithTable(tree2, PD, i1) /\ PT = Child(tree3, PD, i1)
    OBVIOUS
  <1>4. R = [tree3 EXCEPT !.mem[PT][i0] = Entry(p)]
    BY <1>1, <1>2, <1>3 DEF Mapped
  <1>5. IsTree(tree3)
    <2>1. IsTree(tree1)
      BY <1>1, WithTableIs DEF IsTree
    <2>2. IsTree(tree2)
      BY <1>2, <2>1, WithTableIs DEF IsTree
    <2>. QED  BY <1>3, <2>2, WithTableIs DEF IsTree
  <1>. HIDE DEF i3, i2, i1, i0
  <1>6. R.mem = SetEntry(tree3.mem, PT, i0, Entry(p))
        /\ R.free = tree3.free /\ R.refused = tree3.refused
    BY <1>4, <1>5 DEF IsTree, SetEntry
  <1>7. At(tree, root, lvl, root, 3)
    BY DEF At, Sound, Shaped, Levelled
  <1>8. PICK l1 :
          /\ At(tree1, root, l1, PDP, 2)
          /\ Sound(tree1, root, l1) =>
               /\ SamePages(tree1.mem, tree.mem, root)
               /\ root \in DOMAIN tree1.mem /\ tree1.mem[root][i3].present
    <2>1. 3 \in 1 .. 3 /\ 3 - 1 = 2
      OBVIOUS
    <2>. QED  BY <1>0, <1>1, <1>7, <2>1, WithTableStep
  <1>9. PICK l2 :
          /\ At(tree2, root, l2, PD, 1)
          /\ Sound(tree2, root, l2) =>
               /\ Sound(tree1, root, l1) /\ SamePages(tree2.mem, tree1.mem, root)
               /\ EntriesKept(tree1.mem, tree2.mem)
               /\ PDP \in DOMAIN tree2.mem /\ tree2.mem[PDP][i2].present
    <2>1. 2 \in 1 .. 3 /\ 2 - 1 = 1
      OBVIOUS
    <2>. QED  BY <1>0, <1>2, <1>8, <2>1, WithTableStep
  <1>10. PICK l3 :
          /\ At(tree3, root, l3, PT, 0)
          /\ Sound(tree3, root, l3) =>
               /\ Sound(tree2, root, l2) /\ SamePages(tree3.mem, tree2.mem, root)
               /\ EntriesKept(tree2.mem, tree3.mem) /\ tree3.mem[PD][i1].present
    <2>1. 1 \in 1 .. 3 /\ 1 - 1 = 0
      OBVIOUS
    <2>. QED  BY <1>0, <1>3, <1>9, <2>1, WithTableStep
  <1>11. Entry(p) \in EntryType /\ Entry(p).present /\ Entry(p).address = p
    BY DEF Entry, EntryType
  <1>12. Loose(tree3) /\ PT \in DOMAIN tree3.mem
    BY <1>10, AtLoose
  <1>13. /\ DOMAIN R.mem = DOMAIN tree3.mem /\ TypedTables(R.mem)
         /\ Written(tree3.mem, R.mem, PT, i0, Entry(p))
    BY <1>0, <1>6, <1>11, <1>12, SetEntryEffect DEF Loose
  <1>14. Loose(R) /\ R.free \subseteq tree.free
    <2>1. /\ tree1.free \subseteq tree.free /\ tree2.free \subseteq tree1.free
          /\ tree3.free \subseteq tree2.free
      BY <1>1, <1>2, <1>3, WithTableIs
    <2>. QED  BY <1>6, <1>12, <1>13, <2>1 DEF Loose
  <1>15. ASSUME R.refused < 2
         PROVE  (\E lvl2 : Sound(R, root, lvl2)) /\ MapsOnly(tree.mem, R.mem, root, v, p)
    <2>1. Sound(tree3, root, l3) /\ PT \in DOMAIN tree3.mem
      BY <1>6, <1>10, <1>12, <1>15 DEF At, Broken
    <2>2. Sound(tree2, root, l2) /\ Sound(tree1, root, l1)
      BY <1>9, <1>10, <2>1
    <2>3. Path(tree3.mem, root, v, PDP, PD, PT)
      <3>1. tree1.mem[root][i3].present /\ tree1.mem[root][i3].address = PDP
        BY <1>1, <1>8, <2>2 DEF Child
      <3>2. tree2.mem[root][i3] = tree1.mem[root][i3] /\ root \in DOMAIN tree2.mem
        BY <1>0, <1>8, <1>9, <2>2, <3>1 DEF EntriesKept
      <3>3. tree3.mem[root][i3] = tree1.mem[root][i3]
        BY <1>0, <1>10, <2>1, <3>1, <3>2 DEF EntriesKept
      <3>4. tree2.mem[PDP][i2].present /\ tree2.mem[PDP][i2].address = PD
        BY <1>2, <1>9, <2>2 DEF Child
      <3>5. tree3.mem[PDP][i2] = tree2.mem[PDP][i2]
        BY <1>0, <1>9, <1>10, <2>1, <2>2, <3>4 DEF EntriesKept
      <3>6. tree3.mem[PD][i1].present /\ tree3.mem[PD][i1].address = PT
        BY <1>3, <1>10, <2>1 DEF Child
      <3>. QED  BY <3>1, <3>3, <3>4, <3>5, <3>6 DEF Path, i3, i2, i1
    <2>4. TypedTables(tree3.mem) /\ Shaped(tree3.mem, root, l3)
      BY <2>1 DEF Sound
    <2>5. /\ Shaped(R.mem, root, l3)
          /\ \A q : Translates(R.mem, root, v, q) <=> q = p
          /\ \A w \in AllPages : \A q :
               w # v => (Translates(R.mem, root, w, q) <=> Translates(tree3.mem, root, w, q))
      <3>1. Written(tree3.mem, R.mem, PT, Index(v, 0), Entry(p))
        BY <1>13 DEF i0
      <3>2. PICK n, m, e : n = R.mem /\ m = tree3.mem /\ e = Entry(p)
        OBVIOUS
      <3>3. /\ Shaped(n, root, l3)
            /\ \A q : Translates(n, root, v, q) <=> e.present /\ e.address = q
            /\ \A w \in AllPages : \A q :
                 w # v => (Translates(n, root, w, q) <=> Translates(m, root, w, q))
        BY <1>13, <2>3, <2>4, <3>1, <3>2, LeafWritten
      <3>. QED  BY <1>11, <3>2, <3>3
    <2>6. Sound(R, root, l3)
      BY <1>6, <1>13, <2>1, <2>5 DEF Sound
    <2>7. \A w \in AllPages : \A q :
            Translates(tree3.mem, root, w, q) <=> Translates(tree.mem, root, w, q)
      BY <1>8, <1>9, <1>10, <2>1, <2>2 DEF SamePages
    <2>. QED  BY <2>5, <2>6, <2>7 DEF MapsOnly
  <1>. QED  BY <1>14, <1>15

\* A page is unmapped as asked, whether or not it was mapped.
LEMMA UnmappedStep ==
  ASSUME NEW root, PML4 = root, NEW m, NEW lvl, TypedTables(m), Shaped(m, root, lvl),
         NEW v \in AllPages,
         NEW m2, m2 = Unmapped(m, v)
  PROVE  /\ DOMAIN m2 = DOMAIN m /\ TypedTables(m2) /\ Shaped(m2, root, lvl)
         /\ UnmapsOnly(m, m2, root, v)
  <1>1. CASE HasLeaf(m, v)
    <2>1. PICK a \in DOMAIN m, b \in DOMAIN m, c \in DOMAIN m :
            Path(m, root, v, a, b, c) /\ LeafTable(m, v) = c
      BY <1>1, PathOfLeaf
    <2>2. m2 = SetEntry(m, c, Index(v, 0), Clear)
      BY <1>1, <2>1 DEF Unmapped, SetEntry
    <2>3. Index(v, 0) \in Indexes /\ Clear \in EntryType /\ ~Clear.present
      BY PagesIndexed DEF PageIndexes, Clear, EntryType
    <2>4. /\ DOMAIN m2 = DOMAIN m /\ TypedTables(m2)
          /\ Written(m, m2, c, Index(v, 0), Clear)
      BY <2>2, <2>3, SetEntryEffect
    <2>5. /\ Shaped(m2, root, lvl)
          /\ \A q : ~Translates(m2, root, v, q)
          /\ \A w \in AllPages : \A q :
               w # v => (Translates(m2, root, w, q) <=> Translates(m, root, w, q))
      BY <2>1, <2>3, <2>4, LeafWritten
    <2>. QED  BY <2>4, <2>5 DEF UnmapsOnly
  <1>2. CASE ~HasLeaf(m, v)
    <2>1. m2 = m
      BY <1>2 DEF Unmapped
    <2>2. ASSUME NEW q, Translates(m, root, v, q) PROVE FALSE
      <3>1. PICK a \in DOMAIN m, b \in DOMAIN m, c \in DOMAIN m : Path(m, root, v, a, b, c)
        BY <2>2 DEF Translates
      <3>2. c \in Nat
        BY <3>1 DEF TypedTables
      <3>. QED  BY <1>2, <3>1, <3>2, LeafOnPath
    <2>. QED  BY <2>1, <2>2 DEF UnmapsOnly
  <1>. QED  BY <1>1, <1>2

\* What WalkMemory finds is what the processor translates to.
LEMMA WalkTranslates ==
  ASSUME NEW root, PML4 = root, NEW m, NEW lvl, TypedTables(m), Shaped(m, root, lvl),
         NEW v \in AllPages
  PROVE  /\ WalkMemory(m, v) \in Nat
         /\ WalkMemory(m, v) # 0 => Translates(m, root, v, WalkMemory(m, v))
         /\ \A p : Translates(m, root, v, p) =>
              /\ HasLeaf(m, v) /\ Leaf(m, v).present /\ Leaf(m, v).address = p
              /\ WalkMemory(m, v) = p
         /\ HasLeaf(m, v) /\ Leaf(m, v).present => Translates(m, root, v, Leaf(m, v).address)
         /\ ~(HasLeaf(m, v) /\ Leaf(m, v).present) => WalkMemory(m, v) = 0
  <1>0. Index(v, 0) \in Indexes
    BY PagesIndexed DEF PageIndexes
  <1>1. ASSUME NEW p, Translates(m, root, v, p)
        PROVE  HasLeaf(m, v) /\ Leaf(m, v).present /\ Leaf(m, v).address = p
    <2>1. PICK a \in DOMAIN m, b \in DOMAIN m, c \in DOMAIN m :
            /\ Path(m, root, v, a, b, c)
            /\ m[c][Index(v, 0)].present /\ m[c][Index(v, 0)].address = p
      BY <1>1 DEF Translates
    <2>2. c \in Nat
      BY <2>1 DEF TypedTables
    <2>. QED  BY <2>1, <2>2, LeafOnPath
  <1>2. CASE HasLeaf(m, v)
    <2>1. PICK a \in DOMAIN m, b \in DOMAIN m, c \in DOMAIN m :
            Path(m, root, v, a, b, c) /\ Leaf(m, v) = m[c][Index(v, 0)]
      BY <1>2, PathOfLeaf
    <2>2. /\ m[c][Index(v, 0)] \in EntryType
          /\ m[c][Index(v, 0)].present \/ m[c][Index(v, 0)] = Clear
      BY <1>0, <2>1 DEF TypedTables
    <2>3. /\ Leaf(m, v).address \in Nat
          /\ Leaf(m, v).present \/ Leaf(m, v).address = 0
      BY <2>1, <2>2 DEF EntryType, Clear
    <2>4. Leaf(m, v).present => Translates(m, root, v, Leaf(m, v).address)
      BY <2>1 DEF Translates
    <2>5. WalkMemory(m, v) = Leaf(m, v).address
      BY <1>2 DEF WalkMemory
    <2>. QED  BY <1>1, <1>2, <2>3, <2>4, <2>5
  <1>3. CASE ~HasLeaf(m, v)
    BY <1>1, <1>3 DEF WalkMemory
  <1>. QED  BY <1>2, <1>3

-----------------------------------------------------------------------------
(* The invariant.                                                          *)

TreeInv ==
  /\ PML4 = Root /\ Loose(Tree) /\ free \subseteq Frames
  /\ refused < 2 => \E lvl : Sound(Tree, Root, lvl)

RunInv ==
  /\ run \in [first : Nat, ptr : Nat, stop : Nat]
  /\ run.first <= run.ptr /\ run.ptr <= run.stop
  /\ (run.first .. run.stop - 1) \subseteq VirtualPages
  /\ refused < 2 => \A v \in run.first .. run.ptr - 1 : Translates(mem, Root, v, v)

PageTableInv == TreeInv /\ RunInv

LEMMA PagesNamed == VirtualPages \subseteq AllPages /\ PhysicalPages \subseteq Nat
  BY PageTableAssumption DEF AllPages

\* One call of Mapped.
LEMMA BecomesMapped ==
  ASSUME PML4 = Root, NEW tree, IsTree(tree), NEW lvl, Sound(tree, Root, lvl),
         NEW v \in AllPages, NEW p \in Nat, Becomes(Mapped(tree, v, p))
  PROVE  /\ Loose(Tree') /\ free' \subseteq tree.free
         /\ refused' < 2 =>
              (\E lvl2 : Sound(Tree', Root, lvl2)) /\ MapsOnly(tree.mem, mem', Root, v, p)
  <1>1. PICK R : R = Mapped(tree, v, p)
    OBVIOUS
  <1>2. mem' = R.mem /\ free' = R.free /\ refused' = R.refused
    BY <1>1 DEF Becomes
  <1>3. /\ Loose(R) /\ R.free \subseteq tree.free
        /\ R.refused < 2 =>
             (\E lvl2 : Sound(R, Root, lvl2)) /\ MapsOnly(tree.mem, R.mem, Root, v, p)
    BY <1>1, MappedStep
  <1>4. Tree'.mem = R.mem /\ Tree'.free = R.free /\ Tree'.refused = R.refused
    BY <1>2 DEF Tree
  <1>. QED  BY <1>2, <1>3, <1>4 DEF Loose, Sound

\* What each operation does to the tree and to the translation.
LEMMA TreeIs ==
  /\ IsTree(Tree) /\ Tree.mem = mem /\ Tree.free = free /\ Tree.refused = refused
  /\ Tree'.mem = mem' /\ Tree'.free = free' /\ Tree'.refused = refused'
  BY DEF IsTree, Tree

LEMMA MapMemoryEffect ==
  ASSUME TreeInv, NEW v \in AllPages, NEW p \in Nat, refused < 2, UNCHANGED PML4,
         Becomes(Mapped(Tree, v, p))
  PROVE  TreeInv' /\ (refused' < 2 => MapsOnly(mem, mem', Root, v, p))
  <1>1. PICK lvl : Sound(Tree, Root, lvl)
    BY DEF TreeInv
  <1>2. /\ Loose(Tree') /\ free' \subseteq Tree.free
        /\ refused' < 2 =>
             (\E lvl2 : Sound(Tree', Root, lvl2)) /\ MapsOnly(Tree.mem, mem', Root, v, p)
    BY <1>1, TreeIs, BecomesMapped DEF TreeInv
  <1>. QED  BY <1>2, TreeIs DEF TreeInv

LEMMA MapRequestedEffect ==
  ASSUME TreeInv, NEW v \in VirtualPages, MapRequested(v)
  PROVE  /\ TreeInv' /\ RequestPage(free) \in Nat /\ refused < 2 /\ UNCHANGED run
         /\ refused' < 2 => MapsOnly(mem, mem', Root, v, RequestPage(free))
  <1>1. refused < 2 /\ free # {} /\ UNCHANGED <<PML4, run>>
    BY DEF MapRequested, Ready
  <1>2. PICK lvl : Sound(Tree, Root, lvl)
    BY <1>1 DEF TreeInv
  <1>3. PICK tree, p : tree = [Tree EXCEPT !.free = @ \ {p}] /\ p = RequestPage(free)
    OBVIOUS
  <1>4. /\ IsTree(tree) /\ tree.mem = mem /\ tree.free = free \ {p}
        /\ tree.refused = refused
    BY <1>3, TreeIs DEF IsTree
  <1>5. Sound(tree, Root, lvl)
    BY <1>2, <1>4, TreeIs DEF Sound
  <1>6. p \in Nat /\ v \in AllPages
    BY <1>2, <1>3, TreeIs, Requested, PagesNamed DEF Sound
  <1>7. Becomes(Mapped(tree, v, p))
    BY <1>3 DEF MapRequested
  <1>8. /\ Loose(Tree') /\ free' \subseteq tree.free
        /\ refused' < 2 =>
             (\E lvl2 : Sound(Tree', Root, lvl2)) /\ MapsOnly(tree.mem, mem', Root, v, p)
    BY <1>4, <1>5, <1>6, <1>7, BecomesMapped DEF TreeInv
  <1>. QED  BY <1>1, <1>3, <1>4, <1>6, <1>8 DEF TreeInv

LEMMA UnmapMemoryEffect ==
  ASSUME TreeInv, NEW v \in VirtualPages, UnmapMemory(v)
  PROVE  /\ TreeInv' /\ refused < 2 /\ UNCHANGED <<refused, run>>
         /\ UnmapsOnly(mem, mem', Root, v)
  <1>1. /\ refused < 2 /\ UNCHANGED <<PML4, free, refused, run>>
        /\ mem' = Unmapped(mem, v)
    BY DEF UnmapMemory, Ready
  <1>2. PICK lvl : Sound(Tree, Root, lvl)
    BY <1>1 DEF TreeInv
  <1>3. /\ DOMAIN mem' = DOMAIN mem /\ TypedTables(mem') /\ Shaped(mem', Root, lvl)
        /\ UnmapsOnly(mem, mem', Root, v)
    BY <1>1, <1>2, TreeIs, PagesNamed, UnmappedStep DEF TreeInv, Sound
  <1>4. Sound(Tree', Root, lvl)
    BY <1>1, <1>2, <1>3, TreeIs DEF Sound
  <1>5. Loose(Tree')
    BY <1>1, <1>3, TreeIs DEF Loose, TreeInv
  <1>. QED  BY <1>1, <1>3, <1>4, <1>5 DEF TreeInv

LEMMA RemapMemoryEffect ==
  ASSUME TreeInv, NEW v \in VirtualPages, NEW w \in VirtualPages, RemapMemory(v, w)
  PROVE  /\ TreeInv' /\ refused < 2 /\ UNCHANGED run
         /\ \E p \in Nat :
              /\ Translates(mem, Root, v, p)
              /\ refused' < 2 =>
                   \E m : UnmapsOnly(mem, m, Root, v) /\ MapsOnly(m, mem', Root, w, p)
  <1>1. refused < 2 /\ UNCHANGED <<PML4, run>> /\ WalkMemory(mem, v) # 0
    BY DEF RemapMemory, Ready
  <1>2. PICK lvl : Sound(Tree, Root, lvl)
    BY <1>1 DEF TreeInv
  <1>3. TypedTables(mem) /\ Shaped(mem, Root, lvl) /\ v \in AllPages /\ w \in AllPages
    BY <1>2, TreeIs, PagesNamed DEF Sound
  <1>4. PICK p \in Nat : p = WalkMemory(mem, v) /\ Translates(mem, Root, v, p)
    BY <1>1, <1>3, WalkTranslates DEF TreeInv
  <1>5. PICK m : m = Unmapped(mem, v)
    OBVIOUS
  <1>6. /\ DOMAIN m = DOMAIN mem /\ TypedTables(m) /\ Shaped(m, Root, lvl)
        /\ UnmapsOnly(mem, m, Root, v)
    BY <1>3, <1>5, UnmappedStep DEF TreeInv
  <1>7. PICK tree : tree = [Tree EXCEPT !.mem = Unmapped(@, v)]
    OBVIOUS
  <1>8. IsTree(tree) /\ tree.mem = m /\ tree.free = free /\ tree.refused = refused
    BY <1>5, <1>7, TreeIs DEF IsTree
  <1>9. Sound(tree, Root, lvl)
    BY <1>2, <1>6, <1>8, TreeIs DEF Sound
  <1>10. Becomes(Mapped(tree, w, p))
    BY <1>4, <1>7 DEF RemapMemory
  <1>11. /\ Loose(Tree') /\ free' \subseteq tree.free
         /\ refused' < 2 =>
              (\E lvl2 : Sound(Tree', Root, lvl2)) /\ MapsOnly(m, mem', Root, w, p)
    BY <1>3, <1>8, <1>9, <1>10, BecomesMapped DEF TreeInv
  <1>12. Loose(Tree') /\ free' \subseteq Frames /\ PML4' = Root
    BY <1>1, <1>8, <1>11 DEF TreeInv
  <1>13. TreeInv'
    BY <1>11, <1>12 DEF TreeInv
  <1>. QED  BY <1>1, <1>4, <1>6, <1>11, <1>13

LEMMA IdentityMapPageEffect ==
  ASSUME PageTableInv, IdentityMapPage
  PROVE  /\ TreeInv' /\ refused < 2 /\ run.ptr \in AllPages
         /\ run.ptr < run.stop /\ run' = [run EXCEPT !.ptr = run.ptr + 1]
         /\ refused' < 2 => MapsOnly(mem, mem', Root, run.ptr, run.ptr)
  <1>1. /\ run.ptr < run.stop /\ refused < 2 /\ UNCHANGED PML4
        /\ run' = [run EXCEPT !.ptr = run.ptr + 1]
        /\ Becomes(Mapped(Tree, run.ptr, run.ptr))
    BY DEF IdentityMapPage
  <1>2. PICK v \in Nat : v = run.ptr
    BY DEF PageTableInv, RunInv
  <1>3. v \in AllPages
    BY <1>1, <1>2, PagesNamed DEF PageTableInv, RunInv
  <1>4. TreeInv' /\ (refused' < 2 => MapsOnly(mem, mem', Root, v, v))
    BY <1>1, <1>2, <1>3, MapMemoryEffect DEF PageTableInv
  <1>. QED  BY <1>1, <1>2, <1>3, <1>4

\* Between identity mappings there is nothing to remember.
LEMMA NoRunLeft ==
  ASSUME run = NoRun
  PROVE  RunInv
  BY DEF RunInv, NoRun

LEMMA PageTableInvariant == Spec => []PageTableInv
  <1>1. Init => PageTableInv
    <2>. SUFFICES ASSUME Init PROVE PageTableInv
      OBVIOUS
    <2>1. /\ PML4 = Root /\ mem = [f \in {Root} |-> ZeroTable]
          /\ free = Frames /\ refused = 0 /\ run = NoRun
      BY DEF Init
    <2>2. PICK lvl : DOMAIN mem = {Root} /\ TypedTables(mem) /\ Shaped(mem, Root, lvl)
      BY <2>1, RootAlone, PageTableAssumption
    <2>3. Sound(Tree, Root, lvl)
      BY <2>1, <2>2, TreeIs, PageTableAssumption DEF Sound
    <2>4. Loose(Tree)
      BY <2>1, <2>2, TreeIs, PageTableAssumption DEF Loose
    <2>. QED  BY <2>1, <2>3, <2>4, NoRunLeft DEF PageTableInv, TreeInv
  <1>2. PageTableInv /\ [Next]_vars => PageTableInv'
    <2>. SUFFICES ASSUME PageTableInv, [Next]_vars PROVE PageTableInv'
      OBVIOUS
    <2>0. TreeInv /\ RunInv
      BY DEF PageTableInv
    <2>1. ASSUME run' = NoRun PROVE RunInv'
      BY <2>1 DEF RunInv, NoRun
    <2>2. ASSUME NEW v \in VirtualPages, NEW p \in PhysicalPages, MapMemory(v, p)
          PROVE  PageTableInv'
      <3>1. refused < 2 /\ UNCHANGED <<PML4, run>> /\ run = NoRun
        BY <2>2 DEF MapMemory, Ready
      <3>2. TreeInv'
        BY <2>0, <2>2, <3>1, PagesNamed, MapMemoryEffect DEF MapMemory
      <3>. QED  BY <2>1, <3>1, <3>2 DEF PageTableInv
    <2>3. ASSUME NEW v \in VirtualPages, MapRequested(v) PROVE PageTableInv'
      <3>1. run' = NoRun
        BY <2>3 DEF MapRequested, Ready
      <3>. QED  BY <2>0, <2>1, <2>3, <3>1, MapRequestedEffect DEF PageTableInv
    <2>4. ASSUME NEW v \in VirtualPages, UnmapMemory(v) PROVE PageTableInv'
      <3>1. run' = NoRun
        BY <2>4 DEF UnmapMemory, Ready
      <3>. QED  BY <2>0, <2>1, <2>4, <3>1, UnmapMemoryEffect DEF PageTableInv
    <2>5. ASSUME NEW v \in VirtualPages, NEW w \in VirtualPages, RemapMemory(v, w)
          PROVE  PageTableInv'
      <3>1. run' = NoRun
        BY <2>5 DEF RemapMemory, Ready
      <3>. QED  BY <2>0, <2>1, <2>5, <3>1, RemapMemoryEffect DEF PageTableInv
    <2>6. ASSUME NEW v \in PhysicalPages \cap VirtualPages, NEW n \in 1 .. MaxRun,
                 (v .. v + n - 1) \subseteq PhysicalPages \cap VirtualPages,
                 StartIdentityMap(v, n)
          PROVE  PageTableInv'
      <3>1. /\ run' = [first |-> v, ptr |-> v, stop |-> v + n]
            /\ UNCHANGED <<PML4, mem, free, refused>>
        BY <2>6 DEF StartIdentityMap
      <3>2. v \in Nat /\ n \in Nat
        BY PagesNamed, PageTableAssumption
      <3>3. RunInv'
        BY <2>6, <3>1, <3>2 DEF RunInv
      <3>4. TreeInv'
        BY <2>0, <3>1 DEF TreeInv, Tree
      <3>. QED  BY <3>3, <3>4 DEF PageTableInv
    <2>7. CASE IdentityMapPage
      <3>1. /\ TreeInv' /\ refused < 2 /\ run.ptr \in AllPages /\ run.ptr < run.stop
            /\ run' = [run EXCEPT !.ptr = run.ptr + 1]
            /\ refused' < 2 => MapsOnly(mem, mem', Root, run.ptr, run.ptr)
        BY <2>7, IdentityMapPageEffect
      <3>2. PICK x \in Nat, y \in Nat, z \in Nat :
              x = run.first /\ y = run.ptr /\ z = run.stop /\ x <= y /\ y < z
        BY <2>0, <3>1 DEF RunInv
      <3>3. /\ run' \in [first : Nat, ptr : Nat, stop : Nat]
            /\ run'.first = x /\ run'.ptr = y + 1 /\ run'.stop = z
        BY <2>0, <3>1, <3>2 DEF RunInv
      <3>4. (x .. z - 1) \subseteq VirtualPages
        BY <2>0, <3>2 DEF RunInv
      <3>5. ASSUME refused' < 2, NEW u \in x .. y
            PROVE  Translates(mem', Root, u, u)
        <4>1. u \in AllPages
          BY <3>2, <3>4, PagesNamed
        <4>2. CASE u = y
          BY <3>1, <3>2, <3>5, <4>2 DEF MapsOnly
        <4>3. CASE u # y
          <5>1. u \in x .. y - 1
            BY <3>2, <4>3
          <5>2. Translates(mem, Root, u, u)
            BY <2>0, <3>1, <3>2, <5>1 DEF RunInv
          <5>. QED  BY <3>1, <3>2, <3>5, <4>1, <4>3, <5>2 DEF MapsOnly
        <4>. QED  BY <4>2, <4>3
      <3>6. RunInv'
        <4>1. y + 1 <= z /\ x <= y + 1 /\ (y + 1) - 1 = y
          BY <3>2
        <4>. QED  BY <3>2, <3>3, <3>4, <3>5, <4>1 DEF RunInv
      <3>. QED  BY <3>1, <3>6 DEF PageTableInv
    <2>8. CASE EndIdentityMap
      <3>1. run' = NoRun /\ UNCHANGED <<PML4, mem, free, refused>>
        BY <2>8 DEF EndIdentityMap
      <3>. QED  BY <2>0, <2>1, <3>1 DEF PageTableInv, TreeInv, Tree
    <2>9. CASE UNCHANGED vars
      BY <2>0, <2>9 DEF vars, PageTableInv, TreeInv, RunInv, Tree
    <2>. QED  BY <2>2, <2>3, <2>4, <2>5, <2>6, <2>7, <2>8, <2>9 DEF Next
  <1>. QED  BY <1>1, <1>2, PTL DEF Spec

-----------------------------------------------------------------------------
(* What follows from the invariant.                                        *)

\* Every variable keeps its type, the entries of all tables included, also
\* when the tables are past saving.
THEOREM PageTableTypes == Spec => []TypeOK
  <1>1. PageTableInv => TypeOK
    BY TreeIs DEF PageTableInv, TreeInv, RunInv, Loose, TypedTables, TypeOK
  <1>. QED  BY <1>1, PageTableInvariant, PTL

LEMMA IntactSound ==
  ASSUME PageTableInv, Intact
  PROVE  /\ refused < 2
         /\ \E lvl : Sound(Tree, Root, lvl) /\ TypedTables(mem) /\ Shaped(mem, Root, lvl)
  BY TreeIs DEF Intact, PageTableInv, TreeInv, Loose, Sound

\* The domain of Mapping and its values.
LEMMA MappingTranslates ==
  ASSUME PageTableInv, Intact
  PROVE  /\ \A v \in AllPages :
              v \in DOMAIN Mapping => Translates(mem, Root, v, Mapping[v]) /\ Mapping[v] \in Nat
         /\ \A v \in AllPages : \A p :
              Translates(mem, Root, v, p) => v \in DOMAIN Mapping /\ Mapping[v] = p
         /\ DOMAIN Mapping \subseteq AllPages
  <1>1. PICK lvl : TypedTables(mem) /\ Shaped(mem, Root, lvl)
    BY IntactSound
  <1>2. PML4 = Root
    BY DEF PageTableInv, TreeInv
  <1>3. ASSUME NEW v \in AllPages
        PROVE  /\ v \in DOMAIN Mapping =>
                    /\ HasLeaf(mem, v) /\ Leaf(mem, v).present
                    /\ Mapping[v] = Leaf(mem, v).address
               /\ HasLeaf(mem, v) /\ Leaf(mem, v).present =>
                    v \in DOMAIN Mapping /\ Mapping[v] = Leaf(mem, v).address
    BY DEF Mapping
  <1>4. ASSUME NEW v \in AllPages, v \in DOMAIN Mapping
        PROVE  Translates(mem, Root, v, Mapping[v]) /\ Mapping[v] \in Nat
    <2>1. HasLeaf(mem, v) /\ Leaf(mem, v).present /\ Mapping[v] = Leaf(mem, v).address
      BY <1>3, <1>4
    <2>2. Translates(mem, Root, v, Mapping[v]) /\ WalkMemory(mem, v) = Mapping[v]
      BY <1>1, <1>2, <2>1, WalkTranslates
    <2>. QED  BY <1>1, <1>2, <2>2, WalkTranslates
  <1>5. ASSUME NEW v \in AllPages, NEW p, Translates(mem, Root, v, p)
        PROVE  v \in DOMAIN Mapping /\ Mapping[v] = p
    <2>1. HasLeaf(mem, v) /\ Leaf(mem, v).present /\ Leaf(mem, v).address = p
      BY <1>1, <1>2, <1>5, WalkTranslates
    <2>. QED  BY <1>3, <2>1
  <1>6. DOMAIN Mapping \subseteq AllPages
    BY DEF Mapping
  <1>. QED  BY <1>4, <1>5, <1>6

\* RemapMemory moves what WalkMemory finds, and WalkMemory, which does not look
\* at Present in the last entry, finds exactly what the processor would.
THEOREM PageTableWalk == Spec => []WalkAgrees
  <1>1. PageTableInv => WalkAgrees
    <2>. SUFFICES ASSUME PageTableInv, Intact, NEW v \in AllPages
                  PROVE  WalkMemory(mem, v) = IF v \in DOMAIN Mapping THEN Mapping[v] ELSE 0
      BY DEF WalkAgrees
    <2>1. PICK lvl : TypedTables(mem) /\ Shaped(mem, Root, lvl)
      BY IntactSound
    <2>2. PML4 = Root
      BY DEF PageTableInv, TreeInv
    <2>3. CASE v \in DOMAIN Mapping
      <3>1. Translates(mem, Root, v, Mapping[v])
        BY <2>3, MappingTranslates
      <3>. QED  BY <2>1, <2>2, <2>3, <3>1, WalkTranslates
    <2>4. CASE v \notin DOMAIN Mapping
      <3>1. ~Translates(mem, Root, v, WalkMemory(mem, v))
        BY <2>4, MappingTranslates
      <3>. QED  BY <2>1, <2>2, <2>4, <3>1, WalkTranslates
    <2>. QED  BY <2>3, <2>4
  <1>. QED  BY <1>1, PageTableInvariant, PTL

\* An identity mapping has left out no page it is past.
THEOREM PageTableIdentityRun == Spec => []IdentityRunComplete
  <1>1. PageTableInv => IdentityRunComplete
    <2>. SUFFICES ASSUME PageTableInv, Intact, NEW v \in run.first .. run.ptr - 1
                  PROVE  v \in DOMAIN Mapping /\ Mapping[v] = v
      BY DEF IdentityRunComplete
    <2>1. refused < 2
      BY IntactSound
    <2>2. Translates(mem, Root, v, v)
      BY <2>1 DEF PageTableInv, RunInv
    <2>3. v \in AllPages
      <3>1. /\ run.first \in Nat /\ run.ptr \in Nat /\ run.stop \in Nat
            /\ run.ptr <= run.stop
        BY DEF PageTableInv, RunInv
      <3>2. v \in run.first .. run.stop - 1
        BY <3>1
      <3>. QED  BY <3>2, PagesNamed DEF PageTableInv, RunInv
    <2>. QED  BY <2>2, <2>3, MappingTranslates
  <1>. QED  BY <1>1, PageTableInvariant, PTL

-----------------------------------------------------------------------------
(* The tables are a tree.                                                  *)

OfLevel(m, lvl, k) == {t \in DOMAIN m : lvl[t] = k}

LEMMA ChildrenAreBelow ==
  ASSUME NEW lvl, Shaped(mem, Root, lvl), TypedTables(mem), NEW k \in 1 .. 3
  PROVE  Children(OfLevel(mem, lvl, k)) = OfLevel(mem, lvl, k - 1)
  <1>1. ASSUME NEW c \in Children(OfLevel(mem, lvl, k)) PROVE c \in OfLevel(mem, lvl, k - 1)
    <2>1. PICK t \in DOMAIN mem, i \in Indexes :
            lvl[t] = k /\ mem[t][i].present /\ c = mem[t][i].address
      BY DEF Children, OfLevel
    <2>2. c \in DOMAIN mem /\ lvl[c] = k - 1
      BY <2>1 DEF Shaped, Down
    <2>. QED  BY <2>2 DEF OfLevel
  <1>2. ASSUME NEW c \in OfLevel(mem, lvl, k - 1) PROVE c \in Children(OfLevel(mem, lvl, k))
    <2>1. c \in DOMAIN mem /\ lvl[c] = k - 1 /\ c # Root
      BY DEF OfLevel, Shaped, Levelled
    <2>2. PICK t \in DOMAIN mem, i \in Indexes :
            lvl[t] > 0 /\ mem[t][i].present /\ mem[t][i].address = c
      BY <2>1 DEF Shaped, NoneLost
    <2>3. lvl[t] = k
      BY <2>1, <2>2 DEF Shaped, Down, Levelled
    <2>4. t \in OfLevel(mem, lvl, k)
      BY <2>3 DEF OfLevel
    <2>5. <<t, i>> \in {d \in (OfLevel(mem, lvl, k) \cap DOMAIN mem) \X Indexes :
                          mem[d[1]][d[2]].present}
      BY <2>2, <2>4
    <2>. QED  BY <2>2, <2>5 DEF Children
  <1>. QED  BY <1>1, <1>2

\* Counting: every table but the root has one entry that refers to it.
LEMMA TablesCounted ==
  ASSUME NEW m, TypedTables(m), NEW lvl, Shaped(m, Root, lvl),
         NEW refs, \A e : e \in refs <=> \E t \in DOMAIN m, i \in Indexes :
                                            /\ e = <<t, i>> /\ lvl[t] > 0
                                            /\ m[t][i].present
  PROVE  Cardinality(refs) = Cardinality(DOMAIN m) - 1
  <1>. DEFINE T == DOMAIN m \ {Root}
              down == [e \in refs |-> m[e[1]][e[2]].address]
  <1>1. \A e \in refs : /\ e[1] \in DOMAIN m /\ e[2] \in Indexes /\ e = <<e[1], e[2]>>
                     /\ lvl[e[1]] > 0 /\ m[e[1]][e[2]].present
    OBVIOUS
  <1>2. ASSUME NEW e \in refs PROVE down[e] \in T
    <2>1. m[e[1]][e[2]].address \in DOMAIN m
      BY <1>1 DEF Shaped, Down
    <2>2. lvl[m[e[1]][e[2]].address] = lvl[e[1]] - 1 /\ lvl[e[1]] \in 0 .. 3 /\ lvl[Root] = 3
      BY <1>1 DEF Shaped, Down, Levelled
    <2>. QED  BY <2>1, <2>2
  <1>3. ASSUME NEW a \in refs, NEW b \in refs, down[a] = down[b] PROVE a = b
    BY <1>1, <1>3 DEF Shaped, OneParent
  <1>4. ASSUME NEW c \in T PROVE \E e \in refs : down[e] = c
    <2>1. PICK t \in DOMAIN m, i \in Indexes :
            lvl[t] > 0 /\ m[t][i].present /\ m[t][i].address = c
      BY DEF Shaped, NoneLost
    <2>2. <<t, i>> \in refs
      BY <2>1
    <2>. QED  BY <2>1, <2>2
  <1>5. down \in Bijection(refs, T)
    <2>1. down \in [refs -> T]
      BY <1>2
    <2>. HIDE DEF down, T
    <2>. QED  BY <1>3, <1>4, <2>1, Fun_IsBij
  <1>6. IsFiniteSet(DOMAIN m) /\ Root \in DOMAIN m
    BY DEF TypedTables, Shaped, Levelled
  <1>7. /\ IsFiniteSet(T) /\ Cardinality(T) = Cardinality(DOMAIN m) - 1
    BY <1>6, FS_RemoveElement
  <1>8. ExistsBijection(T, refs)
    <2>. HIDE DEF down, T
    <2>. QED  BY <1>5, Fun_ExistsBijSymmetric DEF ExistsBijection
  <1>. QED  BY <1>7, <1>8, FS_Bijection

\* No frame serves as a table twice, at two levels or under two parents, none
\* is lost, and none is a frame the allocator may still hand out.
THEOREM PageTableTree == Spec => []TablesAreATree
  <1>1. PageTableInv => TablesAreATree
    <2>. SUFFICES ASSUME PageTableInv, Intact
                  PROVE  /\ DOMAIN mem = {PML4} \cup PDPs \cup PDs \cup PTs
                         /\ Cardinality(TableEntries) = Cardinality(DOMAIN mem) - 1
                         /\ (DOMAIN mem) \cap free = {}
      BY DEF TablesAreATree
    <2>1. PICK lvl : Sound(Tree, Root, lvl) /\ TypedTables(mem) /\ Shaped(mem, Root, lvl)
      BY IntactSound
    <2>2. PML4 = Root
      BY DEF PageTableInv, TreeInv
    <2>3. {PML4} = OfLevel(mem, lvl, 3)
      BY <2>1, <2>2 DEF OfLevel, Shaped, Levelled
    <2>4. PDPs = OfLevel(mem, lvl, 2)
      <3>1. 3 \in 1 .. 3 /\ 3 - 1 = 2
        OBVIOUS
      <3>. QED  BY <2>1, <2>3, <3>1, ChildrenAreBelow DEF PDPs
    <2>5. PDs = OfLevel(mem, lvl, 1)
      <3>1. 2 \in 1 .. 3 /\ 2 - 1 = 1
        OBVIOUS
      <3>. QED  BY <2>1, <2>4, <3>1, ChildrenAreBelow DEF PDs
    <2>6. PTs = OfLevel(mem, lvl, 0)
      <3>1. 1 \in 1 .. 3 /\ 1 - 1 = 0
        OBVIOUS
      <3>. QED  BY <2>1, <2>5, <3>1, ChildrenAreBelow DEF PTs
    <2>7. DOMAIN mem = {PML4} \cup PDPs \cup PDs \cup PTs
      <3>1. \A t \in DOMAIN mem : lvl[t] \in 0 .. 3
        BY <2>1 DEF Shaped, Levelled
      <3>. QED  BY <2>3, <2>4, <2>5, <2>6, <3>1 DEF OfLevel
    <2>8. Cardinality(TableEntries) = Cardinality(DOMAIN mem) - 1
      <3>1. ({PML4} \cup PDPs \cup PDs) \cap DOMAIN mem = {t \in DOMAIN mem : lvl[t] > 0}
        <4>1. \A t \in DOMAIN mem : lvl[t] \in 0 .. 3
          BY <2>1 DEF Shaped, Levelled
        <4>. QED  BY <2>3, <2>4, <2>5, <4>1 DEF OfLevel
      <3>2. \A e : e \in TableEntries <=> \E t \in DOMAIN mem, i \in Indexes :
                                            e = <<t, i>> /\ lvl[t] > 0 /\ mem[t][i].present
        BY <3>1 DEF TableEntries
      <3>. QED  BY <2>1, <3>2, TablesCounted
    <2>9. (DOMAIN mem) \cap free = {}
      BY <2>1, TreeIs DEF Sound
    <2>. QED  BY <2>7, <2>8, <2>9
  <1>. QED  BY <1>1, PageTableInvariant, PTL

-----------------------------------------------------------------------------
(* The tree is a map from pages to pages.                                  *)

\* The function f is what the tables m say.
Represents(f, m) ==
  /\ f = [v \in DOMAIN f |-> f[v]] /\ DOMAIN f \subseteq AllPages
  /\ \A v \in AllPages : \A p : Translates(m, Root, v, p) <=> v \in DOMAIN f /\ f[v] = p

LEMMA RepresentedOnce ==
  ASSUME NEW m, NEW f, Represents(f, m), NEW g, Represents(g, m)
  PROVE  f = g
  <1>1. ASSUME NEW v \in AllPages PROVE v \in DOMAIN f <=> v \in DOMAIN g
    BY DEF Represents
  <1>2. DOMAIN f = DOMAIN g
    BY <1>1 DEF Represents
  <1>3. \A v \in DOMAIN f : f[v] = g[v]
    BY <1>2 DEF Represents
  <1>. QED  BY <1>2, <1>3 DEF Represents

LEMMA MapIsWith ==
  ASSUME NEW m, NEW n, NEW v \in AllPages, NEW p, MapsOnly(m, n, Root, v, p),
         NEW f, Represents(f, m)
  PROVE  Represents(Space!With(f, v, p), n)
  <1>. DEFINE g == Space!With(f, v, p)
  <1>1. /\ g = [x \in DOMAIN g |-> g[x]] /\ DOMAIN g = DOMAIN f \cup {v}
        /\ g[v] = p /\ \A x \in DOMAIN f : x # v => g[x] = f[x]
    BY DEF Space!With
  <1>. HIDE DEF g
  <1>2. ASSUME NEW w \in AllPages, NEW q
        PROVE  Translates(n, Root, w, q) <=> w \in DOMAIN g /\ g[w] = q
    <2>1. CASE w = v
      BY <1>1, <2>1 DEF MapsOnly
    <2>2. CASE w # v
      BY <1>1, <2>2 DEF MapsOnly, Represents
    <2>. QED  BY <2>1, <2>2
  <1>. QED  BY <1>1, <1>2 DEF Represents, g

LEMMA UnmapIsWithout ==
  ASSUME NEW m, NEW n, NEW v \in AllPages, UnmapsOnly(m, n, Root, v), NEW f, Represents(f, m)
  PROVE  Represents(Space!Without(f, v), n)
  <1>. DEFINE g == Space!Without(f, v)
  <1>1. /\ g = [x \in DOMAIN g |-> g[x]] /\ DOMAIN g = DOMAIN f \ {v}
        /\ \A x \in DOMAIN g : g[x] = f[x]
    BY DEF Space!Without
  <1>. HIDE DEF g
  <1>2. ASSUME NEW w \in AllPages, NEW q
        PROVE  Translates(n, Root, w, q) <=> w \in DOMAIN g /\ g[w] = q
    <2>1. CASE w = v
      BY <1>1, <2>1 DEF UnmapsOnly
    <2>2. CASE w # v
      BY <1>1, <2>2 DEF UnmapsOnly, Represents
    <2>. QED  BY <2>1, <2>2
  <1>. QED  BY <1>1, <1>2 DEF Represents, g

MappingInv == Intact => Represents(Mapping, mem)

LEMMA MappingRepresents ==
  ASSUME PageTableInv
  PROVE  MappingInv
  <1>. SUFFICES ASSUME Intact PROVE Represents(Mapping, mem)
    BY DEF MappingInv
  <1>1. Mapping = [v \in DOMAIN Mapping |-> Mapping[v]]
    BY DEF Mapping
  <1>. QED  BY <1>1, MappingTranslates DEF Represents

\* What the map is while the tables are a tree, and whether they are.
LEMMA SpaceIs ==
  ASSUME Intact, MappingInv, Intact', MappingInv'
  PROVE  Represents(Mapping, mem) /\ Represents(Mapping', mem')
  BY DEF MappingInv

LEMMA StepMaps ==
  ASSUME Intact, MappingInv, Intact', MappingInv', NEW v \in AllPages, NEW p \in Nat,
         MapsOnly(mem, mem', Root, v, p)
  PROVE  Space!MapPage
  <1>1. Represents(Mapping, mem) /\ Represents(Mapping', mem')
    BY SpaceIs
  <1>2. Mapping' = Space!With(Mapping, v, p)
    <2>1. Represents(Space!With(Mapping, v, p), mem')
      BY <1>1, MapIsWith
    <2>. QED  BY <1>1, <2>1, RepresentedOnce
  <1>3. v \in DOMAIN Mapping' /\ Mapping'[v] = p
    BY <1>1 DEF MapsOnly, Represents
  <1>. QED  BY <1>2, <1>3 DEF Space!MapPage

LEMMA StepUnmaps ==
  ASSUME Intact, MappingInv, Intact', MappingInv', NEW v \in AllPages,
         UnmapsOnly(mem, mem', Root, v)
  PROVE  Space!UnmapPage \/ Mapping' = Mapping
  <1>1. Represents(Mapping, mem) /\ Represents(Mapping', mem')
    BY SpaceIs
  <1>2. Mapping' = Space!Without(Mapping, v)
    <2>1. Represents(Space!Without(Mapping, v), mem')
      BY <1>1, UnmapIsWithout
    <2>. QED  BY <1>1, <2>1, RepresentedOnce
  <1>3. CASE v \in DOMAIN Mapping
    BY <1>2, <1>3 DEF Space!UnmapPage
  <1>4. CASE v \notin DOMAIN Mapping
    <2>1. DOMAIN Mapping \ {v} = DOMAIN Mapping
      BY <1>4
    <2>2. Space!Without(Mapping, v) = Mapping
      BY <1>1, <2>1 DEF Space!Without, Represents
    <2>. QED  BY <1>2, <2>2
  <1>. QED  BY <1>3, <1>4

LEMMA StepRemaps ==
  ASSUME Intact, MappingInv, Intact', MappingInv', NEW v \in AllPages, NEW w \in AllPages,
         NEW p \in Nat, Translates(mem, Root, v, p),
         NEW m, UnmapsOnly(mem, m, Root, v), MapsOnly(m, mem', Root, w, p)
  PROVE  Space!RemapPage
  <1>1. Represents(Mapping, mem) /\ Represents(Mapping', mem')
    BY SpaceIs
  <1>2. v \in DOMAIN Mapping /\ Mapping[v] = p /\ w \in DOMAIN Mapping'
    BY <1>1 DEF MapsOnly, Represents
  <1>3. Mapping' = Space!With(Space!Without(Mapping, v), w, p)
    <2>1. PICK f : f = Space!Without(Mapping, v) /\ Represents(f, m)
      BY <1>1, UnmapIsWithout
    <2>2. Represents(Space!With(f, w, p), mem')
      BY <2>1, MapIsWith
    <2>. QED  BY <1>1, <2>1, <2>2, RepresentedOnce
  <1>. QED  BY <1>2, <1>3 DEF Space!RemapPage

\* Mapping, unmapping or moving a page never changes what another page
\* translates to, although pages share tables made on demand.
THEOREM PageTableRefinement == Spec => ImplementsAddressSpace
  <1>1. Init => Space!SpaceInit
    <2>. SUFFICES ASSUME Init PROVE Mapping = [v \in {} |-> 0] /\ Intact
      BY DEF Space!SpaceInit
    <2>1. PML4 = Root /\ mem = [f \in {Root} |-> ZeroTable] /\ refused = 0
      BY DEF Init
    <2>2. \A i \in Indexes : ~mem[Root][i].present
      BY <2>1 DEF ZeroTable, Clear
    <2>3. ASSUME NEW v \in AllPages PROVE ~HasLeaf(mem, v)
      <3>1. ~mem[Root][Index(v, 3)].present
        BY <2>2, PagesIndexed DEF PageIndexes
      <3>. QED  BY <2>1, <3>1 DEF HasLeaf, LeafTable
    <2>. QED  BY <2>1, <2>3 DEF Mapping, Intact
  <1>2. /\ PageTableInv /\ MappingInv /\ PageTableInv' /\ MappingInv' /\ [Next]_vars
        => [Space!SpaceNext]_(Space!spaceVars)
    <2>. SUFFICES ASSUME PageTableInv, MappingInv, PageTableInv', MappingInv', [Next]_vars,
                         Intact'
                  PROVE  \/ Intact /\ (Space!MapPage \/ Space!UnmapPage \/ Space!RemapPage)
                         \/ Intact /\ Mapping' = Mapping
      BY DEF Space!SpaceNext, Space!spaceVars
    <2>1. TreeInv /\ refused' < 2 /\ (refused < 2 => Intact)
      BY DEF PageTableInv, TreeInv, Loose, Tree, Intact
    <2>2. ASSUME NEW v \in VirtualPages, NEW p \in PhysicalPages, MapMemory(v, p)
          PROVE  Intact /\ Space!MapPage
      <3>1. refused < 2 /\ UNCHANGED PML4 /\ Becomes(Mapped(Tree, v, p))
        BY <2>2 DEF MapMemory, Ready
      <3>2. v \in AllPages /\ p \in Nat
        BY PagesNamed
      <3>3. MapsOnly(mem, mem', Root, v, p)
        BY <2>1, <3>1, <3>2, MapMemoryEffect
      <3>. QED  BY <2>1, <3>1, <3>2, <3>3, StepMaps
    <2>3. ASSUME NEW v \in VirtualPages, MapRequested(v)
          PROVE  Intact /\ Space!MapPage
      <3>1. /\ refused < 2 /\ RequestPage(free) \in Nat
            /\ MapsOnly(mem, mem', Root, v, RequestPage(free))
        BY <2>1, <2>3, MapRequestedEffect
      <3>. QED  BY <2>1, <3>1, PagesNamed, StepMaps
    <2>4. ASSUME NEW v \in VirtualPages, UnmapMemory(v)
          PROVE  Intact /\ (Space!UnmapPage \/ Mapping' = Mapping)
      <3>1. refused < 2 /\ UnmapsOnly(mem, mem', Root, v)
        BY <2>1, <2>4, UnmapMemoryEffect
      <3>. QED  BY <2>1, <3>1, PagesNamed, StepUnmaps
    <2>5. ASSUME NEW v \in VirtualPages, NEW w \in VirtualPages, RemapMemory(v, w)
          PROVE  Intact /\ Space!RemapPage
      <3>1. refused < 2
        BY <2>1, <2>5, RemapMemoryEffect
      <3>2. PICK p, m :
              /\ p \in Nat
              /\ Translates(mem, Root, v, p) /\ UnmapsOnly(mem, m, Root, v)
              /\ MapsOnly(m, mem', Root, w, p)
        BY <2>1, <2>5, RemapMemoryEffect
      <3>. QED  BY <2>1, <3>1, <3>2, PagesNamed, StepRemaps
    <2>6. CASE IdentityMapPage
      <3>1. /\ refused < 2 /\ run.ptr \in AllPages
            /\ MapsOnly(mem, mem', Root, run.ptr, run.ptr)
        BY <2>1, <2>6, IdentityMapPageEffect
      <3>. QED  BY <2>1, <3>1, PagesIndexed, StepMaps
    <2>7. ASSUME UNCHANGED <<PML4, mem, free, refused>>
          PROVE  Intact /\ Mapping' = Mapping
      <3>1. Intact
        BY <2>1, <2>7
      <3>2. Represents(Mapping, mem) /\ Represents(Mapping', mem)
        BY <2>7, <3>1, SpaceIs
      <3>. QED  BY <3>1, <3>2, RepresentedOnce
    <2>8. CASE \E v \in PhysicalPages \cap VirtualPages, n \in 1 .. MaxRun :
                 StartIdentityMap(v, n)
      BY <2>7, <2>8 DEF StartIdentityMap
    <2>9. CASE EndIdentityMap
      BY <2>7, <2>9 DEF EndIdentityMap
    <2>10. CASE UNCHANGED vars
      BY <2>7, <2>10 DEF vars
    <2>. QED  BY <2>2, <2>3, <2>4, <2>5, <2>6, <2>8, <2>9, <2>10 DEF Next
  <1>3. PageTableInv => MappingInv
    BY MappingRepresents
  <1>. QED  BY <1>1, <1>2, <1>3, PageTableInvariant, PTL
            DEF Spec, ImplementsAddressSpace, Space!SpaceSpec
=============================================================================
