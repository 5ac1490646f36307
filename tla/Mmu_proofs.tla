------------------------------ MODULE Mmu_proofs ------------------------------
(***************************************************************************)
(* What is proved of Mmu, for every number of threads and segments, every  *)
(* width of the tree and every program.                                    *)
(***************************************************************************)
EXTENDS Mmu, FiniteSetTheorems, TLAPS

\* The lemmas on induction: there is no tree here.
Shared == INSTANCE SharedLemmas WITH Dangling <- 0

Trees == [Segs -> SegRec]

-----------------------------------------------------------------------------
\* What is reached in a graph.

Reached(next, s) ==
  CHOOSE f : f = [d \in Nat |-> IF d = 0 THEN {s}
                                ELSE LET R == f[d - 1] IN R \cup UNION {next[r] : r \in R}]

LEMMA FromReached == ASSUME NEW next, NEW s PROVE From(next, s) = Reached(next, s)[MaxPath]
  BY DEF From, Reached

LEMMA ReachedDef ==
  ASSUME NEW next \in [Segs -> SUBSET Segs], NEW s \in Segs
  PROVE  /\ Reached(next, s) \in [Nat -> SUBSET Segs]
         /\ Reached(next, s)[0] = {s}
         /\ \A d \in Nat : Reached(next, s)[d + 1] =
              Reached(next, s)[d] \cup UNION {next[r] : r \in Reached(next, s)[d]}
<1> DEFINE D == SUBSET Segs
           step == [R \in D |-> R \cup UNION {next[r] : r \in R}]
           Def(f) == f = [d \in Nat |-> IF d = 0 THEN {s}
                                        ELSE LET R == f[d - 1] IN R \cup UNION {next[r] : r \in R}]
<1>1. step \in [D -> D] /\ {s} \in D
  OBVIOUS
<1>2. PICK g \in [Nat -> D] : \A d \in Nat : g[d] = IF d = 0 THEN {s} ELSE step[g[d - 1]]
  <2> HIDE DEF D, step
  <2> QED
    BY <1>1, Shared!RecursionExists
<1>3. ASSUME NEW d \in Nat
      PROVE  g[d] = IF d = 0 THEN {s} ELSE LET R == g[d - 1] IN R \cup UNION {next[r] : r \in R}
  <2>1. CASE d = 0
    BY <1>2, <2>1
  <2>2. CASE d # 0
    <3>1. d - 1 \in Nat /\ g[d - 1] \in D
      BY <2>2
    <3> QED
      BY <1>2, <2>2, <3>1
  <2> QED
    BY <2>1, <2>2
<1>4. Def(g)
  BY <1>3
<1>5. Def(Reached(next, s))
  BY <1>4 DEF Reached
<1> DEFINE f == Reached(next, s)
<1>6. f = [d \in Nat |-> IF d = 0 THEN {s} ELSE LET R == f[d - 1] IN R \cup UNION {next[r] : r \in R}]
  BY <1>5
<1> HIDE DEF f
<1>7. f[0] = {s} /\ \A d \in Nat : f[d + 1] = f[d] \cup UNION {next[r] : r \in f[d]}
  <2>1. f[0] = {s}
    BY <1>6
  <2>2. ASSUME NEW d \in Nat PROVE f[d + 1] = f[d] \cup UNION {next[r] : r \in f[d]}
    <3>1. d + 1 \in Nat /\ d + 1 # 0 /\ (d + 1) - 1 = d
      OBVIOUS
    <3> QED
      BY <1>6, <3>1
  <2> QED
    BY <2>1, <2>2
<1>8. f \in [Nat -> SUBSET Segs]
  <2> DEFINE X == {d \in Nat : f[d] \in SUBSET Segs}
  <2>1. 0 \in X
    BY <1>7
  <2>2. ASSUME NEW d \in Nat, d \in X PROVE d + 1 \in X
    BY <1>7, <2>2
  <2> HIDE DEF X
  <2>3. Nat \subseteq X
    BY <2>1, <2>2, Shared!InductionOnNat
  <2>4. \A d \in Nat : f[d] \in SUBSET Segs
    BY <2>3 DEF X
  <2> QED
    BY <1>6, <2>4
<1> QED
  BY <1>7, <1>8 DEF f

\* From holds s, leads nowhere else, and is the least such set.
LEMMA FromIs ==
  ASSUME NEW next \in [Segs -> SUBSET Segs], NEW s \in Segs
  PROVE  /\ From(next, s) \in SUBSET Segs
         /\ s \in From(next, s)
         /\ \A r \in From(next, s) : next[r] \subseteq From(next, s)
         /\ \A R \in SUBSET Segs :
              s \in R /\ (\A r \in R : next[r] \subseteq R) => From(next, s) \subseteq R
<1> DEFINE f == Reached(next, s)
           Closed(R) == \A r \in R : next[r] \subseteq R
<1>0. IsFiniteSet(Segs) /\ MaxPath \in Nat /\ MaxPath = Cardinality(Segs)
  BY MmuOK, FS_CardinalityType DEF MaxPath
<1>1. /\ f \in [Nat -> SUBSET Segs] /\ f[0] = {s}
      /\ \A d \in Nat : f[d + 1] = f[d] \cup UNION {next[r] : r \in f[d]}
  BY ReachedDef
<1>2. From(next, s) = f[MaxPath]
  BY FromReached
<1> HIDE DEF f
<1>3. From(next, s) \in SUBSET Segs
  BY <1>0, <1>1, <1>2
<1>4. \A d \in Nat : s \in f[d]
  <2> DEFINE X == {d \in Nat : s \in f[d]}
  <2>1. 0 \in X /\ \A d \in Nat : d \in X => d + 1 \in X
    BY <1>1
  <2> HIDE DEF X
  <2>2. Nat \subseteq X
    BY <2>1, Shared!InductionOnNat
  <2> QED
    BY <2>2 DEF X
<1>5. ASSUME NEW R \in SUBSET Segs, s \in R, Closed(R) PROVE \A d \in Nat : f[d] \subseteq R
  <2> DEFINE X == {d \in Nat : f[d] \subseteq R}
  <2>1. 0 \in X
    BY <1>1, <1>5
  <2>2. ASSUME NEW d \in Nat, d \in X PROVE d + 1 \in X
    BY <1>1, <1>5, <2>2
  <2> HIDE DEF X
  <2>3. Nat \subseteq X
    BY <2>1, <2>2, Shared!InductionOnNat
  <2> QED
    BY <2>3 DEF X
<1>6. \A d \in Nat : Closed(f[d]) \/ Cardinality(f[d]) >= d + 1
  <2> DEFINE X == {d \in Nat : Closed(f[d]) \/ Cardinality(f[d]) >= d + 1}
  <2>0. \A d \in Nat : IsFiniteSet(f[d]) /\ Cardinality(f[d]) \in Nat
    BY <1>0, <1>1, FS_Subset, FS_CardinalityType
  <2>1. 0 \in X
    <3>1. Cardinality(f[0]) = 1
      BY <1>1, FS_Singleton, Zenon
    <3> QED
      BY <3>1
  <2>2. ASSUME NEW d \in Nat, d \in X PROVE d + 1 \in X
    <3>1. f[d + 1] = f[d] \cup UNION {next[r] : r \in f[d]}
      BY <1>1
    <3>2. CASE Closed(f[d])
      <4>1. f[d + 1] = f[d]
        BY <3>1, <3>2
      <4> QED
        BY <3>2, <4>1
    <3>3. CASE ~Closed(f[d])
      <4>1. Cardinality(f[d]) >= d + 1
        BY <2>2, <3>3
      <4>2. f[d] \subseteq f[d + 1] /\ f[d] # f[d + 1]
        BY <3>1, <3>3
      <4>3. Cardinality(f[d]) <= Cardinality(f[d + 1]) /\ Cardinality(f[d]) # Cardinality(f[d + 1])
        BY <2>0, <4>2, FS_Subset
      <4>4. Cardinality(f[d + 1]) >= (d + 1) + 1
        BY <2>0, <4>1, <4>3
      <4> QED
        BY <4>4
    <3> QED
      BY <3>2, <3>3
  <2> HIDE DEF X
  <2>3. Nat \subseteq X
    BY <2>1, <2>2, Shared!InductionOnNat
  <2> QED
    BY <2>3 DEF X
<1>7. Closed(f[MaxPath])
  <2>1. Cardinality(f[MaxPath]) <= MaxPath /\ Cardinality(f[MaxPath]) \in Nat
    BY <1>0, <1>1, FS_Subset, FS_CardinalityType
  <2> QED
    BY <1>0, <1>6, <2>1
<1> QED
  BY <1>0, <1>2, <1>3, <1>4, <1>5, <1>7

-----------------------------------------------------------------------------
\* Sorting the children.

Slots == 1 .. Width

\* The slots that come before slot i in the order of the keys.
Earlier(key, i) == {j \in Slots : key[j] < key[i] \/ (key[j] = key[i] /\ j < i)}

LEMMA RanksAreSlots ==
  ASSUME NEW key \in [Slots -> Int]
  PROVE  /\ \A i \in Slots : /\ Cardinality(Earlier(key, i)) \in Nat
                             /\ Cardinality(Earlier(key, i)) + 1 \in Slots
         /\ \A i, j \in Slots : Cardinality(Earlier(key, i)) = Cardinality(Earlier(key, j)) => i = j
         /\ \A r \in Slots : \E i \in Slots : Cardinality(Earlier(key, i)) = r - 1
<1>0. Width \in Nat \ {0}
  BY MmuOK
<1>1. IsFiniteSet(Slots) /\ Cardinality(Slots) = Width
  BY <1>0, FS_Interval DEF Slots
<1>2. \A i \in Slots : Earlier(key, i) \subseteq Slots \ {i} /\ IsFiniteSet(Earlier(key, i))
  <2> SUFFICES ASSUME NEW i \in Slots
               PROVE  Earlier(key, i) \subseteq Slots \ {i} /\ IsFiniteSet(Earlier(key, i))
    OBVIOUS
  <2>1. Earlier(key, i) \subseteq Slots \ {i}
    BY DEF Earlier, Slots
  <2> QED
    BY <1>1, <2>1, FS_Subset
<1>3. ASSUME NEW i \in Slots
      PROVE  Cardinality(Earlier(key, i)) \in Nat /\ Cardinality(Earlier(key, i)) + 1 \in Slots
  <2>1. Earlier(key, i) \subseteq Slots \ {i} /\ IsFiniteSet(Slots \ {i})
        /\ Cardinality(Slots \ {i}) = Width - 1
    BY <1>1, <1>2, FS_RemoveElement
  <2>2. Cardinality(Earlier(key, i)) <= Width - 1 /\ Cardinality(Earlier(key, i)) \in Nat
    BY <1>2, <2>1, FS_Subset, FS_CardinalityType
  <2> QED
    BY <1>0, <2>2 DEF Slots
<1>4. ASSUME NEW i \in Slots, NEW j \in Slots, i \in Earlier(key, j)
      PROVE  Cardinality(Earlier(key, i)) < Cardinality(Earlier(key, j))
  <2>1. Earlier(key, i) \subseteq Earlier(key, j) /\ i \notin Earlier(key, i)
    BY <1>4 DEF Earlier, Slots
  <2>2. Earlier(key, i) # Earlier(key, j)
    BY <1>4, <2>1
  <2>3. /\ Cardinality(Earlier(key, i)) <= Cardinality(Earlier(key, j))
        /\ Cardinality(Earlier(key, i)) # Cardinality(Earlier(key, j))
    BY <1>2, <2>1, <2>2, FS_Subset
  <2> QED
    BY <1>3, <2>3
<1>5. ASSUME NEW i \in Slots, NEW j \in Slots, i # j
      PROVE  Cardinality(Earlier(key, i)) # Cardinality(Earlier(key, j))
  <2>1. i \in Earlier(key, j) \/ j \in Earlier(key, i)
    BY <1>5 DEF Earlier, Slots
  <2> QED
    BY <1>3, <1>4, <2>1
<1> DEFINE rank == [i \in Slots |-> Cardinality(Earlier(key, i)) + 1]
<1>6. rank \in Injection(Slots, Slots)
  <2>1. rank \in [Slots -> Slots]
    BY <1>3
  <2>2. \A i, j \in Slots : rank[i] = rank[j] => i = j
    BY <1>3, <1>5
  <2> QED
    BY <2>1, <2>2 DEF Injection, IsInjective
<1>7. rank \in Surjection(Slots, Slots)
  BY <1>1, <1>6, FS_Injection
<1>8. ASSUME NEW r \in Slots PROVE \E i \in Slots : Cardinality(Earlier(key, i)) = r - 1
  <2>1. PICK i \in Slots : rank[i] = r
    BY <1>7 DEF Surjection
  <2>2. rank[i] = Cardinality(Earlier(key, i)) + 1 /\ Cardinality(Earlier(key, i)) \in Nat
    BY <1>3
  <2>3. Cardinality(Earlier(key, i)) = r - 1
    <3> DEFINE n == Cardinality(Earlier(key, i))
    <3>1. n + 1 = r /\ n \in Nat
      BY <2>1, <2>2
    <3> HIDE DEF n
    <3>2. n = r - 1
      BY <3>1
    <3> QED
      BY <3>2 DEF n
  <2> QED
    BY <2>3
<1> QED
  BY <1>3, <1>5, <1>8

LEMMA SortPermutes ==
  ASSUME NEW m \in Trees, NEW s \in Segs
  PROVE  \E p \in [Slots -> Slots] :
           /\ SortKids(m, s) = [r \in Slots |-> m[s].kids[p[r]]]
           /\ \A i, j \in Slots : p[i] = p[j] => i = j
           /\ \A i \in Slots : \E r \in Slots : p[r] = i
<1> DEFINE kids == m[s].kids
           k(x) == IF kids[x] = NULL THEN Space ELSE m[kids[x]].lo
           key == [i \in Slots |-> k(i)]
           before(i) == {j \in Slots : k(j) < k(i) \/ (k(j) = k(i) /\ j < i)}
           rank(i) == Cardinality(before(i))
           p == [r \in Slots |-> CHOOSE i \in Slots : rank(i) = r - 1]
<1>1. key \in [Slots -> Int]
  <2>1. \A i \in Slots : m[s].kids[i] \in Segs \cup {NULL}
    BY DEF Trees, SegRec, Slots
  <2>2. \A x \in Segs : m[x].lo \in Int
    BY MmuOK DEF Trees, SegRec, Addrs
  <2>3. Space \in Int
    BY MmuOK
  <2> QED
    BY <2>1, <2>2, <2>3
<1>2. SortKids(m, s) = [r \in Slots |-> m[s].kids[p[r]]]
  <2>1. SortKids(m, s) = [r \in Slots |-> m[s].kids[CHOOSE i \in Slots : rank(i) = r - 1]]
    BY DEF SortKids, Slots
  <2> QED
    BY <2>1
<1>3. \A i \in Slots : rank(i) = Cardinality(Earlier(key, i))
  <2>1. \A i \in Slots : before(i) = Earlier(key, i)
    <3> HIDE DEF k
    <3> QED
      BY DEF Earlier
  <2> HIDE DEF before, key
  <2> QED
    BY <2>1
<1> HIDE DEF rank, key
<1>4. /\ \A i, j \in Slots : rank(i) = rank(j) => i = j
      /\ \A r \in Slots : \E i \in Slots : rank(i) = r - 1
      /\ \A i \in Slots : rank(i) \in Nat /\ rank(i) + 1 \in Slots
  <2>1. /\ \A i, j \in Slots : Cardinality(Earlier(key, i)) = Cardinality(Earlier(key, j)) => i = j
        /\ \A r \in Slots : \E i \in Slots : Cardinality(Earlier(key, i)) = r - 1
        /\ \A i \in Slots : /\ Cardinality(Earlier(key, i)) \in Nat
                            /\ Cardinality(Earlier(key, i)) + 1 \in Slots
    BY <1>1, RanksAreSlots
  <2> QED
    BY <1>3, <2>1
<1>5. \A r \in Slots : p[r] \in Slots /\ rank(p[r]) = r - 1
  BY <1>4
<1>6. \A i, j \in Slots : p[i] = p[j] => i = j
  <2> SUFFICES ASSUME NEW i \in Slots, NEW j \in Slots, p[i] = p[j] PROVE i = j
    OBVIOUS
  <2>1. i - 1 = j - 1
    BY <1>5
  <2> QED
    BY <2>1 DEF Slots
<1>7. ASSUME NEW i \in Slots PROVE \E r \in Slots : p[r] = i
  <2> DEFINE r == rank(i) + 1
  <2>1. r \in Slots /\ rank(i) \in Nat
    BY <1>4
  <2>2. rank(p[r]) = r - 1 /\ p[r] \in Slots
    BY <1>5, <2>1
  <2>3. rank(i) = r - 1
    BY <2>1
  <2>4. p[r] = i
    BY <1>4, <2>2, <2>3
  <2> QED
    BY <2>1, <2>4
<1>8. p \in [Slots -> Slots]
  BY <1>5
<1> HIDE DEF p
<1> QED
  BY <1>2, <1>6, <1>7, <1>8

-----------------------------------------------------------------------------
\* The bounds that follow a new segment.

SlotsApart(m, s) == \A i, j \in Slots : m[s].kids[i] = m[s].kids[j] /\ m[s].kids[i] # NULL => i = j

LEMMA SegFields ==
  ASSUME NEW m \in Trees, NEW s \in Segs
  PROVE  /\ m[s] \in SegRec
         /\ m[s].life \in {"unborn", "live", "freed"} /\ m[s].parent \in Segs \cup {NULL}
         /\ m[s].kids \in [Slots -> Segs \cup {NULL}]
         /\ m[s].lo \in Addrs /\ m[s].hi \in Addrs /\ m[s].sz \in Addrs
         /\ m[s].lit \in Addrs /\ m[s].litSz \in Addrs
         /\ m[s].locked \in BOOLEAN /\ m[s].freed \in BOOLEAN
BY DEF Trees, SegRec, Slots

LEMMA KidsAre ==
  ASSUME NEW m \in Trees, NEW s \in Segs
  PROVE  /\ Kids(m, s) \subseteq Segs
         /\ \A k : k \in Kids(m, s) <=> k # NULL /\ \E i \in Slots : m[s].kids[i] = k
BY SegFields DEF Kids, Slots

LEMMA SortKeepsKids ==
  ASSUME NEW m \in Trees, NEW s \in Segs
  PROVE  /\ SortKids(m, s) \in [Slots -> Segs \cup {NULL}]
         /\ \A k : (\E i \in Slots : SortKids(m, s)[i] = k) <=> (\E i \in Slots : m[s].kids[i] = k)
         /\ SlotsApart(m, s) => \A i, j \in Slots :
              SortKids(m, s)[i] = SortKids(m, s)[j] /\ SortKids(m, s)[i] # NULL => i = j
<1>1. PICK p \in [Slots -> Slots] :
        /\ SortKids(m, s) = [r \in Slots |-> m[s].kids[p[r]]]
        /\ \A i, j \in Slots : p[i] = p[j] => i = j
        /\ \A i \in Slots : \E r \in Slots : p[r] = i
  BY SortPermutes
<1>2. m[s].kids \in [Slots -> Segs \cup {NULL}]
  BY SegFields
<1>3. ASSUME NEW k PROVE (\E i \in Slots : SortKids(m, s)[i] = k) <=> (\E i \in Slots : m[s].kids[i] = k)
  <2>1. ASSUME NEW i \in Slots, SortKids(m, s)[i] = k PROVE \E j \in Slots : m[s].kids[j] = k
    BY <1>1, <2>1
  <2>2. ASSUME NEW j \in Slots, m[s].kids[j] = k PROVE \E i \in Slots : SortKids(m, s)[i] = k
    BY <1>1, <2>2
  <2> QED
    BY <2>1, <2>2
<1> QED
  BY <1>1, <1>2, <1>3 DEF SlotsApart

\* A bound of s after update_seg_bounds over the segments up.
Lower(m, c, up, s) == IF s \in up /\ m[c].lo < m[s].lo THEN m[c].lo ELSE m[s].lo
Upper(m, c, up, s) == IF s \in up /\ m[c].hi > m[s].hi THEN m[c].hi ELSE m[s].hi

\* n is m, but that the bounds over c have grown.
Widened(m, n, c, up) ==
  /\ n \in Trees
  /\ \A s \in Segs :
       /\ n[s].life = m[s].life /\ n[s].parent = m[s].parent
       /\ n[s].sz = m[s].sz /\ n[s].lit = m[s].lit /\ n[s].litSz = m[s].litSz
       /\ n[s].locked = m[s].locked /\ n[s].freed = m[s].freed
       /\ n[s].lo = Lower(m, c, up, s) /\ n[s].hi = Upper(m, c, up, s)
       /\ \A k : (\E i \in Slots : n[s].kids[i] = k) <=> (\E i \in Slots : m[s].kids[i] = k)
       /\ SlotsApart(m, s) => SlotsApart(n, s)

LEMMA UpdateBoundsWidens ==
  ASSUME NEW m \in Trees, NEW c \in Segs
  PROVE  \E up \in SUBSET Segs :
           /\ c \in up /\ \A r \in up : m[r].parent \in up \cup {NULL}
           /\ Widened(m, UpdateBounds(m, c), c, up)
<1> DEFINE up == Ancestors(m, c)
           next == [r \in Segs |-> {m[r].parent} \ {NULL}]
           wide == [s \in Segs |->
                      IF s \notin up THEN m[s]
                      ELSE [m[s] EXCEPT !.lo = IF m[c].lo < @ THEN m[c].lo ELSE @,
                                        !.hi = IF m[c].hi > @ THEN m[c].hi ELSE @]]
           n == [s \in Segs |-> IF s \in up THEN [wide[s] EXCEPT !.kids = SortKids(wide, s)] ELSE wide[s]]
<1>1. next \in [Segs -> SUBSET Segs]
  BY SegFields
<1>2. up = From(next, c)
  BY DEF Ancestors
<1>3. up \in SUBSET Segs /\ c \in up /\ \A r \in up : next[r] \subseteq up
  <2> HIDE DEF next, up
  <2> QED
    BY <1>1, <1>2, FromIs
<1>4. \A r \in up : m[r].parent \in up \cup {NULL}
  BY <1>3
<1>5. UpdateBounds(m, c) = n
  BY DEF UpdateBounds
<1> HIDE DEF up
<1>6. \A s \in Segs : /\ m[s] \in SegRec /\ m[s].lo \in Addrs /\ m[s].hi \in Addrs
  BY SegFields
<1>7. wide \in Trees
  <2> SUFFICES ASSUME NEW s \in Segs PROVE wide[s] \in SegRec
    BY DEF Trees
  <2> QED
    BY <1>6 DEF SegRec
<1>8. \A s \in Segs :
        /\ wide[s].life = m[s].life /\ wide[s].parent = m[s].parent /\ wide[s].kids = m[s].kids
        /\ wide[s].sz = m[s].sz /\ wide[s].lit = m[s].lit /\ wide[s].litSz = m[s].litSz
        /\ wide[s].locked = m[s].locked /\ wide[s].freed = m[s].freed
        /\ wide[s].lo = Lower(m, c, up, s) /\ wide[s].hi = Upper(m, c, up, s)
  BY <1>6 DEF SegRec, Lower, Upper
<1> HIDE DEF wide
<1>9. ASSUME NEW s \in Segs
      PROVE  /\ n[s] \in SegRec
             /\ n[s].life = wide[s].life /\ n[s].parent = wide[s].parent
             /\ n[s].sz = wide[s].sz /\ n[s].lit = wide[s].lit /\ n[s].litSz = wide[s].litSz
             /\ n[s].locked = wide[s].locked /\ n[s].freed = wide[s].freed
             /\ n[s].lo = wide[s].lo /\ n[s].hi = wide[s].hi
             /\ n[s].kids = IF s \in up THEN SortKids(wide, s) ELSE wide[s].kids
  <2>1. SortKids(wide, s) \in [1 .. Width -> Segs \cup {NULL}] /\ wide[s] \in SegRec
    BY <1>7, SortKeepsKids, SegFields DEF Slots
  <2> QED
    BY <2>1 DEF SegRec
<1> HIDE DEF n
<1>10. n \in Trees
  <2>1. n = [s \in Segs |-> n[s]]
    BY DEF n
  <2> QED
    BY <1>9, <2>1 DEF Trees
<1>11. ASSUME NEW s \in Segs
       PROVE  /\ \A k : (\E i \in Slots : n[s].kids[i] = k) <=> (\E i \in Slots : m[s].kids[i] = k)
              /\ SlotsApart(m, s) => SlotsApart(n, s)
  <2>1. SlotsApart(wide, s) <=> SlotsApart(m, s)
    BY <1>8 DEF SlotsApart
  <2>2. CASE s \in up
    <3>1. n[s].kids = SortKids(wide, s) /\ wide[s].kids = m[s].kids
      BY <1>8, <1>9, <2>2
    <3>2. \A k : (\E i \in Slots : SortKids(wide, s)[i] = k) <=> (\E i \in Slots : wide[s].kids[i] = k)
      BY <1>7, SortKeepsKids
    <3>3. SlotsApart(wide, s) => \A i, j \in Slots :
            SortKids(wide, s)[i] = SortKids(wide, s)[j] /\ SortKids(wide, s)[i] # NULL => i = j
      BY <1>7, SortKeepsKids
    <3> QED
      BY <2>1, <3>1, <3>2, <3>3 DEF SlotsApart
  <2>3. CASE s \notin up
    BY <1>8, <1>9, <2>3 DEF SlotsApart
  <2> QED
    BY <2>2, <2>3
<1>12. Widened(m, n, c, up)
  BY <1>8, <1>9, <1>10, <1>11 DEF Widened
<1> QED
  BY <1>3, <1>4, <1>5, <1>12

-----------------------------------------------------------------------------
\* A segment c is put into a slot of q.

Put(m, q, slot, c, a) ==
  [m EXCEPT ![q].kids[slot] = c, ![c].parent = q, ![c].lo = a, ![c].lit = a,
            ![c].hi = Wrap(a + m[c].sz)]

LEMMA WrapType == ASSUME NEW n \in Int PROVE Wrap(n) \in Addrs
  BY MmuOK DEF Wrap, Addrs

PutEffect(m, n, q, slot, c) ==
  /\ n \in Trees
  /\ \A s \in Segs :
       /\ n[s].life = m[s].life /\ n[s].sz = m[s].sz /\ n[s].litSz = m[s].litSz
       /\ n[s].locked = m[s].locked /\ n[s].freed = m[s].freed
       /\ n[s].parent = IF s = c THEN q ELSE m[s].parent
       /\ n[s].kids = IF s = q THEN [m[s].kids EXCEPT ![slot] = c] ELSE m[s].kids
       /\ s # c => n[s].lo = m[s].lo /\ n[s].hi = m[s].hi /\ n[s].lit = m[s].lit

LEMMA PutFields ==
  ASSUME NEW m \in Trees, NEW q \in Segs, NEW c \in Segs, NEW slot \in Slots, NEW a \in Addrs
  PROVE  PutEffect(m, Put(m, q, slot, c, a), q, slot, c)
<1> DEFINE m1 == [m EXCEPT ![q] = [m[q] EXCEPT !.kids = [m[q].kids EXCEPT ![slot] = c]]]
           w == [m1 EXCEPT ![c] = [m1[c] EXCEPT !.parent = q, !.lo = a, !.lit = a,
                                                !.hi = Wrap(a + m[c].sz)]]
<1>1. Put(m, q, slot, c, a) = w
  BY DEF Put, Trees
<1>2. Wrap(a + m[c].sz) \in Addrs
  BY SegFields, WrapType DEF Addrs
<1>3. m[q] \in SegRec /\ m[q].kids \in [1 .. Width -> Segs \cup {NULL}] /\ slot \in 1 .. Width
  BY SegFields DEF Slots
<1>4. m1 \in Trees /\ m1[q] = [m[q] EXCEPT !.kids = [m[q].kids EXCEPT ![slot] = c]]
      /\ \A s \in Segs \ {q} : m1[s] = m[s]
  <2>1. [m[q] EXCEPT !.kids = [m[q].kids EXCEPT ![slot] = c]] \in SegRec
    BY <1>3 DEF SegRec
  <2> QED
    BY <2>1 DEF Trees
<1>5. m1[q].kids = [m[q].kids EXCEPT ![slot] = c]
      /\ m1[q].life = m[q].life /\ m1[q].sz = m[q].sz /\ m1[q].litSz = m[q].litSz
      /\ m1[q].locked = m[q].locked /\ m1[q].freed = m[q].freed /\ m1[q].parent = m[q].parent
      /\ m1[q].lo = m[q].lo /\ m1[q].hi = m[q].hi /\ m1[q].lit = m[q].lit
  BY <1>3, <1>4 DEF SegRec
<1> HIDE DEF m1
<1>6. m1[c] \in SegRec
  BY <1>4, SegFields
<1>7. w[c] \in SegRec /\ \A s \in Segs \ {c} : w[s] = m1[s]
  BY <1>2, <1>4, <1>6 DEF SegRec, Trees
<1>8. w \in Trees
  BY <1>4, <1>7 DEF Trees
<1>9. w[c].parent = q /\ w[c].life = m1[c].life /\ w[c].sz = m1[c].sz /\ w[c].litSz = m1[c].litSz
      /\ w[c].locked = m1[c].locked /\ w[c].freed = m1[c].freed /\ w[c].kids = m1[c].kids
  BY <1>4, <1>6 DEF SegRec, Trees
<1> HIDE DEF w
<1>10. ASSUME NEW s \in Segs
       PROVE  /\ w[s].life = m[s].life /\ w[s].sz = m[s].sz /\ w[s].litSz = m[s].litSz
              /\ w[s].locked = m[s].locked /\ w[s].freed = m[s].freed
              /\ w[s].parent = IF s = c THEN q ELSE m[s].parent
              /\ w[s].kids = IF s = q THEN [m[s].kids EXCEPT ![slot] = c] ELSE m[s].kids
              /\ s # c => w[s].lo = m[s].lo /\ w[s].hi = m[s].hi /\ w[s].lit = m[s].lit
  <2>1. /\ m1[s].life = m[s].life /\ m1[s].sz = m[s].sz /\ m1[s].litSz = m[s].litSz
        /\ m1[s].locked = m[s].locked /\ m1[s].freed = m[s].freed /\ m1[s].parent = m[s].parent
        /\ m1[s].kids = IF s = q THEN [m[s].kids EXCEPT ![slot] = c] ELSE m[s].kids
        /\ m1[s].lo = m[s].lo /\ m1[s].hi = m[s].hi /\ m1[s].lit = m[s].lit
    BY <1>4, <1>5
  <2> QED
    BY <1>7, <1>9, <2>1
<1> QED
  BY <1>1, <1>8, <1>10 DEF PutEffect

LEMMA PlaceIsWidenedPut ==
  ASSUME NEW m \in Trees, NEW q \in Segs, NEW c \in Segs, NEW slot \in Slots, NEW a \in Addrs
  PROVE  \E up \in SUBSET Segs :
           /\ c \in up
           /\ \A r \in up : Put(m, q, slot, c, a)[r].parent \in up \cup {NULL}
           /\ Widened(Put(m, q, slot, c, a), Place(m, q, slot, c, a), c, up)
<1>1. Place(m, q, slot, c, a) = UpdateBounds(Put(m, q, slot, c, a), c)
  BY DEF Place, Put
<1>2. Put(m, q, slot, c, a) \in Trees
  BY PutFields DEF PutEffect
<1> QED
  BY <1>1, <1>2, UpdateBoundsWidens

\* What Place leaves as it was.
PlaceEffect(m, n, q, c) ==
  /\ n \in Trees
  /\ \A s \in Segs :
       /\ n[s].life = m[s].life /\ n[s].sz = m[s].sz /\ n[s].litSz = m[s].litSz
       /\ n[s].freed = m[s].freed
       /\ n[s].parent = IF s = c THEN q ELSE m[s].parent

LEMMA PlaceKeeps ==
  ASSUME NEW m \in Trees, NEW q \in Segs, NEW c \in Segs, NEW slot \in Slots, NEW a \in Addrs
  PROVE  PlaceEffect(m, Place(m, q, slot, c, a), q, c)
<1> DEFINE n == Place(m, q, slot, c, a)
           w == Put(m, q, slot, c, a)
<1>1. PICK up \in SUBSET Segs : Widened(w, n, c, up)
  BY PlaceIsWidenedPut
<1>2. PutEffect(m, w, q, slot, c)
  BY PutFields
<1> HIDE DEF n, w
<1>3. PlaceEffect(m, n, q, c)
  <2>1. n \in Trees
    BY <1>1 DEF Widened
  <2>2. ASSUME NEW s \in Segs
        PROVE  /\ n[s].life = m[s].life /\ n[s].sz = m[s].sz /\ n[s].litSz = m[s].litSz
               /\ n[s].freed = m[s].freed
               /\ n[s].parent = IF s = c THEN q ELSE m[s].parent
    <3>1. /\ n[s].life = w[s].life /\ n[s].sz = w[s].sz /\ n[s].litSz = w[s].litSz
          /\ n[s].freed = w[s].freed /\ n[s].parent = w[s].parent
      BY <1>1, Zenon DEF Widened
    <3>2. /\ w[s].life = m[s].life /\ w[s].sz = m[s].sz /\ w[s].litSz = m[s].litSz
          /\ w[s].freed = m[s].freed /\ w[s].parent = IF s = c THEN q ELSE m[s].parent
      BY <1>2, Zenon DEF PutEffect
    <3> QED
      BY <3>1, <3>2
  <2> QED
    BY <2>1, <2>2, Zenon DEF PlaceEffect
<1> QED
  BY <1>3 DEF n

LEMMA PlaceLinks ==
  ASSUME NEW m \in Trees, NEW q \in Segs, NEW c \in Segs, NEW slot \in Slots, NEW a \in Addrs,
         m[q].kids[slot] = NULL, c \notin Kids(m, q)
  PROVE  LET n == Place(m, q, slot, c, a) IN
         /\ \A s \in Segs : Kids(n, s) = IF s = q THEN Kids(m, s) \cup {c} ELSE Kids(m, s)
         /\ \A s \in Segs : SlotsApart(m, s) => SlotsApart(n, s)
<1> DEFINE n == Place(m, q, slot, c, a)
           w == Put(m, q, slot, c, a)
<1>0. c # NULL
  BY MmuOK
<1>1. PICK up \in SUBSET Segs : Widened(w, n, c, up)
  BY PlaceIsWidenedPut
<1>2. PutEffect(m, w, q, slot, c)
  BY PutFields
<1> HIDE DEF n, w
<1>3. w \in Trees /\ n \in Trees
  BY <1>1, <1>2 DEF Widened, PutEffect
<1>4. \A s \in Segs : w[s].kids = IF s = q THEN [m[s].kids EXCEPT ![slot] = c] ELSE m[s].kids
  BY <1>2 DEF PutEffect
<1>5. \A s \in Segs : /\ \A k : (\E i \in Slots : n[s].kids[i] = k) <=> (\E i \in Slots : w[s].kids[i] = k)
                      /\ SlotsApart(w, s) => SlotsApart(n, s)
  BY <1>1 DEF Widened
<1>6. ASSUME NEW s \in Segs
      PROVE  Kids(n, s) = IF s = q THEN Kids(m, s) \cup {c} ELSE Kids(m, s)
  <2>1. \A k : k \in Kids(n, s) <=> k # NULL /\ \E i \in Slots : n[s].kids[i] = k
    BY <1>3, KidsAre
  <2>2. \A k : k \in Kids(m, s) <=> k # NULL /\ \E i \in Slots : m[s].kids[i] = k
    BY KidsAre
  <2>3. \A k : k \in Kids(n, s) <=> k # NULL /\ \E i \in Slots : w[s].kids[i] = k
    BY <1>5, <2>1
  <2>4. CASE s = q
    <3>1. w[s].kids = [m[s].kids EXCEPT ![slot] = c] /\ m[s].kids \in [Slots -> Segs \cup {NULL}]
      BY <1>4, <2>4, SegFields
    <3>2. \A k : k # NULL =>
            ((\E i \in Slots : w[s].kids[i] = k) <=> (\E i \in Slots : m[s].kids[i] = k) \/ k = c)
      <4> SUFFICES ASSUME NEW k, k # NULL
                   PROVE (\E i \in Slots : w[s].kids[i] = k) <=> (\E i \in Slots : m[s].kids[i] = k) \/ k = c
        OBVIOUS
      <4>1. \A i \in Slots : w[s].kids[i] = IF i = slot THEN c ELSE m[s].kids[i]
        BY <3>1
      <4>2. m[s].kids[slot] = NULL
        BY <2>4
      <4> HIDE DEF w
      <4> QED
        BY <4>1, <4>2
    <3>3. \A k : k \in Kids(n, s) <=> k \in Kids(m, s) \cup {c}
      BY <1>0, <2>2, <2>3, <3>2
    <3> QED
      BY <2>4, <3>3
  <2>5. CASE s # q
    <3>1. w[s].kids = m[s].kids
      BY <1>4, <2>5
    <3> QED
      BY <2>2, <2>3, <2>5, <3>1
  <2> QED
    BY <2>4, <2>5
<1>7. ASSUME NEW s \in Segs, SlotsApart(m, s) PROVE SlotsApart(n, s)
  <2>1. CASE s = q
    <3>1. \A i \in Slots : m[s].kids[i] # c
      BY <1>0, <2>1, KidsAre
    <3>2. w[s].kids = [m[s].kids EXCEPT ![slot] = c] /\ m[s].kids \in [Slots -> Segs \cup {NULL}]
      BY <1>4, <2>1, SegFields
    <3>3. \A i \in Slots : w[s].kids[i] = IF i = slot THEN c ELSE m[s].kids[i]
      BY <3>2
    <3>4. SlotsApart(w, s)
      BY <1>7, <3>1, <3>3 DEF SlotsApart
    <3> QED
      BY <1>5, <3>4
  <2>2. CASE s # q
    <3>1. w[s].kids = m[s].kids
      BY <1>4, <2>2
    <3>2. SlotsApart(w, s)
      BY <1>7, <3>1 DEF SlotsApart
    <3> QED
      BY <1>5, <3>2
  <2> QED
    BY <2>1, <2>2
<1>8. /\ \A s \in Segs : Kids(n, s) = IF s = q THEN Kids(m, s) \cup {c} ELSE Kids(m, s)
      /\ \A s \in Segs : SlotsApart(m, s) => SlotsApart(n, s)
  BY <1>6, <1>7
<1> QED
  BY <1>8 DEF n

\* The bounds of s lie in those of its parent.
Nested(m, s) == m[m[s].parent].lo <= m[s].lo /\ m[s].hi <= m[m[s].parent].hi

LEMMA PlaceNests ==
  ASSUME NEW m \in Trees, NEW q \in Segs, NEW c \in Segs, NEW slot \in Slots, NEW a \in Addrs, c # q
  PROVE  LET n == Place(m, q, slot, c, a) IN
         /\ Nested(n, c)
         /\ \A s \in Segs \ {c} :
              m[s].parent \in Segs \ {c} /\ Nested(m, s) => Nested(n, s)
<1> DEFINE n == Place(m, q, slot, c, a)
           w == Put(m, q, slot, c, a)
<1>1. PICK up \in SUBSET Segs : /\ c \in up /\ \A r \in up : w[r].parent \in up \cup {NULL}
                                /\ Widened(w, n, c, up)
  BY PlaceIsWidenedPut
<1>2. PutEffect(m, w, q, slot, c)
  BY PutFields
<1> HIDE DEF n, w
<1>3. w \in Trees /\ n \in Trees
  BY <1>1, <1>2 DEF Widened, PutEffect
<1>4. \A s \in Segs : /\ n[s].parent = w[s].parent
                      /\ n[s].lo = Lower(w, c, up, s) /\ n[s].hi = Upper(w, c, up, s)
  BY <1>1 DEF Widened
<1>5. \A s \in Segs : /\ w[s].parent = IF s = c THEN q ELSE m[s].parent
                      /\ s # c => w[s].lo = m[s].lo /\ w[s].hi = m[s].hi
  BY <1>2 DEF PutEffect
<1>6. \A s \in Segs : w[s].lo \in Int /\ w[s].hi \in Int
  BY <1>3, SegFields, MmuOK DEF Addrs
<1>7. NULL \notin Segs
  BY MmuOK
<1>8. \A s \in Segs : w[s].parent \in Segs /\ Nested(w, s) => Nested(n, s)
  <2> SUFFICES ASSUME NEW s \in Segs, w[s].parent \in Segs, Nested(w, s) PROVE Nested(n, s)
    OBVIOUS
  <2> DEFINE p == w[s].parent
  <2>1. w[p].lo <= w[s].lo /\ w[s].hi <= w[p].hi /\ n[s].parent = p
    BY <1>4 DEF Nested
  <2>2. s \in up => p \in up
    BY <1>1, <1>7
  <2>3. /\ n[s].lo = Lower(w, c, up, s) /\ n[s].hi = Upper(w, c, up, s)
        /\ n[p].lo = Lower(w, c, up, p) /\ n[p].hi = Upper(w, c, up, p)
    BY <1>4
  <2>4. /\ w[p].lo \in Int /\ w[p].hi \in Int /\ w[s].lo \in Int /\ w[s].hi \in Int
        /\ w[c].lo \in Int /\ w[c].hi \in Int
    BY <1>6
  <2> HIDE DEF p
  <2>5. n[p].lo <= n[s].lo
    BY <2>1, <2>2, <2>3, <2>4 DEF Lower
  <2>6. n[s].hi <= n[p].hi
    BY <2>1, <2>2, <2>3, <2>4 DEF Upper
  <2> QED
    BY <2>1, <2>5, <2>6 DEF Nested
<1>9. Nested(n, c)
  <2>1. w[c].parent = q /\ q \in up /\ n[c].parent = q
    BY <1>1, <1>4, <1>5, <1>7
  <2>2. /\ n[c].lo = Lower(w, c, up, c) /\ n[c].hi = Upper(w, c, up, c)
        /\ n[q].lo = Lower(w, c, up, q) /\ n[q].hi = Upper(w, c, up, q)
    BY <1>4
  <2>3. w[q].lo \in Int /\ w[q].hi \in Int /\ w[c].lo \in Int /\ w[c].hi \in Int
    BY <1>6
  <2>4. n[q].lo <= n[c].lo /\ n[c].hi <= n[q].hi
    BY <2>1, <2>2, <2>3 DEF Lower, Upper
  <2> QED
    BY <2>1, <2>4 DEF Nested
<1>10. ASSUME NEW s \in Segs \ {c}, m[s].parent \in Segs \ {c}, Nested(m, s) PROVE Nested(n, s)
  <2>1. w[s].parent = m[s].parent /\ w[s].lo = m[s].lo /\ w[s].hi = m[s].hi
    BY <1>5
  <2>2. w[m[s].parent].lo = m[m[s].parent].lo /\ w[m[s].parent].hi = m[m[s].parent].hi
    BY <1>5, <1>10
  <2>3. Nested(w, s)
    BY <1>10, <2>1, <2>2 DEF Nested
  <2> QED
    BY <1>8, <1>10, <2>1, <2>3
<1>11. Nested(n, c) /\ \A s \in Segs \ {c} : m[s].parent \in Segs \ {c} /\ Nested(m, s) => Nested(n, s)
  BY <1>9, <1>10
<1> QED
  BY <1>11 DEF n

-----------------------------------------------------------------------------
\* The search of an address.

LEMMA FirstIs ==
  ASSUME NEW I \in SUBSET Nat, I # {}
  PROVE  First(I) \in I /\ \A j \in I : First(I) <= j
<1>1. \E i \in I : \A j \in I : i <= j
  BY Shared!LeastElement
<1> QED
  BY <1>1 DEF First

Found == Segs \cup {NULL, "dangling"}

\* One level of the search, g being what the level below finds.
LocateStep(m, a, g) ==
  [r \in Segs |->
     LET hit(i) == IF m[r].kids[i] = NULL THEN NULL ELSE g[m[r].kids[i]]
         hits   == {i \in 1 .. Width : hit(i) # NULL}
     IN  IF m[r].life # "live" THEN "dangling"
         ELSE IF ContainsLiteral(m[r], a, 0) THEN r
         ELSE IF ~InBounds(m[r], a) \/ hits = {} THEN NULL
         ELSE hit(First(hits))]

\* What a level of the search finds at r, as far as the proofs need it.
LEMMA LocateStepIs ==
  ASSUME NEW m \in Trees, NEW a, NEW g \in [Segs -> Found], NEW r \in Segs
  PROVE  LET x == LocateStep(m, a, g)[r] IN
         /\ x \in Found
         /\ m[r].life # "live" => x = "dangling"
         /\ m[r].life = "live" => \/ x = NULL
                                  \/ x = r /\ m[r].litSz # 0
                                  \/ \E k \in Kids(m, r) : x = g[k]
<1> DEFINE hit(i) == IF m[r].kids[i] = NULL THEN NULL ELSE g[m[r].kids[i]]
           hits   == {i \in 1 .. Width : hit(i) # NULL}
           x      == LocateStep(m, a, g)[r]
<1>1. x = IF m[r].life # "live" THEN "dangling"
          ELSE IF ContainsLiteral(m[r], a, 0) THEN r
          ELSE IF ~InBounds(m[r], a) \/ hits = {} THEN NULL
          ELSE hit(First(hits))
  BY DEF LocateStep
<1>2. m[r].kids \in [1 .. Width -> Segs \cup {NULL}]
  BY SegFields DEF Slots
<1>3. hits # {} => /\ First(hits) \in 1 .. Width
                   /\ m[r].kids[First(hits)] \in Segs
                   /\ hit(First(hits)) = g[m[r].kids[First(hits)]]
                   /\ m[r].kids[First(hits)] \in Kids(m, r)
  <2> SUFFICES ASSUME hits # {} PROVE /\ First(hits) \in 1 .. Width
                                      /\ m[r].kids[First(hits)] \in Segs
                                      /\ hit(First(hits)) = g[m[r].kids[First(hits)]]
                                      /\ m[r].kids[First(hits)] \in Kids(m, r)
    OBVIOUS
  <2>1. hits \in SUBSET Nat
    OBVIOUS
  <2> HIDE DEF hits
  <2>2. First(hits) \in hits
    BY <2>1, FirstIs
  <2>3. First(hits) \in 1 .. Width /\ hit(First(hits)) # NULL
    BY <2>2 DEF hits
  <2>4. m[r].kids[First(hits)] # NULL /\ m[r].kids[First(hits)] \in Segs \cup {NULL}
    BY <1>2, <2>3
  <2>5. m[r].kids[First(hits)] \in Kids(m, r)
    BY <2>3, <2>4, KidsAre DEF Slots
  <2> QED
    BY <2>3, <2>4, <2>5
<1> HIDE DEF hits, hit, x
<1>4. ContainsLiteral(m[r], a, 0) => m[r].litSz # 0
  BY DEF ContainsLiteral
<1>5. x \in Found
  BY <1>1, <1>3 DEF Found
<1>6. /\ m[r].life # "live" => x = "dangling"
      /\ m[r].life = "live" => \/ x = NULL
                               \/ x = r /\ m[r].litSz # 0
                               \/ \E k \in Kids(m, r) : x = g[k]
  BY <1>1, <1>3, <1>4
<1> QED
  BY <1>5, <1>6 DEF x

\* f[d] is what the search finds at each segment when it may go d levels down.
Levels(m, a, f) ==
  /\ f \in [Nat -> [Segs -> Found]]
  /\ f[0] = [r \in Segs |-> "dangling"]
  /\ \A d \in Nat : f[d + 1] = LocateStep(m, a, f[d])
  /\ \A s \in Segs : Locate(m, s, a) = f[MaxPath][s]

LEMMA LocateIs == ASSUME NEW m \in Trees, NEW a PROVE \E f : Levels(m, a, f)
<1> DEFINE D == [Segs -> Found]
           b == [r \in Segs |-> "dangling"]
           step == [g \in D |-> LocateStep(m, a, g)]
           level(d, g) ==
             [r \in Segs |->
               LET hit(i) == IF m[r].kids[i] = NULL THEN NULL ELSE g[m[r].kids[i]]
                   hits   == {i \in 1 .. Width : hit(i) # NULL}
               IN  IF d = 0 \/ m[r].life # "live" THEN "dangling"
                   ELSE IF ContainsLiteral(m[r], a, 0) THEN r
                   ELSE IF ~InBounds(m[r], a) \/ hits = {} THEN NULL
                   ELSE hit(First(hits))]
           Def(f) == f = [d \in Nat |-> level(d, f[d - 1])]
           f == CHOOSE f : Def(f)
<1>1. b \in D
  BY DEF Found
<1>2. step \in [D -> D]
  <2> SUFFICES ASSUME NEW g \in D PROVE LocateStep(m, a, g) \in D
    OBVIOUS
  <2>1. \A r \in Segs : LocateStep(m, a, g)[r] \in Found
    BY LocateStepIs
  <2>2. LocateStep(m, a, g) = [r \in Segs |-> LocateStep(m, a, g)[r]]
    BY DEF LocateStep
  <2> QED
    BY <2>1, <2>2
<1>3. PICK g \in [Nat -> D] : \A d \in Nat : g[d] = IF d = 0 THEN b ELSE step[g[d - 1]]
  <2> HIDE DEF D, b, step
  <2> QED
    BY <1>1, <1>2, Shared!RecursionExists
<1>0. \A h : level(0, h) = b
  OBVIOUS
<1>s. \A d \in Nat : \A h : d # 0 => level(d, h) = LocateStep(m, a, h)
  BY DEF LocateStep
<1>4. Def(g)
  <2> HIDE DEF level, b
  <2>1. ASSUME NEW d \in Nat PROVE g[d] = level(d, g[d - 1])
    <3>1. CASE d = 0
      BY <1>0, <1>3, <3>1
    <3>2. CASE d # 0
      <4>1. d - 1 \in Nat /\ g[d - 1] \in D
        BY <3>2
      <4>2. g[d] = LocateStep(m, a, g[d - 1])
        BY <1>3, <3>2, <4>1
      <4> QED
        BY <1>s, <3>2, <4>2
    <3> QED
      BY <3>1, <3>2
  <2> QED
    BY <2>1
<1>5. Def(f)
  <2> HIDE DEF Def
  <2> QED
    BY <1>4
<1>6. \A s \in Segs : Locate(m, s, a) = f[MaxPath][s]
  BY DEF Locate
<1> HIDE DEF f, level
<1>7. f[0] = b
  BY <1>0, <1>5
<1>8. \A d \in Nat : f[d + 1] = LocateStep(m, a, f[d])
  <2> SUFFICES ASSUME NEW d \in Nat PROVE f[d + 1] = LocateStep(m, a, f[d])
    OBVIOUS
  <2>1. d + 1 \in Nat /\ d + 1 # 0 /\ (d + 1) - 1 = d
    OBVIOUS
  <2> QED
    BY <1>s, <1>5, <2>1
<1>9. f \in [Nat -> D]
  <2> DEFINE X == {d \in Nat : f[d] \in D}
  <2>1. 0 \in X
    BY <1>1, <1>7
  <2>2. ASSUME NEW d \in Nat, d \in X PROVE d + 1 \in X
    <3>1. f[d + 1] = step[f[d]]
      BY <1>8, <2>2
    <3> QED
      BY <1>2, <2>2, <3>1
  <2> HIDE DEF X
  <2>3. Nat \subseteq X
    BY <2>1, <2>2, Shared!InductionOnNat
  <2>4. \A d \in Nat : f[d] \in D
    BY <2>3 DEF X
  <2>5. f = [d \in Nat |-> f[d]]
    BY <1>5
  <2> HIDE DEF D
  <2> QED
    BY <2>4, <2>5
<1> QED
  BY <1>6, <1>7, <1>8, <1>9 DEF Levels

\* A search finds a segment in use that has literal memory, or none, or meets a
\* freed segment.
LEMMA LocateFinds ==
  ASSUME NEW m \in Trees, NEW a, NEW s \in Segs
  PROVE  /\ Locate(m, s, a) \in Found
         /\ Locate(m, s, a) \in Segs =>
              m[Locate(m, s, a)].life = "live" /\ m[Locate(m, s, a)].litSz # 0
<1> DEFINE Good(x) == x \in Found /\ (x \in Segs => m[x].life = "live" /\ m[x].litSz # 0)
<1>0. PICK f : Levels(m, a, f)
  BY LocateIs
<1>1. /\ f \in [Nat -> [Segs -> Found]]
      /\ f[0] = [r \in Segs |-> "dangling"]
      /\ \A d \in Nat : f[d + 1] = LocateStep(m, a, f[d])
      /\ \A r \in Segs : Locate(m, r, a) = f[MaxPath][r]
  BY <1>0 DEF Levels
<1> DEFINE X == {d \in Nat : \A r \in Segs : Good(f[d][r])}
<1>2. 0 \in X
  BY <1>1, MmuOK DEF Found
<1>3. ASSUME NEW d \in Nat, d \in X PROVE d + 1 \in X
  <2> SUFFICES ASSUME NEW r \in Segs PROVE Good(f[d + 1][r])
    OBVIOUS
  <2> DEFINE g == f[d]
             x == LocateStep(m, a, g)[r]
  <2>1. f[d + 1][r] = x /\ g \in [Segs -> Found] /\ \A k \in Segs : Good(g[k])
    BY <1>1, <1>3
  <2> HIDE DEF g
  <2>2. /\ x \in Found
        /\ m[r].life # "live" => x = "dangling"
        /\ m[r].life = "live" => \/ x = NULL
                                 \/ x = r /\ m[r].litSz # 0
                                 \/ \E k \in Kids(m, r) : x = g[k]
    BY <2>1, LocateStepIs
  <2>3. Kids(m, r) \subseteq Segs
    BY KidsAre
  <2>4. "dangling" \notin Segs /\ NULL \notin Segs
    BY MmuOK
  <2> HIDE DEF x
  <2> QED
    BY <2>1, <2>2, <2>3, <2>4
<1> HIDE DEF X
<1>4. Nat \subseteq X
  BY <1>2, <1>3, Shared!InductionOnNat
<1>5. MaxPath \in Nat
  BY MmuOK, FS_CardinalityType DEF MaxPath
<1> QED
  BY <1>1, <1>4, <1>5 DEF X

-----------------------------------------------------------------------------
\* The shape of the tree.

Ranked(m, rank) ==
  rank \in [Segs -> Nat] /\ \A s \in Segs : \A k \in Kids(m, s) : rank[s] < rank[k]

\* The segments in use are a tree below the root: each is in one slot of its
\* parent, and those that are not in use have no children.
TreeOK(m) ==
  /\ m[Root].life = "live"
  /\ \A s \in Segs : m[s].life # "live" => Kids(m, s) = {}
  /\ \A s \in Segs : \A k \in Kids(m, s) : m[k].life = "live" /\ m[k].parent = s
  /\ \A s \in Segs \ {Root} : m[s].life = "live" => m[s].parent \in Segs /\ s \in Kids(m, m[s].parent)
  /\ \A s \in Segs : SlotsApart(m, s)
  /\ \E rank : Ranked(m, rank)

\* The same but that a segment in use may be in no slot: a FREE took it out.
TreeBase(m) ==
  /\ m[Root].life = "live"
  /\ \A s \in Segs : m[s].life # "live" => Kids(m, s) = {}
  /\ \A s \in Segs : \A k \in Kids(m, s) : m[k].life = "live" /\ m[k].parent = s
  /\ \A s \in Segs \ {Root} : m[s].life = "live" => m[s].parent \in Segs
  /\ \A s \in Segs : SlotsApart(m, s)
  /\ \E rank : Ranked(m, rank)

Detached(m) == {s \in Segs \ {Root} : m[s].life = "live" /\ s \notin Kids(m, m[s].parent)}

LEMMA BaseIsTree ==
  ASSUME NEW m
  PROVE  TreeOK(m) <=> TreeBase(m) /\ Detached(m) = {}
<1>1. ASSUME TreeOK(m) PROVE TreeBase(m) /\ Detached(m) = {}
  BY <1>1 DEF TreeOK, TreeBase, Detached
<1>2. ASSUME TreeBase(m), Detached(m) = {} PROVE TreeOK(m)
  BY <1>2 DEF TreeOK, TreeBase, Detached
<1> QED
  BY <1>1, <1>2

\* Every segment in use is reached from the root.
LEMMA LiveReached ==
  ASSUME NEW m \in Trees, TreeOK(m), NEW R \in SUBSET Segs, Root \in R,
         \A r \in R : Kids(m, r) \subseteq R
  PROVE  \A s \in Segs : m[s].life = "live" => s \in R
<1>1. PICK rank : Ranked(m, rank)
  BY DEF TreeOK
<1>2. rank \in [Segs -> Nat] /\ \A r \in Segs : \A k \in Kids(m, r) : rank[r] < rank[k]
  BY <1>1 DEF Ranked
<1> SUFFICES ASSUME NEW s0 \in Segs, m[s0].life = "live", s0 \notin R PROVE FALSE
  OBVIOUS
<1> DEFINE L == {s \in Segs : m[s].life = "live" /\ s \notin R}
           N == {rank[s] : s \in L}
<1>3. N \in SUBSET Nat /\ N # {}
  BY <1>2
<1> HIDE DEF N
<1>4. PICK n \in N : \A k \in N : n <= k
  BY <1>3, Shared!LeastElement
<1>5. PICK s \in L : \A r \in L : rank[s] <= rank[r]
  BY <1>4 DEF N
<1> DEFINE p == m[s].parent
<1>6. s # Root /\ p \in Segs /\ s \in Kids(m, p)
  BY <1>5 DEF TreeOK
<1>7. m[p].life = "live" /\ p \notin R /\ rank[p] < rank[s]
  BY <1>2, <1>5, <1>6 DEF TreeOK
<1> HIDE DEF p
<1>8. p \in L
  BY <1>6, <1>7
<1> QED
  BY <1>2, <1>5, <1>6, <1>7, <1>8

-----------------------------------------------------------------------------
\* Inserting.

Outcomes == [result : {"ok", "fail", "overflow"}, tree : Trees]
Calls == [Segs -> [Addrs -> Outcomes]]

\* The call of insert_segment for q and b, g being the outcomes of the level below.
InsertFrom(m, c, force, g, q, b) ==
  LET failed == [result |-> "fail", tree |-> m]
      put(r, slot, a) == [result |-> "ok", tree |-> Place(m, r, slot, c, a)]
      room == Room(m, q, m[c].sz, b)
      slot == FreeSlot(m, q)
      tries(x) == {[at |-> i, end |-> g[m[q].kids[i]][x]] : i \in 1 .. Width}
      into(x)  == LET ended == {t \in tries(x) : t.end.result # "fail"}
                  IN  IF ended = {} THEN failed
                      ELSE (CHOOSE t \in ended : \A u \in ended : t.at <= u.at).end
      granted  == into(b)
  IN  IF room = "no" /\ force THEN failed
      ELSE IF room = "overflow" THEN [failed EXCEPT !.result = "overflow"]
      ELSE IF slot # 0 THEN put(q, slot, IF room = "no" THEN NextAddress(m, q, slot) ELSE b)
      ELSE IF room = "no" \/ granted.result = "fail" THEN into(0) ELSE granted

InsertLevel(m, c, force, d, g) ==
  [q \in Segs |-> [b \in Addrs |-> IF d = 0 THEN [result |-> "fail", tree |-> m]
                                  ELSE InsertFrom(m, c, force, g, q, b)]]

\* The segment is in a free slot of q at some address.
PutInto(m, q, c, x) ==
  /\ x.result = "ok"
  /\ \E slot \in Slots, a \in Addrs : m[q].kids[slot] = NULL /\ x.tree = Place(m, q, slot, c, a)

LEMMA FreeSlotIs ==
  ASSUME NEW m \in Trees, NEW q \in Segs
  PROVE  /\ FreeSlot(m, q) # 0 =>
              /\ FreeSlot(m, q) \in Slots /\ m[q].kids[FreeSlot(m, q)] = NULL
              /\ NextAddress(m, q, FreeSlot(m, q)) \in Addrs
         /\ FreeSlot(m, q) = 0 => \A i \in Slots : m[q].kids[i] \in Kids(m, q)
<1> DEFINE free == {i \in 1 .. Width : m[q].kids[i] = NULL}
<1>1. m[q].kids \in [Slots -> Segs \cup {NULL}]
  BY SegFields
<1>2. CASE free = {}
  <2>1. FreeSlot(m, q) = 0
    BY <1>2 DEF FreeSlot
  <2>2. \A i \in Slots : m[q].kids[i] # NULL
    BY <1>2 DEF Slots
  <2>3. \A i \in Slots : m[q].kids[i] \in Kids(m, q)
    BY <2>2, KidsAre
  <2> QED
    BY <2>1, <2>3
<1>3. CASE free # {}
  <2> DEFINE slot == FreeSlot(m, q)
  <2>1. slot = First(free)
    BY <1>3 DEF FreeSlot
  <2>2. free \in SUBSET Nat
    OBVIOUS
  <2>3. slot \in free /\ \A j \in free : slot <= j
    <3> HIDE DEF free, slot
    <3> QED
      BY <1>3, <2>1, <2>2, FirstIs
  <2>4. slot \in Slots /\ slot # 0 /\ m[q].kids[slot] = NULL
    BY <2>3 DEF Slots
  <2>5. NextAddress(m, q, slot) \in Addrs
    <3> HIDE DEF slot
    <3>1. CASE slot = 1
      <4>1. m[q].lit + m[q].litSz \in Int
        BY SegFields, MmuOK DEF Addrs
      <4> QED
        BY <3>1, <4>1, WrapType DEF NextAddress
    <3>2. CASE slot # 1
      <4>1. slot - 1 \in Slots /\ ~(slot <= slot - 1)
        BY <2>4, <3>2, MmuOK DEF Slots
      <4>2. m[q].kids[slot - 1] \in Segs
        BY <1>1, <2>3, <4>1 DEF Slots
      <4> QED
        BY <3>2, <4>2, SegFields DEF NextAddress
    <3> QED
      BY <3>1, <3>2
  <2> QED
    BY <2>4, <2>5
<1> QED
  BY <1>2, <1>3

\* What one level makes of the level below.
LEMMA InsertLevelIs ==
  ASSUME NEW m \in Trees, NEW c \in Segs, NEW force \in BOOLEAN, NEW d \in Nat,
         NEW g, d = 0 \/ g \in Calls, NEW q \in Segs, NEW b \in Addrs
  PROVE  LET x == InsertLevel(m, c, force, d, g)[q][b] IN
         /\ x \in Outcomes
         /\ \/ x.result # "ok"
            \/ PutInto(m, q, c, x)
            \/ d # 0 /\ \E k \in Kids(m, q), y \in Addrs : x = g[k][y]
<1> DEFINE failed == [result |-> "fail", tree |-> m]
           room == Room(m, q, m[c].sz, b)
           slot == FreeSlot(m, q)
           tries(z) == {[at |-> i, end |-> g[m[q].kids[i]][z]] : i \in 1 .. Width}
           ended(z) == {t \in tries(z) : t.end.result # "fail"}
           first(z) == CHOOSE t \in ended(z) : \A u \in ended(z) : t.at <= u.at
           into(z)  == IF ended(z) = {} THEN failed ELSE first(z).end
           at(a) == [result |-> "ok", tree |-> Place(m, q, slot, c, a)]
           x == InsertLevel(m, c, force, d, g)[q][b]
           Good(y) == /\ y \in Outcomes
                      /\ \/ y.result # "ok"
                         \/ PutInto(m, q, c, y)
                         \/ d # 0 /\ \E k \in Kids(m, q), z \in Addrs : y = g[k][z]
<1>1. x = IF d = 0 \/ (room = "no" /\ force) THEN failed
          ELSE IF room = "overflow" THEN [failed EXCEPT !.result = "overflow"]
          ELSE IF slot # 0 THEN at(IF room = "no" THEN NextAddress(m, q, slot) ELSE b)
          ELSE IF room = "no" \/ into(b).result = "fail" THEN into(0) ELSE into(b)
  <2>1. x = IF d = 0 THEN failed ELSE InsertFrom(m, c, force, g, q, b)
    BY DEF InsertLevel
  <2> QED
    BY <2>1 DEF InsertFrom
<1>2. Good(failed) /\ Good([failed EXCEPT !.result = "overflow"])
  BY DEF Outcomes
<1>3. ASSUME slot # 0, NEW a \in Addrs PROVE Good(at(a))
  <2>1. slot \in Slots /\ m[q].kids[slot] = NULL
    BY <1>3, FreeSlotIs
  <2>2. Place(m, q, slot, c, a) \in Trees
    BY <2>1, PlaceKeeps DEF PlaceEffect
  <2>3. at(a) \in Outcomes /\ at(a).result = "ok" /\ at(a).tree = Place(m, q, slot, c, a)
    BY <2>2 DEF Outcomes
  <2> HIDE DEF at
  <2>4. PutInto(m, q, c, at(a))
    BY <2>1, <2>3 DEF PutInto
  <2> QED
    BY <2>3, <2>4
<1>4. ASSUME d # 0, slot = 0, NEW z \in Addrs PROVE Good(into(z))
  <2>0. \A i \in Slots : m[q].kids[i] \in Kids(m, q)
    BY <1>4, FreeSlotIs
  <2>1. CASE ended(z) = {}
    BY <1>2, <2>1
  <2>2. CASE ended(z) # {}
    <3> DEFINE N == {t.at : t \in ended(z)}
    <3>1. N \in SUBSET Nat /\ N # {}
      BY <2>2
    <3> HIDE DEF N
    <3>2. PICK n \in N : \A k \in N : n <= k
      BY <3>1, Shared!LeastElement
    <3>3. \E t \in ended(z) : \A u \in ended(z) : t.at <= u.at
      BY <3>2 DEF N
    <3> HIDE DEF ended
    <3>4. first(z) \in ended(z)
      BY <3>3
    <3> HIDE DEF first
    <3>5. PICK i \in Slots : first(z) = [at |-> i, end |-> g[m[q].kids[i]][z]]
      BY <3>4 DEF ended, Slots
    <3>6. into(z) = g[m[q].kids[i]][z] /\ m[q].kids[i] \in Kids(m, q) /\ m[q].kids[i] \in Segs
      BY <2>0, <2>2, <3>5, KidsAre
    <3>7. into(z) \in Outcomes
      BY <1>4, <3>6 DEF Calls
    <3> HIDE DEF into
    <3> QED
      BY <1>4, <3>6, <3>7
  <2> QED
    BY <2>1, <2>2
<1>5. 0 \in Addrs
  BY MmuOK DEF Addrs
<1>6. slot # 0 => NextAddress(m, q, slot) \in Addrs
  BY FreeSlotIs
<1> HIDE DEF x, Good, into, at, failed, room, slot
<1>7. Good(x)
  BY <1>1, <1>2, <1>3, <1>4, <1>5, <1>6
<1> QED
  BY <1>7 DEF Good, x

\* f[d] are the outcomes of the calls that may go d levels down.
InsertLevels(m, c, force, f) ==
  /\ f \in [Nat -> Calls]
  /\ f[0] = InsertLevel(m, c, force, 0, f[0])
  /\ \A d \in Nat : f[d + 1] = InsertLevel(m, c, force, d + 1, f[d])
  /\ \A p \in Segs, b \in Addrs : Insert(m, p, c, b, force) = f[MaxPath][p][b]

LEMMA InsertLevelType ==
  ASSUME NEW m \in Trees, NEW c \in Segs, NEW force \in BOOLEAN, NEW d \in Nat,
         NEW g, d = 0 \/ g \in Calls
  PROVE  InsertLevel(m, c, force, d, g) \in Calls
<1> DEFINE h == InsertLevel(m, c, force, d, g)
<1>1. h = [q \in Segs |-> [b \in Addrs |-> h[q][b]]]
  BY DEF InsertLevel
<1>2. \A q \in Segs, b \in Addrs : h[q][b] \in Outcomes
  BY InsertLevelIs
<1> HIDE DEF h
<1>3. h \in Calls
  BY <1>1, <1>2 DEF Calls
<1> QED
  BY <1>3 DEF h

LEMMA InsertIs ==
  ASSUME NEW m \in Trees, NEW c \in Segs, NEW force \in BOOLEAN
  PROVE  \E f : InsertLevels(m, c, force, f)
<1> DEFINE level(d, g) == InsertLevel(m, c, force, d, g)
           b0 == level(0, 0)
           step == [g \in Calls |-> level(1, g)]
           Def(f) == f = [d \in Nat |-> level(d, f[d - 1])]
           f == CHOOSE f : Def(f)
<1>1. \A g : level(0, g) = b0
  BY DEF InsertLevel
<1>2. \A d \in Nat : \A g : d # 0 => level(d, g) = level(1, g)
  <2> SUFFICES ASSUME NEW d \in Nat, NEW g, d # 0 PROVE level(d, g) = level(1, g)
    OBVIOUS
  <2> QED
    BY DEF InsertLevel
<1>3. b0 \in Calls /\ step \in [Calls -> Calls]
  <2>1. b0 \in Calls
    BY InsertLevelType
  <2>2. \A g \in Calls : level(1, g) \in Calls
    BY InsertLevelType
  <2> HIDE DEF b0, level
  <2> QED
    BY <2>1, <2>2
<1>4. \A p \in Segs, b \in Addrs : Insert(m, p, c, b, force) = f[MaxPath][p][b]
  BY Zenon DEF Insert, InsertLevel, InsertFrom
<1> HIDE DEF level
<1>5. PICK g \in [Nat -> Calls] : \A d \in Nat : g[d] = IF d = 0 THEN b0 ELSE step[g[d - 1]]
  <2> HIDE DEF b0, step
  <2> QED
    BY <1>3, Shared!RecursionExists
<1>6. Def(g)
  <2>1. ASSUME NEW d \in Nat PROVE g[d] = level(d, g[d - 1])
    <3>1. CASE d = 0
      <4> HIDE DEF b0
      <4> QED
        BY <1>1, <1>5, <3>1
    <3>2. CASE d # 0
      <4>1. d - 1 \in Nat /\ g[d - 1] \in Calls
        BY <3>2
      <4>2. g[d] = level(1, g[d - 1])
        BY <1>5, <3>2, <4>1
      <4> QED
        BY <1>2, <3>2, <4>2
    <3> QED
      BY <3>1, <3>2
  <2> QED
    BY <2>1
<1>7. Def(f)
  <2> HIDE DEF Def
  <2> QED
    BY <1>6
<1> HIDE DEF f
<1>8. f[0] = b0
  <2> HIDE DEF b0
  <2> QED
    BY <1>1, <1>7
<1>9. \A d \in Nat : f[d + 1] = level(d + 1, f[d])
  <2> SUFFICES ASSUME NEW d \in Nat PROVE f[d + 1] = level(d + 1, f[d])
    OBVIOUS
  <2>1. d + 1 \in Nat /\ (d + 1) - 1 = d
    OBVIOUS
  <2> QED
    BY <1>7, <2>1
<1>10. f \in [Nat -> Calls]
  <2> DEFINE X == {d \in Nat : f[d] \in Calls}
  <2>1. 0 \in X
    BY <1>3, <1>8
  <2>2. ASSUME NEW d \in Nat, d \in X PROVE d + 1 \in X
    <3>1. f[d + 1] = step[f[d]]
      BY <1>2, <1>9, <2>2
    <3> QED
      BY <1>3, <2>2, <3>1
  <2> HIDE DEF X
  <2>3. Nat \subseteq X
    BY <2>1, <2>2, Shared!InductionOnNat
  <2>4. \A d \in Nat : f[d] \in Calls
    BY <2>3 DEF X
  <2>5. f = [d \in Nat |-> f[d]]
    BY <1>7
  <2> QED
    BY <2>4, <2>5
<1>11. f[0] = level(0, f[0])
  BY <1>1, <1>8
<1> QED
  BY <1>4, <1>9, <1>10, <1>11 DEF InsertLevels, level

\* A segment that is inserted is in a free slot of a segment that the children
\* lead to from the one the search for room began at.
LEMMA InsertPuts ==
  ASSUME NEW m \in Trees, NEW c \in Segs, NEW force \in BOOLEAN, NEW base \in Addrs,
         NEW G \in SUBSET Segs, \A q \in G : Kids(m, q) \subseteq G, NEW p \in G
  PROVE  LET x == Insert(m, p, c, base, force) IN
         x \in Outcomes /\ (x.result = "ok" => \E q \in G : PutInto(m, q, c, x))
<1>0. PICK f : InsertLevels(m, c, force, f)
  BY InsertIs
<1>1. /\ f \in [Nat -> Calls]
      /\ f[0] = InsertLevel(m, c, force, 0, f[0])
      /\ \A d \in Nat : f[d + 1] = InsertLevel(m, c, force, d + 1, f[d])
      /\ \A q \in Segs, b \in Addrs : Insert(m, q, c, b, force) = f[MaxPath][q][b]
  BY <1>0 DEF InsertLevels
<1> DEFINE Good(x) == x \in Outcomes /\ (x.result = "ok" => \E q \in G : PutInto(m, q, c, x))
           X == {d \in Nat : \A q \in G, b \in Addrs : Good(f[d][q][b])}
<1>2. 0 \in X
  <2> SUFFICES ASSUME NEW q \in G, NEW b \in Addrs PROVE Good(f[0][q][b])
    OBVIOUS
  <2> DEFINE x == InsertLevel(m, c, force, 0, f[0])[q][b]
  <2>1. x \in Outcomes /\ (x.result # "ok" \/ PutInto(m, q, c, x))
    BY InsertLevelIs
  <2>2. f[0][q][b] = x
    BY <1>1
  <2> HIDE DEF x
  <2> QED
    BY <2>1, <2>2
<1>3. ASSUME NEW d \in Nat, d \in X PROVE d + 1 \in X
  <2> SUFFICES ASSUME NEW q \in G, NEW b \in Addrs PROVE Good(f[d + 1][q][b])
    OBVIOUS
  <2> DEFINE g == f[d]
             x == InsertLevel(m, c, force, d + 1, g)[q][b]
  <2>1. f[d + 1][q][b] = x /\ g \in Calls
    BY <1>1
  <2>2. \A k \in G, y \in Addrs : Good(g[k][y])
    BY <1>3
  <2> HIDE DEF g
  <2>3. /\ x \in Outcomes
        /\ \/ x.result # "ok"
           \/ PutInto(m, q, c, x)
           \/ \E k \in Kids(m, q), y \in Addrs : x = g[k][y]
    BY <2>1, InsertLevelIs
  <2> HIDE DEF x
  <2> QED
    BY <2>1, <2>2, <2>3
<1> HIDE DEF X
<1>4. Nat \subseteq X
  BY <1>2, <1>3, Shared!InductionOnNat
<1>5. MaxPath \in Nat
  BY MmuOK, FS_CardinalityType DEF MaxPath
<1>6. Good(f[MaxPath][p][base])
  BY <1>4, <1>5 DEF X
<1>7. Insert(m, p, c, base, force) = f[MaxPath][p][base]
  BY <1>1
<1> QED
  BY <1>6, <1>7

-----------------------------------------------------------------------------
\* Allocating.

\* The segment that Alloc gives to insert_segment.
Claimed(m, c, size, literal) ==
  [m EXCEPT ![c] = [@ EXCEPT !.life = "live",
                             !.litSz = IF literal THEN size ELSE 0,
                             !.sz = IF literal THEN AllocSize(size) ELSE size]]

LEMMA AllocSizeType == ASSUME NEW n \in Addrs PROVE AllocSize(n) \in Addrs
<1>1. CASE \E k \in Powers : n <= k /\ k < Space
  <2>1. PICK k0 \in Powers : n <= k0 /\ k0 < Space
    BY <1>1
  <2> DEFINE S == {k \in Powers : k >= n}
  <2>2. Powers \subseteq Nat
    BY MmuOK DEF Powers
  <2>3. S \in SUBSET Nat /\ S # {}
    BY <2>1, <2>2, MmuOK DEF Addrs
  <2> HIDE DEF S
  <2>4. PICK k1 \in S : \A j \in S : k1 <= j
    BY <2>3, Shared!LeastElement
  <2>5. k1 \in Powers /\ k1 >= n /\ \A j \in Powers : j >= n => k1 <= j
    BY <2>4 DEF S
  <2> DEFINE r == RoundUp(n, Powers)
  <2>6. r \in Powers /\ r >= n /\ \A j \in Powers : j >= n => r <= j
    BY <2>5 DEF RoundUp
  <2> HIDE DEF r
  <2>7. r <= k0 /\ r \in Nat /\ k0 \in Nat
    BY <2>1, <2>2, <2>6, MmuOK DEF Addrs
  <2>8. r \in Addrs
    BY <2>1, <2>7, MmuOK DEF Addrs
  <2> QED
    BY <1>1, <2>8 DEF AllocSize, r
<1>2. CASE ~ \E k \in Powers : n <= k /\ k < Space
  BY <1>2 DEF AllocSize
<1> QED
  BY <1>1, <1>2

LEMMA ClaimedFields ==
  ASSUME NEW m \in Trees, NEW c \in Segs, NEW size \in Addrs, NEW literal \in BOOLEAN
  PROVE  LET n == Claimed(m, c, size, literal) IN
         /\ n \in Trees
         /\ n[c].life = "live" /\ n[c].litSz = IF literal THEN size ELSE 0
         /\ \A s \in Segs : /\ s # c => n[s] = m[s]
                            /\ n[s].parent = m[s].parent /\ n[s].kids = m[s].kids
                            /\ n[s].lo = m[s].lo /\ n[s].hi = m[s].hi /\ n[s].freed = m[s].freed
<1> DEFINE r == [m[c] EXCEPT !.life = "live", !.litSz = IF literal THEN size ELSE 0,
                             !.sz = IF literal THEN AllocSize(size) ELSE size]
           n == Claimed(m, c, size, literal)
<1>1. n = [m EXCEPT ![c] = r]
  BY DEF Claimed, Trees
<1>2. m[c] \in SegRec /\ AllocSize(size) \in Addrs /\ 0 \in Addrs
  BY SegFields, AllocSizeType, MmuOK DEF Addrs
<1>3. /\ r \in SegRec /\ r.life = "live" /\ r.litSz = IF literal THEN size ELSE 0
      /\ r.parent = m[c].parent /\ r.kids = m[c].kids /\ r.lo = m[c].lo /\ r.hi = m[c].hi
      /\ r.freed = m[c].freed
  BY <1>2 DEF SegRec
<1> HIDE DEF n, r
<1>4. n \in Trees /\ n[c] = r /\ \A s \in Segs : s # c => n[s] = m[s]
  BY <1>1, <1>3 DEF Trees
<1>5. /\ n \in Trees
      /\ n[c].life = "live" /\ n[c].litSz = IF literal THEN size ELSE 0
      /\ \A s \in Segs : /\ s # c => n[s] = m[s]
                         /\ n[s].parent = m[s].parent /\ n[s].kids = m[s].kids
                         /\ n[s].lo = m[s].lo /\ n[s].hi = m[s].hi /\ n[s].freed = m[s].freed
  BY <1>3, <1>4
<1> QED
  BY <1>5 DEF n

\* What holds of the links even after a FREE that was untidy.
LinkOK(m) ==
  /\ m[Root].life # "unborn" /\ m[Root].parent = NULL /\ m[Root].litSz = 0
  /\ \A s \in Segs \ {Root} : m[s].life # "unborn" => m[s].parent \in Segs
  /\ \A s \in Segs : \A k \in Kids(m, s) : m[k].life # "unborn"

\* An allocation that succeeds brings one segment into use.
LEMMA AllocLinks ==
  ASSUME NEW m \in Trees, LinkOK(m), NEW c \in Segs, m[c].life = "unborn",
         NEW size \in Addrs, NEW base \in Addrs, NEW literal \in BOOLEAN
  PROVE  LET x == Insert(Claimed(m, c, size, literal), Root, c, base, ~literal) IN
         /\ x \in Outcomes
         /\ x.result = "ok" =>
              /\ LinkOK(x.tree)
              /\ \A s \in Segs : x.tree[s].life = IF s = c THEN "live" ELSE m[s].life
<1> DEFINE w == Claimed(m, c, size, literal)
           x == Insert(w, Root, c, base, ~literal)
<1>1. /\ w \in Trees /\ w[c].life = "live"
      /\ \A s \in Segs : /\ s # c => w[s] = m[s]
                         /\ w[s].parent = m[s].parent /\ w[s].kids = m[s].kids
  BY ClaimedFields
<1>2. Root \in Segs /\ c # Root /\ c # NULL /\ (~literal) \in BOOLEAN
  <2>1. (~literal) \in BOOLEAN
    BY Zenon
  <2> QED
    BY <2>1, MmuOK DEF LinkOK
<1>3. \A s \in Segs : Kids(w, s) = Kids(m, s)
  BY <1>1 DEF Kids
<1>4. \A q \in Segs : Kids(w, q) \subseteq Segs
  BY <1>1, KidsAre
<1> HIDE DEF w
<1>5. x \in Outcomes /\ (x.result = "ok" => \E q \in Segs : PutInto(w, q, c, x))
  BY <1>1, <1>2, <1>4, InsertPuts
<1> HIDE DEF x
<1>6. ASSUME x.result = "ok"
      PROVE  /\ LinkOK(x.tree)
             /\ \A s \in Segs : x.tree[s].life = IF s = c THEN "live" ELSE m[s].life
  <2>1. PICK q \in Segs, slot \in Slots, a \in Addrs :
          w[q].kids[slot] = NULL /\ x.tree = Place(w, q, slot, c, a)
    BY <1>5, <1>6 DEF PutInto
  <2> DEFINE n == x.tree
  <2>2. PlaceEffect(w, n, q, c)
    BY <1>1, <2>1, PlaceKeeps
  <2>3. c \notin Kids(w, q)
    BY <1>3 DEF LinkOK
  <2>4. \A s \in Segs : Kids(n, s) = IF s = q THEN Kids(w, s) \cup {c} ELSE Kids(w, s)
    BY <1>1, <2>1, <2>3, PlaceLinks
  <2> HIDE DEF n
  <2>5. /\ n \in Trees
        /\ \A s \in Segs : /\ n[s].life = w[s].life /\ n[s].litSz = w[s].litSz
                           /\ n[s].parent = IF s = c THEN q ELSE w[s].parent
    BY <2>2 DEF PlaceEffect
  <2>6. \A s \in Segs : n[s].life = IF s = c THEN "live" ELSE m[s].life
    BY <1>1, <2>5
  <2>7. n[Root].life # "unborn" /\ n[Root].parent = NULL /\ n[Root].litSz = 0
    BY <1>1, <1>2, <2>5 DEF LinkOK
  <2>8. \A s \in Segs \ {Root} : n[s].life # "unborn" => n[s].parent \in Segs
    BY <1>1, <2>5, <2>6 DEF LinkOK
  <2>9. ASSUME NEW s \in Segs, NEW k \in Kids(n, s) PROVE n[k].life # "unborn"
    <3>1. k \in Kids(m, s) \cup {c} /\ k \in Segs
      BY <1>3, <2>4, <2>5, KidsAre
    <3> QED
      BY <2>6, <3>1 DEF LinkOK
  <2> QED
    BY <2>6, <2>7, <2>8, <2>9 DEF LinkOK, n
<1> QED
  BY <1>5, <1>6 DEF x, w

\* The segments in use lie in the bounds of their parents.
NestOK(m) == \A s \in Segs \ {Root} : m[s].life = "live" => Nested(m, s)

\* An allocation keeps the tree, and the bounds nested in it.
LEMMA AllocTree ==
  ASSUME NEW m \in Trees, TreeOK(m), NestOK(m), NEW c \in Segs, m[c].life = "unborn",
         NEW size \in Addrs, NEW base \in Addrs, NEW literal \in BOOLEAN
  PROVE  LET x == Insert(Claimed(m, c, size, literal), Root, c, base, ~literal) IN
         x.result = "ok" => TreeOK(x.tree) /\ NestOK(x.tree)
<1> DEFINE w == Claimed(m, c, size, literal)
           x == Insert(w, Root, c, base, ~literal)
           G == {s \in Segs : m[s].life = "live"}
<1>1. /\ w \in Trees /\ w[c].life = "live"
      /\ \A s \in Segs : /\ s # c => w[s] = m[s]
                         /\ w[s].parent = m[s].parent /\ w[s].kids = m[s].kids
                         /\ w[s].lo = m[s].lo /\ w[s].hi = m[s].hi
  BY ClaimedFields
<1>2. Root \in G /\ c # Root /\ c # NULL /\ c \notin G /\ (~literal) \in BOOLEAN
  <2>1. (~literal) \in BOOLEAN
    BY Zenon
  <2> QED
    BY <2>1, MmuOK DEF TreeOK
<1>3. \A s \in Segs : Kids(w, s) = Kids(m, s) /\ Kids(m, s) \subseteq G /\ c \notin Kids(m, s)
  <2> SUFFICES ASSUME NEW s \in Segs
               PROVE Kids(w, s) = Kids(m, s) /\ Kids(m, s) \subseteq G /\ c \notin Kids(m, s)
    OBVIOUS
  <2>1. Kids(w, s) = Kids(m, s)
    BY <1>1 DEF Kids
  <2>2. Kids(m, s) \subseteq G
    BY KidsAre DEF TreeOK
  <2> QED
    BY <1>2, <2>1, <2>2
<1> HIDE DEF w
<1>5. x.result = "ok" => \E q \in G : PutInto(w, q, c, x)
  <2>1. G \in SUBSET Segs /\ \A q \in G : Kids(w, q) \subseteq G
    BY <1>3
  <2> HIDE DEF G
  <2> QED
    BY <1>1, <1>2, <2>1, InsertPuts
<1> HIDE DEF x
<1>6. ASSUME x.result = "ok" PROVE TreeOK(x.tree) /\ NestOK(x.tree)
  <2>1. PICK q \in G, slot \in Slots, a \in Addrs :
          w[q].kids[slot] = NULL /\ x.tree = Place(w, q, slot, c, a)
    BY <1>5, <1>6 DEF PutInto
  <2> DEFINE n == x.tree
  <2>2. q \in Segs /\ q # c /\ c \notin Kids(w, q)
    BY <1>2, <1>3
  <2>3. PlaceEffect(w, n, q, c)
    BY <1>1, <2>1, <2>2, PlaceKeeps
  <2>4. /\ \A s \in Segs : Kids(n, s) = IF s = q THEN Kids(w, s) \cup {c} ELSE Kids(w, s)
        /\ \A s \in Segs : SlotsApart(w, s) => SlotsApart(n, s)
    BY <1>1, <2>1, <2>2, PlaceLinks
  <2>5. /\ Nested(n, c)
        /\ \A s \in Segs \ {c} : w[s].parent \in Segs \ {c} /\ Nested(w, s) => Nested(n, s)
    BY <1>1, <2>1, <2>2, PlaceNests
  <2> HIDE DEF n
  <2>6. /\ n \in Trees
        /\ \A s \in Segs : /\ n[s].life = IF s = c THEN "live" ELSE m[s].life
                           /\ n[s].parent = IF s = c THEN q ELSE m[s].parent
    BY <1>1, <2>3 DEF PlaceEffect
  <2>7. \A s \in Segs : Kids(n, s) = IF s = q THEN Kids(m, s) \cup {c} ELSE Kids(m, s)
    BY <1>3, <2>4
  <2>8. TreeOK(n)
    <3>1. n[Root].life = "live"
      BY <1>2, <2>6
    <3>2. ASSUME NEW s \in Segs, n[s].life # "live" PROVE Kids(n, s) = {}
      BY <2>6, <2>7, <3>2 DEF TreeOK
    <3>3. ASSUME NEW s \in Segs, NEW k \in Kids(n, s) PROVE n[k].life = "live" /\ n[k].parent = s
      <4>1. CASE k = c
        <5>1. s = q
          BY <1>3, <2>7, <4>1
        <5> QED
          BY <2>6, <4>1, <5>1
      <4>2. CASE k # c
        <5>1. k \in Kids(m, s) /\ k \in Segs
          BY <2>7, <4>2, KidsAre
        <5> QED
          BY <2>6, <4>2, <5>1 DEF TreeOK
      <4> QED
        BY <4>1, <4>2
    <3>4. ASSUME NEW s \in Segs \ {Root}, n[s].life = "live"
          PROVE n[s].parent \in Segs /\ s \in Kids(n, n[s].parent)
      <4>1. CASE s = c
        BY <2>2, <2>6, <2>7, <4>1
      <4>2. CASE s # c
        <5>1. m[s].parent \in Segs /\ s \in Kids(m, m[s].parent) /\ n[s].parent = m[s].parent
          BY <2>6, <3>4, <4>2 DEF TreeOK
        <5> QED
          BY <2>7, <5>1
      <4> QED
        BY <4>1, <4>2
    <3>5. ASSUME NEW s \in Segs PROVE SlotsApart(n, s)
      <4>1. SlotsApart(w, s)
        BY <1>1 DEF TreeOK, SlotsApart
      <4> QED
        BY <2>4, <4>1
    <3>6. \E rank : Ranked(n, rank)
      <4>1. PICK rank : Ranked(m, rank)
        BY DEF TreeOK
      <4> DEFINE up == [rank EXCEPT ![c] = rank[q] + 1]
      <4>2. rank \in [Segs -> Nat] /\ \A s \in Segs : \A k \in Kids(m, s) : rank[s] < rank[k]
        BY <4>1 DEF Ranked
      <4>3. up \in [Segs -> Nat] /\ \A s \in Segs : up[s] = IF s = c THEN rank[q] + 1 ELSE rank[s]
        BY <2>2, <4>2
      <4>4. Kids(m, c) = {}
        BY DEF TreeOK
      <4> HIDE DEF up
      <4>5. ASSUME NEW s \in Segs, NEW k \in Kids(n, s) PROVE up[s] < up[k]
        <5>1. CASE k = c
          <6>1. s = q
            BY <1>3, <2>7, <5>1
          <6> QED
            BY <2>2, <4>2, <4>3, <5>1, <6>1
        <5>2. CASE k # c
          <6>1. k \in Kids(m, s) /\ k \in Segs
            BY <2>7, <5>2, KidsAre
          <6>2. s # c
            BY <4>4, <6>1
          <6> QED
            BY <4>2, <4>3, <5>2, <6>1, <6>2
        <5> QED
          BY <5>1, <5>2
      <4> QED
        BY <4>3, <4>5 DEF Ranked
    <3> QED
      BY <3>1, <3>2, <3>3, <3>4, <3>5, <3>6 DEF TreeOK
  <2>9. NestOK(n)
    <3> SUFFICES ASSUME NEW s \in Segs \ {Root}, n[s].life = "live" PROVE Nested(n, s)
      BY DEF NestOK
    <3>1. CASE s = c
      BY <2>5, <3>1
    <3>2. CASE s # c
      <4>1. m[s].life = "live"
        BY <2>6, <3>2
      <4>2. m[s].parent \in Segs /\ s \in Kids(m, m[s].parent) /\ Nested(m, s)
        BY <4>1 DEF TreeOK, NestOK
      <4>3. Kids(m, c) = {}
        BY DEF TreeOK
      <4>4. w[s].parent \in Segs \ {c}
        BY <1>1, <4>2, <4>3
      <4>5. Nested(w, s)
        BY <1>1, <4>2 DEF Nested
      <4> QED
        BY <2>5, <3>2, <4>4, <4>5
    <3> QED
      BY <3>1, <3>2
  <2> QED
    BY <2>8, <2>9 DEF n
<1> QED
  BY <1>6 DEF x, w

-----------------------------------------------------------------------------
\* Freeing.

PrefixKids(m, s) == {m[s].kids[i] : i \in Prefix(m, s)}

LEMMA PrefixIs ==
  ASSUME NEW m \in Trees, NEW s \in Segs
  PROVE  /\ Prefix(m, s) \subseteq Slots
         /\ PrefixKids(m, s) \subseteq Kids(m, s)
<1>1. ASSUME NEW i \in Prefix(m, s) PROVE i \in Slots /\ m[s].kids[i] # NULL
  <2>1. i \in 1 .. Width /\ \A j \in 1 .. i : m[s].kids[j] # NULL
    BY DEF Prefix
  <2>2. i \in 1 .. i
    BY <2>1
  <2> QED
    BY <2>1, <2>2 DEF Slots
<1>2. \A k \in PrefixKids(m, s) : k \in Kids(m, s)
  BY <1>1, KidsAre DEF PrefixKids
<1> QED
  BY <1>1, <1>2

\* children_freed looks at s, and at nothing the children do not lead to.
LEMMA BelowIs ==
  ASSUME NEW m \in Trees, NEW s \in Segs
  PROVE  /\ Below(m, s) \in SUBSET Segs /\ s \in Below(m, s)
         /\ \A r \in Below(m, s) : PrefixKids(m, r) \subseteq Below(m, s)
         /\ \A R \in SUBSET Segs :
              s \in R /\ (\A r \in R : PrefixKids(m, r) \subseteq R) => Below(m, s) \subseteq R
<1> DEFINE next == [r \in Segs |-> PrefixKids(m, r)]
<1>1. Below(m, s) = From(next, s)
  BY DEF Below, PrefixKids
<1>2. next \in [Segs -> SUBSET Segs]
  <2>1. \A r \in Segs : PrefixKids(m, r) \subseteq Segs
    BY PrefixIs, KidsAre
  <2> QED
    BY <2>1
<1>3. \A r \in Segs : next[r] = PrefixKids(m, r)
  OBVIOUS
<1> HIDE DEF next
<1>4. /\ From(next, s) \in SUBSET Segs
      /\ s \in From(next, s)
      /\ \A r \in From(next, s) : next[r] \subseteq From(next, s)
      /\ \A R \in SUBSET Segs :
           s \in R /\ (\A r \in R : next[r] \subseteq R) => From(next, s) \subseteq R
  BY <1>2, FromIs
<1> QED
  BY <1>1, <1>3, <1>4

\* The children of s that go, and what is below them.
Going(m, s) == {k \in PrefixKids(m, s) : m[k].freed /\ ChildrenFreed(m, k)}
Gone(m, s) == UNION {Below(m, k) : k \in Going(m, s)}

\* n is m when the segments of gone are freed, and taken out of their slots.
Swept(m, n, gone) ==
  /\ n \in Trees
  /\ \A x \in Segs :
       /\ n[x].life = IF x \in gone THEN "freed" ELSE m[x].life
       /\ n[x].kids = [i \in Slots |-> IF m[x].kids[i] \in gone THEN NULL ELSE m[x].kids[i]]
       /\ n[x].parent = m[x].parent /\ n[x].litSz = m[x].litSz
       /\ n[x].lo = m[x].lo /\ n[x].hi = m[x].hi /\ n[x].freed = m[x].freed

LEMMA GoneIs ==
  ASSUME NEW m \in Trees, NEW s \in Segs
  PROVE  /\ Gone(m, s) \in SUBSET Segs
         /\ \A x \in Gone(m, s) : \E k \in Going(m, s) : x \in Below(m, k)
         /\ \A k \in Going(m, s) : k \in Segs /\ k \in Kids(m, s) /\ Below(m, k) \subseteq Gone(m, s)
<1>1. \A k \in Going(m, s) : k \in Segs /\ k \in Kids(m, s)
  BY PrefixIs, KidsAre DEF Going
<1>2. \A k \in Going(m, s) : Below(m, k) \in SUBSET Segs
  BY <1>1, BelowIs
<1> QED
  BY <1>1, <1>2 DEF Gone

LEMMA FreeTreeIs ==
  ASSUME NEW m \in Trees, NEW s \in Segs
  PROVE  \/ ~m[s].freed /\ FreeTree(m, s) = m
         \/ m[s].freed /\ \E w : /\ Swept(m, w, Gone(m, s))
                                 /\ FreeTree(m, s) = IF ChildrenFreed(w, s)
                                                     THEN [w EXCEPT ![s].life = "freed"] ELSE w
<1> DEFINE done == {m[s].kids[i] : i \in {j \in Prefix(m, s) : m[m[s].kids[j]].freed
                                                             /\ ChildrenFreed(m, m[s].kids[j])}}
           gone  == UNION {Below(m, k) : k \in done}
           w == [x \in Segs |->
                  [m[x] EXCEPT !.life = IF x \in gone THEN "freed" ELSE @,
                               !.kids = [i \in 1 .. Width |-> IF @[i] \in gone THEN NULL ELSE @[i]]]]
<1>1. FreeTree(m, s) = IF ~m[s].freed THEN m
                       ELSE IF ChildrenFreed(w, s) THEN [w EXCEPT ![s].life = "freed"] ELSE w
  BY DEF FreeTree
<1>2. gone = Gone(m, s)
  <2>1. done = Going(m, s)
    BY DEF Going, PrefixKids
  <2> HIDE DEF done
  <2> QED
    BY <2>1 DEF Gone
<1> HIDE DEF gone
<1>3. Swept(m, w, gone)
  <2>1. ASSUME NEW x \in Segs
        PROVE  /\ w[x] \in SegRec
               /\ w[x].life = IF x \in gone THEN "freed" ELSE m[x].life
               /\ w[x].kids = [i \in Slots |-> IF m[x].kids[i] \in gone THEN NULL ELSE m[x].kids[i]]
               /\ w[x].parent = m[x].parent /\ w[x].litSz = m[x].litSz
               /\ w[x].lo = m[x].lo /\ w[x].hi = m[x].hi /\ w[x].freed = m[x].freed
    <3> DEFINE l == IF x \in gone THEN "freed" ELSE m[x].life
               ks == [i \in 1 .. Width |-> IF m[x].kids[i] \in gone THEN NULL ELSE m[x].kids[i]]
    <3>1. w[x] = [m[x] EXCEPT !.life = l, !.kids = ks]
      BY SegFields
    <3>2. m[x] \in SegRec /\ m[x].kids \in [1 .. Width -> Segs \cup {NULL}]
      BY SegFields DEF Slots
    <3>3. l \in {"unborn", "live", "freed"} /\ ks \in [1 .. Width -> Segs \cup {NULL}]
      BY <3>2, SegFields
    <3> HIDE DEF w, l, ks
    <3>4. /\ w[x] \in SegRec /\ w[x].life = l /\ w[x].kids = ks
          /\ w[x].parent = m[x].parent /\ w[x].litSz = m[x].litSz
          /\ w[x].lo = m[x].lo /\ w[x].hi = m[x].hi /\ w[x].freed = m[x].freed
      BY <3>1, <3>2, <3>3 DEF SegRec
    <3> QED
      BY <3>4 DEF l, ks, Slots
  <2>2. w = [x \in Segs |-> w[x]]
    OBVIOUS
  <2> HIDE DEF w
  <2>3. w \in Trees
    BY <2>1, <2>2 DEF Trees
  <2> QED
    BY <2>1, <2>3 DEF Swept
<1> HIDE DEF w
<1> QED
  BY <1>1, <1>2, <1>3

\* n is m, but for which segments are in use and flagged.
SameTree(m, n) ==
  \A x \in Segs : /\ n[x].kids = m[x].kids /\ n[x].parent = m[x].parent /\ n[x].litSz = m[x].litSz
                  /\ n[x].lo = m[x].lo /\ n[x].hi = m[x].hi

LEMMA LifeFreed ==
  ASSUME NEW m \in Trees, NEW s \in Segs
  PROVE  LET n == [m EXCEPT ![s].life = "freed"] IN
         /\ n \in Trees /\ SameTree(m, n)
         /\ \A x \in Segs : n[x].life = (IF x = s THEN "freed" ELSE m[x].life) /\ n[x].freed = m[x].freed
<1> DEFINE r == [m[s] EXCEPT !.life = "freed"]
           n == [m EXCEPT ![s].life = "freed"]
<1>1. n = [m EXCEPT ![s] = r]
  BY DEF Trees
<1>2. /\ r \in SegRec /\ r.life = "freed" /\ r.kids = m[s].kids /\ r.parent = m[s].parent
      /\ r.litSz = m[s].litSz /\ r.lo = m[s].lo /\ r.hi = m[s].hi /\ r.freed = m[s].freed
  BY SegFields DEF SegRec
<1> HIDE DEF r, n
<1>3. n \in Trees /\ n[s] = r /\ \A x \in Segs : x # s => n[x] = m[x]
  BY <1>1, <1>2 DEF Trees
<1>4. /\ n \in Trees /\ SameTree(m, n)
      /\ \A x \in Segs : n[x].life = (IF x = s THEN "freed" ELSE m[x].life) /\ n[x].freed = m[x].freed
  BY <1>2, <1>3 DEF SameTree
<1> QED
  BY <1>4 DEF n

LEMMA SameKids ==
  ASSUME NEW m \in Trees, NEW n \in Trees, NEW x \in Segs, n[x].kids = m[x].kids
  PROVE  Kids(n, x) = Kids(m, x) /\ PrefixKids(n, x) = PrefixKids(m, x)
BY DEF Kids, PrefixKids, Prefix

LEMMA SweptKids ==
  ASSUME NEW m \in Trees, NEW w, NEW gone, Swept(m, w, gone), NEW x \in Segs
  PROVE  Kids(w, x) = Kids(m, x) \ gone
<1>1. /\ w \in Trees
      /\ w[x].kids = [i \in Slots |-> IF m[x].kids[i] \in gone THEN NULL ELSE m[x].kids[i]]
  BY DEF Swept
<1>2. \A k : k \in Kids(w, x) <=> k # NULL /\ \E i \in Slots : w[x].kids[i] = k
  BY <1>1, KidsAre
<1>3. \A k : k \in Kids(m, x) <=> k # NULL /\ \E i \in Slots : m[x].kids[i] = k
  BY KidsAre
<1>4. \A i \in Slots : w[x].kids[i] = IF m[x].kids[i] \in gone THEN NULL ELSE m[x].kids[i]
  BY <1>1
<1> QED
  BY <1>2, <1>3, <1>4

\* free_tree neither brings segments into use nor links them.
LEMMA FreeTreeLinks ==
  ASSUME NEW m \in Trees, LinkOK(m), NEW s \in Segs, m[s].life # "unborn"
  PROVE  LET n == FreeTree(m, s) IN
         /\ n \in Trees /\ LinkOK(n)
         /\ \A x \in Segs : n[x].life = "unborn" <=> m[x].life = "unborn"
<1> DEFINE n == FreeTree(m, s)
           Good(t) == t \in Trees /\ LinkOK(t) /\ \A x \in Segs : t[x].life = "unborn" <=> m[x].life = "unborn"
<1>1. CASE n = m
  BY <1>1
<1>2. ASSUME NEW w, Swept(m, w, Gone(m, s)), n = IF ChildrenFreed(w, s)
                                                 THEN [w EXCEPT ![s].life = "freed"] ELSE w
      PROVE  Good(n)
  <2> DEFINE gone == Gone(m, s)
             U == {x \in Segs : m[x].life # "unborn"}
  <2>1. gone \subseteq U
    <3>1. \A r \in U : PrefixKids(m, r) \subseteq U
      BY PrefixIs, KidsAre DEF LinkOK
    <3>2. \A k \in Going(m, s) : k \in U
      BY GoneIs DEF LinkOK
    <3>3. \A k \in Going(m, s) : Below(m, k) \subseteq U
      <4> HIDE DEF U
      <4>1. U \in SUBSET Segs
        BY DEF U
      <4> QED
        BY <3>1, <3>2, <4>1, BelowIs
    <3> QED
      BY <3>3, GoneIs
  <2> HIDE DEF gone
  <2>2. /\ w \in Trees
        /\ \A x \in Segs : /\ w[x].life = IF x \in gone THEN "freed" ELSE m[x].life
                           /\ w[x].parent = m[x].parent /\ w[x].litSz = m[x].litSz
    BY <1>2 DEF Swept, gone
  <2>3. \A x \in Segs : w[x].life = "unborn" <=> m[x].life = "unborn"
    BY <2>1, <2>2
  <2>4. \A x \in Segs : Kids(w, x) \subseteq Kids(m, x)
    BY <1>2, SweptKids
  <2>5. Root \in Segs
    BY MmuOK
  <2>6. LinkOK(w)
    <3>1. \A x \in Segs : \A k \in Kids(w, x) : k \in Segs
      BY <2>2, KidsAre
    <3> QED
      BY <2>2, <2>3, <2>4, <2>5, <3>1 DEF LinkOK
  <2>7. Good(w)
    BY <2>2, <2>3, <2>6
  <2> DEFINE v == [w EXCEPT ![s].life = "freed"]
  <2>8. v \in Trees /\ SameTree(w, v) /\ \A x \in Segs : v[x].life = IF x = s THEN "freed" ELSE w[x].life
    BY <2>2, LifeFreed
  <2>9. v = [w EXCEPT ![s].life = "freed"]
    OBVIOUS
  <2> HIDE DEF v
  <2>10. Good(v)
    <3>1. \A x \in Segs : Kids(v, x) = Kids(w, x)
      BY <2>2, <2>8, SameKids DEF SameTree
    <3>2. \A x \in Segs : v[x].life = "unborn" <=> m[x].life = "unborn"
      BY <2>3, <2>8
    <3>3. \A x \in Segs : v[x].parent = w[x].parent /\ v[x].litSz = w[x].litSz
      BY <2>8 DEF SameTree
    <3>4. \A x \in Segs : \A k \in Kids(w, x) : k \in Segs
      BY <2>2, KidsAre
    <3>5. LinkOK(v)
      BY <2>3, <2>5, <2>6, <3>1, <3>2, <3>3, <3>4 DEF LinkOK
    <3> QED
      BY <2>8, <3>2, <3>5
  <2> HIDE DEF Good, n
  <2> QED
    BY <1>2, <2>7, <2>9, <2>10
<1>3. n = m \/ \E w : Swept(m, w, Gone(m, s)) /\ n = IF ChildrenFreed(w, s)
                                                   THEN [w EXCEPT ![s].life = "freed"] ELSE w
  BY FreeTreeIs
<1> HIDE DEF n, Good
<1>4. Good(n)
  BY <1>1, <1>2, <1>3 DEF Good
<1> QED
  BY <1>4 DEF n, Good

\* n is m when slot i of p is emptied.
Cleared(m, n, p, i) ==
  /\ n \in Trees
  /\ \A x \in Segs :
       /\ n[x].life = m[x].life /\ n[x].parent = m[x].parent /\ n[x].litSz = m[x].litSz
       /\ n[x].lo = m[x].lo /\ n[x].hi = m[x].hi /\ n[x].freed = m[x].freed
       /\ x # p => n[x].kids = m[x].kids
       /\ \A j \in Slots : n[x].kids[j] = IF x = p /\ j = i THEN NULL ELSE m[x].kids[j]

LEMMA ClearIs ==
  ASSUME NEW m \in Trees, NEW p \in Segs, NEW i \in Slots
  PROVE  Cleared(m, [m EXCEPT ![p].kids[i] = NULL], p, i)
<1> DEFINE ks == [m[p].kids EXCEPT ![i] = NULL]
           r == [m[p] EXCEPT !.kids = ks]
           n == [m EXCEPT ![p].kids[i] = NULL]
<1>1. n = [m EXCEPT ![p] = r]
  BY DEF Trees
<1>2. m[p] \in SegRec /\ m[p].kids \in [Slots -> Segs \cup {NULL}]
  BY SegFields
<1>3. ks \in [Slots -> Segs \cup {NULL}] /\ \A j \in Slots : ks[j] = IF j = i THEN NULL ELSE m[p].kids[j]
  BY <1>2
<1> HIDE DEF ks
<1>4. /\ r \in SegRec /\ r.life = m[p].life /\ r.parent = m[p].parent /\ r.litSz = m[p].litSz
      /\ r.lo = m[p].lo /\ r.hi = m[p].hi /\ r.freed = m[p].freed /\ r.kids = ks
  BY <1>2, <1>3 DEF SegRec, Slots
<1> HIDE DEF r, n
<1>5. n \in Trees /\ n[p] = r /\ \A x \in Segs : x # p => n[x] = m[x]
  BY <1>1, <1>4 DEF Trees
<1>6. ASSUME NEW x \in Segs
      PROVE  /\ n[x].life = m[x].life /\ n[x].parent = m[x].parent /\ n[x].litSz = m[x].litSz
             /\ n[x].lo = m[x].lo /\ n[x].hi = m[x].hi /\ n[x].freed = m[x].freed
             /\ x # p => n[x].kids = m[x].kids
             /\ \A j \in Slots : n[x].kids[j] = IF x = p /\ j = i THEN NULL ELSE m[x].kids[j]
  <2>1. CASE x = p
    BY <1>3, <1>4, <1>5, <2>1
  <2>2. CASE x # p
    BY <1>5, <2>2
  <2> QED
    BY <2>1, <2>2
<1> QED
  BY <1>5, <1>6 DEF Cleared, n

\* The children a segment keeps.
LEMMA ClearKids ==
  ASSUME NEW m \in Trees, NEW n, NEW p \in Segs, NEW i \in Slots, Cleared(m, n, p, i), NEW x \in Segs
  PROVE  /\ Kids(n, x) \subseteq Kids(m, x)
         /\ x # p => Kids(n, x) = Kids(m, x)
         /\ SlotsApart(m, x) => SlotsApart(n, x)
         /\ SlotsApart(m, p) /\ m[p].kids[i] # NULL => Kids(n, p) = Kids(m, p) \ {m[p].kids[i]}
<1>1. /\ n \in Trees
      /\ \A y \in Segs, j \in Slots : n[y].kids[j] = IF y = p /\ j = i THEN NULL ELSE m[y].kids[j]
  BY DEF Cleared
<1>2. \A y \in Segs : \A k : k \in Kids(n, y) <=> k # NULL /\ \E j \in Slots : n[y].kids[j] = k
  BY <1>1, KidsAre
<1>3. \A y \in Segs : \A k : k \in Kids(m, y) <=> k # NULL /\ \E j \in Slots : m[y].kids[j] = k
  BY KidsAre
<1>4. Kids(n, x) \subseteq Kids(m, x)
  BY <1>1, <1>2, <1>3
<1>5. x # p => Kids(n, x) = Kids(m, x)
  BY <1>1, SameKids DEF Cleared
<1>6. SlotsApart(m, x) => SlotsApart(n, x)
  BY <1>1 DEF SlotsApart
<1>7. ASSUME SlotsApart(m, p), m[p].kids[i] # NULL PROVE Kids(n, p) = Kids(m, p) \ {m[p].kids[i]}
  <2>1. \A j \in Slots : m[p].kids[j] = m[p].kids[i] => j = i
    BY <1>7 DEF SlotsApart
  <2> QED
    BY <1>1, <1>2, <1>3, <1>7, <2>1
<1> QED
  BY <1>4, <1>5, <1>6, <1>7

LEMMA ClearLinks ==
  ASSUME NEW m \in Trees, LinkOK(m), NEW n, NEW p \in Segs, NEW i \in Slots, Cleared(m, n, p, i)
  PROVE  LinkOK(n)
<1>1. /\ n \in Trees
      /\ \A x \in Segs : n[x].life = m[x].life /\ n[x].parent = m[x].parent /\ n[x].litSz = m[x].litSz
  BY DEF Cleared
<1>2. \A x \in Segs : Kids(n, x) \subseteq Kids(m, x) /\ Kids(n, x) \subseteq Segs
  BY <1>1, ClearKids, KidsAre
<1> QED
  BY <1>1, <1>2, MmuOK DEF LinkOK

\* A tree whose links and bounds are those of m, but for the children it lost,
\* is a tree but for those.
LEMMA FewerKids ==
  ASSUME NEW m \in Trees, TreeBase(m), NestOK(m), NEW n \in Trees, NEW gone \in SUBSET (Segs \ {Root}),
         \A x \in gone : Kids(m, x) = {} /\ \A y \in Segs : x \notin Kids(n, y),
         \A x \in Segs : /\ n[x].life = IF x \in gone THEN "freed" ELSE m[x].life
                         /\ n[x].parent = m[x].parent /\ n[x].lo = m[x].lo /\ n[x].hi = m[x].hi
                         /\ Kids(n, x) \subseteq Kids(m, x)
                         /\ SlotsApart(n, x)
  PROVE  TreeBase(n) /\ NestOK(n)
<1>1. n[Root].life = "live"
  BY MmuOK DEF TreeBase
<1>2. ASSUME NEW x \in Segs, n[x].life # "live" PROVE Kids(n, x) = {}
  BY <1>2 DEF TreeBase
<1>3. ASSUME NEW x \in Segs, NEW k \in Kids(n, x) PROVE n[k].life = "live" /\ n[k].parent = x
  <2>1. k \in Segs /\ k \in Kids(m, x) /\ k \notin gone
    BY KidsAre
  <2> QED
    BY <2>1 DEF TreeBase
<1>4. ASSUME NEW x \in Segs \ {Root}, n[x].life = "live" PROVE n[x].parent \in Segs
  BY <1>4 DEF TreeBase
<1>5. \E rank : Ranked(n, rank)
  <2>1. PICK rank : Ranked(m, rank)
    BY DEF TreeBase
  <2>2. Ranked(n, rank)
    BY <2>1 DEF Ranked
  <2> QED
    BY <2>2
<1>6. TreeBase(n)
  BY <1>1, <1>2, <1>3, <1>4, <1>5 DEF TreeBase
<1>7. ASSUME NEW x \in Segs \ {Root}, n[x].life = "live" PROVE Nested(n, x)
  <2>1. m[x].life = "live" /\ m[x].parent \in Segs /\ Nested(m, x)
    BY <1>7 DEF NestOK, TreeBase
  <2> QED
    BY <2>1 DEF Nested
<1> QED
  BY <1>6, <1>7 DEF NestOK

\* free_tree of a segment without children frees that segment and no other, if
\* it is flagged.
LEMMA FreeLeaf ==
  ASSUME NEW m \in Trees, NEW s \in Segs, m[s].freed, Kids(m, s) = {}
  PROVE  LET n == FreeTree(m, s) IN
         /\ n \in Trees
         /\ \A x \in Segs : /\ n[x].life = IF x = s THEN "freed" ELSE m[x].life
                            /\ n[x].parent = m[x].parent /\ n[x].lo = m[x].lo /\ n[x].hi = m[x].hi
                            /\ n[x].freed = m[x].freed /\ n[x].kids = m[x].kids
<1> DEFINE n == FreeTree(m, s)
<1>1. PrefixKids(m, s) = {}
  BY PrefixIs
<1>2. Gone(m, s) = {}
  <2>1. Going(m, s) = {}
    BY <1>1 DEF Going
  <2> QED
    BY <2>1 DEF Gone
<1>3. PICK w : Swept(m, w, {}) /\ n = IF ChildrenFreed(w, s) THEN [w EXCEPT ![s].life = "freed"] ELSE w
  BY <1>2, FreeTreeIs
<1> HIDE DEF n
<1>4. /\ w \in Trees
      /\ \A x \in Segs : /\ w[x].life = m[x].life /\ w[x].parent = m[x].parent
                         /\ w[x].lo = m[x].lo /\ w[x].hi = m[x].hi /\ w[x].freed = m[x].freed
                         /\ w[x].kids = m[x].kids
  <2>1. \A x \in Segs : m[x].kids \in [Slots -> Segs \cup {NULL}]
    BY SegFields
  <2>2. w \in Trees /\ \A x \in Segs :
          /\ w[x].life = m[x].life /\ w[x].parent = m[x].parent
          /\ w[x].lo = m[x].lo /\ w[x].hi = m[x].hi /\ w[x].freed = m[x].freed
          /\ w[x].kids = [i \in Slots |-> m[x].kids[i]]
    BY <1>3 DEF Swept
  <2> QED
    BY <2>1, <2>2
<1>5. ChildrenFreed(w, s)
  <2>1. PrefixKids(w, s) = {}
    BY <1>1, <1>4, SameKids
  <2>2. Below(w, s) \subseteq {s}
    <3>1. \A R \in SUBSET Segs :
            s \in R /\ (\A r \in R : PrefixKids(w, r) \subseteq R) => Below(w, s) \subseteq R
      BY <1>4, BelowIs
    <3>2. {s} \in SUBSET Segs /\ s \in {s} /\ \A r \in {s} : PrefixKids(w, r) \subseteq {s}
      BY <2>1
    <3> QED
      BY <3>1, <3>2
  <2> QED
    BY <2>2 DEF ChildrenFreed
<1>6. /\ n \in Trees /\ SameTree(w, n)
      /\ \A x \in Segs : n[x].life = (IF x = s THEN "freed" ELSE w[x].life) /\ n[x].freed = w[x].freed
  <2> DEFINE v == [w EXCEPT ![s].life = "freed"]
  <2>1. /\ v \in Trees /\ SameTree(w, v)
        /\ \A x \in Segs : v[x].life = (IF x = s THEN "freed" ELSE w[x].life) /\ v[x].freed = w[x].freed
    BY <1>4, LifeFreed
  <2>2. n = v
    BY <1>3, <1>5
  <2> HIDE DEF v
  <2> QED
    BY <2>1, <2>2
<1>7. n \in Trees /\ \A x \in Segs :
         /\ n[x].life = IF x = s THEN "freed" ELSE m[x].life
         /\ n[x].parent = m[x].parent /\ n[x].lo = m[x].lo /\ n[x].hi = m[x].hi
         /\ n[x].freed = m[x].freed /\ n[x].kids = m[x].kids
  BY <1>4, <1>6 DEF SameTree
<1> QED
  BY <1>7 DEF n

-----------------------------------------------------------------------------
\* The end of the machine.

LEMMA ReachIs ==
  ASSUME NEW m \in Trees, NEW s \in Segs
  PROVE  /\ Reach(m, s) \in SUBSET Segs /\ s \in Reach(m, s)
         /\ \A r \in Reach(m, s) : m[r].life = "live" => Kids(m, r) \subseteq Reach(m, s)
         /\ \A R \in SUBSET Segs :
              s \in R /\ (\A r \in R : m[r].life = "live" => Kids(m, r) \subseteq R) => Reach(m, s) \subseteq R
<1> DEFINE next == [r \in Segs |-> IF m[r].life = "live" THEN Kids(m, r) ELSE {}]
<1>1. Reach(m, s) = From(next, s)
  BY DEF Reach
<1>2. next \in [Segs -> SUBSET Segs]
  <2>1. \A r \in Segs : Kids(m, r) \subseteq Segs
    BY KidsAre
  <2> QED
    BY <2>1
<1>3. \A r \in Segs : next[r] = IF m[r].life = "live" THEN Kids(m, r) ELSE {}
  OBVIOUS
<1> HIDE DEF next
<1>4. /\ From(next, s) \in SUBSET Segs
      /\ s \in From(next, s)
      /\ \A r \in From(next, s) : next[r] \subseteq From(next, s)
      /\ \A R \in SUBSET Segs :
           s \in R /\ (\A r \in R : next[r] \subseteq R) => From(next, s) \subseteq R
  BY <1>2, FromIs
<1>5. \A r \in Reach(m, s) : m[r].life = "live" => Kids(m, r) \subseteq Reach(m, s)
  BY <1>1, <1>3, <1>4
<1>6. ASSUME NEW R \in SUBSET Segs, s \in R, \A r \in R : m[r].life = "live" => Kids(m, r) \subseteq R
      PROVE  Reach(m, s) \subseteq R
  <2>1. \A r \in R : next[r] \subseteq R
    BY <1>3, <1>6
  <2> QED
    BY <1>1, <1>4, <1>6, <2>1
<1> QED
  BY <1>1, <1>4, <1>5, <1>6

\* What is reached from the root is in use.
LEMMA ReachInUse ==
  ASSUME NEW m \in Trees, TreeBase(m)
  PROVE  \A s \in Reach(m, Root) : s \in Segs /\ m[s].life = "live"
<1> DEFINE L == {s \in Segs : m[s].life = "live"}
<1>1. Root \in Segs /\ Root \in L
  BY MmuOK DEF TreeBase
<1>2. \A r \in L : Kids(m, r) \subseteq L
  BY KidsAre DEF TreeBase
<1>3. L \in SUBSET Segs
  OBVIOUS
<1> HIDE DEF L
<1>4. Reach(m, Root) \subseteq L
  BY <1>1, <1>2, <1>3, ReachIs
<1> QED
  BY <1>4 DEF L

\* In a tree, what is reached from the root is what is in use.
LEMMA ReachIsLive ==
  ASSUME NEW m \in Trees, TreeOK(m)
  PROVE  Reach(m, Root) = {s \in Segs : m[s].life = "live"}
<1> DEFINE L == {s \in Segs : m[s].life = "live"}
<1>1. Root \in Segs /\ Root \in L
  BY MmuOK DEF TreeOK
<1>2. \A r \in L : Kids(m, r) \subseteq L
  BY KidsAre DEF TreeOK
<1>3. Reach(m, Root) \subseteq L
  <2>1. L \in SUBSET Segs
    OBVIOUS
  <2> HIDE DEF L
  <2> QED
    BY <1>1, <1>2, <2>1, ReachIs
<1> DEFINE R == Reach(m, Root)
<1>4. R \in SUBSET Segs /\ Root \in R /\ \A r \in R : m[r].life = "live" => Kids(m, r) \subseteq R
  BY <1>1, ReachIs
<1>5. \A r \in R : Kids(m, r) \subseteq R
  BY <1>3, <1>4
<1> HIDE DEF R
<1>6. \A s \in Segs : m[s].life = "live" => s \in R
  BY <1>4, <1>5, LiveReached
<1> QED
  BY <1>3, <1>6 DEF R

Flagged(m, all) == [s \in Segs |-> IF s \in all THEN [m[s] EXCEPT !.freed = TRUE] ELSE m[s]]

FlagEffect(m, n, all) ==
  /\ n \in Trees
  /\ \A x \in Segs : /\ n[x].life = m[x].life /\ n[x].kids = m[x].kids
                     /\ n[x].parent = m[x].parent /\ n[x].litSz = m[x].litSz
                     /\ n[x].freed = IF x \in all THEN TRUE ELSE m[x].freed

LEMMA FlaggedFields == ASSUME NEW m \in Trees, NEW all PROVE FlagEffect(m, Flagged(m, all), all)
<1> DEFINE n == Flagged(m, all)
<1>1. ASSUME NEW x \in Segs
      PROVE  /\ n[x] \in SegRec
             /\ n[x].life = m[x].life /\ n[x].kids = m[x].kids
             /\ n[x].parent = m[x].parent /\ n[x].litSz = m[x].litSz
             /\ n[x].freed = IF x \in all THEN TRUE ELSE m[x].freed
  BY SegFields DEF Flagged, SegRec
<1>2. n = [x \in Segs |-> n[x]]
  BY DEF Flagged
<1> HIDE DEF n
<1>3. n \in Trees
  BY <1>1, <1>2 DEF Trees
<1>4. FlagEffect(m, n, all)
  BY <1>1, <1>3 DEF FlagEffect
<1> QED
  BY <1>4 DEF n

LEMMA FlaggedLinks ==
  ASSUME NEW m \in Trees, LinkOK(m), NEW all
  PROVE  Flagged(m, all) \in Trees /\ LinkOK(Flagged(m, all))
<1> DEFINE n == Flagged(m, all)
<1>1. /\ n \in Trees
      /\ \A x \in Segs : /\ n[x].life = m[x].life /\ n[x].kids = m[x].kids
                         /\ n[x].parent = m[x].parent /\ n[x].litSz = m[x].litSz
  <2>1. FlagEffect(m, n, all)
    BY FlaggedFields
  <2> HIDE DEF n
  <2> QED
    BY <2>1 DEF FlagEffect
<1> HIDE DEF n
<1>2. \A x \in Segs : Kids(n, x) = Kids(m, x) /\ Kids(m, x) \subseteq Segs
  BY <1>1, SameKids, KidsAre
<1>3. LinkOK(n)
  BY <1>1, <1>2, MmuOK DEF LinkOK
<1> QED
  BY <1>1, <1>3 DEF n

\* When no empty slot hides a child, the release of the machine's tree frees all
\* that is in use.
LEMMA EndFreesAll ==
  ASSUME NEW m \in Trees, TreeOK(m), NEW all, all = {s \in Segs : m[s].life = "live"},
         \A s \in all : Kids(m, s) \subseteq PrefixKids(m, s)
  PROVE  \A x \in Segs : FreeTree(Flagged(m, all), Root)[x].life # "live"
<1> DEFINE t == Flagged(m, all)
           n == FreeTree(t, Root)
<1>1. Root \in Segs /\ Root \in all
  BY MmuOK DEF TreeOK
<1>2. /\ t \in Trees
      /\ \A x \in Segs : /\ t[x].life = m[x].life /\ t[x].kids = m[x].kids
                         /\ x \in all => t[x].freed = TRUE
  <2>1. FlagEffect(m, t, all)
    BY FlaggedFields
  <2> HIDE DEF t
  <2> QED
    BY <2>1 DEF FlagEffect
<1> HIDE DEF t
<1>3. \A x \in Segs : Kids(t, x) = Kids(m, x) /\ PrefixKids(t, x) = PrefixKids(m, x)
  BY <1>2, SameKids
<1>4. \A x \in all : PrefixKids(t, x) \subseteq all /\ Kids(t, x) \subseteq PrefixKids(t, x)
  <2> SUFFICES ASSUME NEW x \in all PROVE PrefixKids(t, x) \subseteq all /\ Kids(t, x) \subseteq PrefixKids(t, x)
    OBVIOUS
  <2>1. Kids(m, x) \subseteq all
    BY KidsAre DEF TreeOK
  <2> QED
    BY <1>2, <1>3, <2>1, PrefixIs
<1>5. ASSUME NEW k \in PrefixKids(t, Root) PROVE k \in Going(t, Root)
  <2>1. k \in all
    BY <1>1, <1>4
  <2>2. Below(t, k) \subseteq all
    <3>1. all \in SUBSET Segs /\ k \in Segs
      BY <2>1
    <3> QED
      BY <1>2, <1>4, <2>1, <3>1, BelowIs
  <2>3. ChildrenFreed(t, k)
    BY <1>2, <2>2 DEF ChildrenFreed
  <2> QED
    BY <1>2, <2>1, <2>3 DEF Going
<1> DEFINE gone == Gone(t, Root)
<1>6. gone \in SUBSET Segs
  BY <1>1, <1>2, GoneIs
<1>7. \A s \in Segs : m[s].life = "live" => s \in gone \cup {Root}
  <2> DEFINE R == gone \cup {Root}
  <2>1. R \in SUBSET Segs /\ Root \in R
    BY <1>1, <1>6
  <2>2. ASSUME NEW r \in R PROVE Kids(m, r) \subseteq R
    <3>1. CASE r = Root
      <4>1. \A k \in Kids(m, r) : k \in Going(t, Root)
        BY <1>1, <1>3, <1>4, <1>5, <3>1
      <4>2. \A k \in Going(t, Root) : k \in Below(t, k) /\ Below(t, k) \subseteq gone
        BY <1>1, <1>2, GoneIs, BelowIs
      <4> QED
        BY <4>1, <4>2
    <3>2. CASE r # Root
      <4>1. PICK k \in Going(t, Root) : r \in Below(t, k)
        BY <1>1, <1>2, <3>2, GoneIs
      <4>2. k \in Segs /\ Below(t, k) \subseteq gone
        BY <1>1, <1>2, GoneIs
      <4>3. PrefixKids(t, r) \subseteq gone /\ r \in Segs
        BY <1>2, <4>1, <4>2, BelowIs
      <4>4. Kids(m, r) \subseteq PrefixKids(t, r)
        <5>1. CASE r \in all
          BY <1>3, <1>4, <4>3, <5>1
        <5>2. CASE r \notin all
          BY <4>3, <5>2 DEF TreeOK
        <5> QED
          BY <5>1, <5>2
      <4> QED
        BY <4>3, <4>4
    <3> QED
      BY <3>1, <3>2
  <2> HIDE DEF R
  <2>3. \A s \in Segs : m[s].life = "live" => s \in R
    BY <2>1, <2>2, LiveReached
  <2> QED
    BY <2>3 DEF R
<1>8. PICK w : Swept(t, w, gone) /\ n = IF ChildrenFreed(w, Root) THEN [w EXCEPT ![Root].life = "freed"] ELSE w
  BY <1>1, <1>2, FreeTreeIs
<1> HIDE DEF n
<1>9. w \in Trees /\ \A x \in Segs : w[x].life = IF x \in gone THEN "freed" ELSE m[x].life
  BY <1>2, <1>8 DEF Swept
<1>10. Kids(w, Root) = {}
  <2>1. Kids(w, Root) = Kids(t, Root) \ gone
    BY <1>1, <1>2, <1>8, SweptKids
  <2>2. \A k \in Kids(t, Root) : k \in Going(t, Root)
    BY <1>1, <1>4, <1>5
  <2>3. \A k \in Going(t, Root) : k \in Below(t, k) /\ Below(t, k) \subseteq gone
    BY <1>1, <1>2, GoneIs, BelowIs
  <2> QED
    BY <2>1, <2>2, <2>3
<1> HIDE DEF gone
<1>11. ChildrenFreed(w, Root)
  <2>1. PrefixKids(w, Root) = {}
    BY <1>1, <1>9, <1>10, PrefixIs
  <2>2. \A R \in SUBSET Segs :
          Root \in R /\ (\A r \in R : PrefixKids(w, r) \subseteq R) => Below(w, Root) \subseteq R
    BY <1>1, <1>9, BelowIs
  <2>3. {Root} \in SUBSET Segs /\ Root \in {Root} /\ \A r \in {Root} : PrefixKids(w, r) \subseteq {Root}
    BY <1>1, <2>1
  <2>4. Below(w, Root) \subseteq {Root}
    BY <2>2, <2>3
  <2> QED
    BY <2>4 DEF ChildrenFreed
<1>12. \A x \in Segs : n[x].life = IF x = Root THEN "freed" ELSE w[x].life
  BY <1>1, <1>8, <1>9, <1>11, LifeFreed
<1>13. \A x \in Segs : n[x].life # "live"
  BY <1>7, <1>9, <1>12
<1> QED
  BY <1>13 DEF n, t

-----------------------------------------------------------------------------
\* The inductive invariant.

LEMMA SameShape ==
  ASSUME NEW m \in Trees, NEW n \in Trees, SameTree(m, n), \A x \in Segs : n[x].life = m[x].life
  PROVE  /\ LinkOK(m) => LinkOK(n)
         /\ TreeOK(m) => TreeOK(n)
         /\ NestOK(m) /\ TreeOK(m) => NestOK(n)
<1>1. \A x \in Segs : /\ n[x].kids = m[x].kids /\ n[x].parent = m[x].parent /\ n[x].litSz = m[x].litSz
                      /\ n[x].lo = m[x].lo /\ n[x].hi = m[x].hi
  BY DEF SameTree
<1>2. \A x \in Segs : Kids(n, x) = Kids(m, x) /\ Kids(m, x) \subseteq Segs
  BY <1>1, SameKids, KidsAre
<1>3. Root \in Segs
  BY MmuOK
<1>4. LinkOK(m) => LinkOK(n)
  BY <1>1, <1>2, <1>3 DEF LinkOK
<1>5. ASSUME TreeOK(m) PROVE TreeOK(n)
  <2>1. n[Root].life = "live"
    BY <1>3, <1>5 DEF TreeOK
  <2>2. \A s \in Segs : n[s].life # "live" => Kids(n, s) = {}
    BY <1>2, <1>5 DEF TreeOK
  <2>3. \A s \in Segs : \A k \in Kids(n, s) : n[k].life = "live" /\ n[k].parent = s
    BY <1>1, <1>2, <1>5 DEF TreeOK
  <2>4. \A s \in Segs \ {Root} : n[s].life = "live" => n[s].parent \in Segs /\ s \in Kids(n, n[s].parent)
    BY <1>1, <1>2, <1>5 DEF TreeOK
  <2>5. \A s \in Segs : SlotsApart(n, s)
    BY <1>1, <1>5 DEF TreeOK, SlotsApart
  <2>6. \E rank : Ranked(n, rank)
    <3>1. PICK rank : Ranked(m, rank)
      BY <1>5 DEF TreeOK
    <3>2. Ranked(n, rank)
      BY <1>2, <3>1 DEF Ranked
    <3> QED
      BY <3>2
  <2> QED
    BY <2>1, <2>2, <2>3, <2>4, <2>5, <2>6 DEF TreeOK
<1>6. ASSUME TreeOK(m), NestOK(m) PROVE NestOK(n)
  <2> SUFFICES ASSUME NEW s \in Segs \ {Root}, n[s].life = "live" PROVE Nested(n, s)
    BY DEF NestOK
  <2>1. m[s].life = "live" /\ m[s].parent \in Segs /\ Nested(m, s)
    BY <1>6 DEF TreeOK, NestOK
  <2> QED
    BY <1>1, <2>1 DEF Nested
<1> QED
  BY <1>4, <1>5, <1>6

\* What a thread has: Held(t), of the record of its operation.
HeldBy(m, o) ==
  {o.path[i].at : i \in DOMAIN o.path}
  \cup (IF o.seg = NULL THEN {} ELSE {o.seg})
  \cup (IF o.pc \in {"scan", "clear"} THEN {m[o.seg].parent} ELSE {})

\* An operation is on segments that were allocated, and never frees the root.
OpGood(m, o) ==
  /\ o.pc \in {"load", "store", "free", "scan", "clear", "tree"} =>
       o.seg \in Segs \ {Root} /\ m[o.seg].life # "unborn"
  /\ \A i \in DOMAIN o.path : m[o.path[i].at].life # "unborn"
  /\ o.pc = "search" => o.path # <<>>
  /\ o.pc = "clear" => o.slot \in Slots
  /\ o.seg # NULL => o.pc \in {"load", "store", "free", "scan", "clear", "tree"}

OpsOK ==
  \A t \in Threads : OpGood(seg, op[t]) /\ (phase = "load" => op[t] = Idle)

\* One thread at a time allocates, and malloc has an object for it.
LockOK ==
  /\ \A t, u \in Threads : op[t].pc = "alloc" /\ op[u].pc = "alloc" => t = u
  /\ \A t \in Threads : op[t].pc = "alloc" => \E s \in Segs : Unborn(s)

\* The arrays it read hold segments that were allocated.
SeenOK == \A s \in Segs, i \in Slots : seen[s][i] # NULL => seg[seen[s][i]].life # "unborn"

\* As long as no FREE was untidy, an operation is on segments in use; a FREE has
\* flagged its own, and clears the slot that has it.
OpTidy(m, o) ==
  /\ \A s \in HeldBy(m, o) : m[s].life = "live"
  /\ o.pc \in {"scan", "clear", "tree"} => m[o.seg].freed
  /\ o.pc = "clear" => m[m[o.seg].parent].kids[o.slot] = o.seg

\* The thread t is about to free s, and no other thread has it.
LooseBy(t, s) ==
  /\ op[t].seg = s /\ op[t].pc \in {"scan", "tree"}
  /\ \A u \in Threads \ {t} : s \notin HeldBy(seg, op[u])

DetachedOK == \A s \in Detached(seg) : Kids(seg, s) = {} /\ \E t \in Threads : LooseBy(t, s)

\* No FREE runs beside an ALLOC: what it read is what there is.
AllocAlone ==
  \A t \in Threads : op[t].pc = "alloc" =>
    (\A u \in Threads : ~Freeing(u)) /\ \A s \in Segs : seen[s] = seg[s].kids

\* As long as no FREE was untidy: the tree, the nested bounds, and the segments
\* threads use still in use; at the end nothing is.
TidyOK ==
  ~untidy /\ ub = "none" =>
    IF phase = "freed" THEN \A s \in Segs : seg[s].life # "live"
    ELSE /\ TreeBase(seg) /\ NestOK(seg) /\ DetachedOK /\ AllocAlone
         /\ \A t \in Threads : OpTidy(seg, op[t])

IInv == TypeOK /\ LinkOK(seg) /\ OpsOK /\ LockOK /\ SeenOK /\ TidyOK /\ NoUseAfterFree

LEMMA SegTrees == TypeOK => seg \in Trees /\ op \in [Threads -> OpRec]
  BY DEF TypeOK, Trees

LEMMA OpFields ==
  ASSUME NEW o \in OpRec
  PROVE  /\ o.pc \in {"idle", "search", "alloc", "load", "store", "free", "scan", "clear", "tree"}
         /\ o.todo \in {"load", "store", "free"} /\ o.path \in Paths
         /\ o.seg \in Segs \cup {NULL} /\ o.addr \in Addrs /\ o.size \in Addrs
         /\ o.val \in Vals \cup {NULL} /\ o.slot \in 1 .. Width + 1
BY DEF OpRec

LEMMA PathIs ==
  ASSUME NEW p \in Paths
  PROVE  /\ Len(p) \in Nat /\ DOMAIN p = 1 .. Len(p)
         /\ \A i \in DOMAIN p : p[i].at \in Segs /\ p[i].slot \in 0 .. Width
<1> DEFINE Rec == [at : Segs, slot : 0 .. Width]
<1>1. p \in Seq(Rec)
  BY DEF Paths
<1>2. \A r \in Rec : r.at \in Segs /\ r.slot \in 0 .. Width
  OBVIOUS
<1> HIDE DEF Rec
<1>3. \A i \in DOMAIN p : p[i] \in Rec
  BY <1>1
<1> QED
  BY <1>1, <1>2, <1>3

LEMMA HeldIs == ASSUME NEW t PROVE Held(t) = HeldBy(seg, op[t])
  BY DEF Held, HeldBy

LEMMA IdleIs ==
  /\ Idle \in OpRec /\ Idle.pc = "idle" /\ Idle.path = <<>> /\ Idle.seg = NULL
  /\ Idle = [pc |-> "idle", todo |-> "load", path |-> <<>>,
             seg |-> NULL, addr |-> 0, size |-> 0, val |-> NULL, slot |-> 1]
<1>1. 0 \in Addrs /\ 1 \in 1 .. Width + 1
  BY MmuOK DEF Addrs
<1>2. <<>> \in Paths
  BY DEF Paths
<1> QED
  BY <1>1, <1>2 DEF Idle, OpRec

LEMMA IdleHolds ==
  ASSUME NEW m
  PROVE  OpGood(m, Idle) /\ HeldBy(m, Idle) = {} /\ OpTidy(m, Idle)
<1>1. HeldBy(m, Idle) = {}
  BY IdleIs DEF HeldBy
<1> QED
  BY <1>1, IdleIs DEF OpGood, OpTidy

\* The segments a thread has are segments.
LEMMA HeldAreSegs ==
  ASSUME NEW m, LinkOK(m), NEW o \in OpRec, OpGood(m, o)
  PROVE  HeldBy(m, o) \subseteq Segs
<1>1. \A i \in DOMAIN o.path : o.path[i].at \in Segs
  BY OpFields, PathIs
<1>2. o.seg # NULL => o.seg \in Segs
  BY OpFields
<1>3. o.pc \in {"scan", "clear"} => m[o.seg].parent \in Segs
  BY DEF OpGood, LinkOK
<1> QED
  BY <1>1, <1>2, <1>3 DEF HeldBy

\* What a thread has depends on the links upwards, and what was allocated stays.
LEMMA OpKept ==
  ASSUME NEW m, NEW n, NEW o \in OpRec, OpGood(m, o),
         \A x \in Segs : n[x].parent = m[x].parent /\ (n[x].life = "unborn" => m[x].life = "unborn")
  PROVE  OpGood(n, o) /\ HeldBy(n, o) = HeldBy(m, o)
<1>1. \A i \in DOMAIN o.path : o.path[i].at \in Segs
  BY OpFields, PathIs
<1>2. OpGood(n, o)
  BY <1>1 DEF OpGood
<1>3. o.pc \in {"scan", "clear"} => n[o.seg].parent = m[o.seg].parent
  BY DEF OpGood
<1> QED
  BY <1>2, <1>3 DEF HeldBy

LEMMA SeenIs ==
  ASSUME TypeOK, NEW s \in Segs, NEW i \in Slots
  PROVE  seen[s][i] \in Segs \cup {NULL}
<1>1. seen \in [Segs -> [Slots -> Segs \cup {NULL}]]
  BY DEF TypeOK, Slots
<1>2. seen[s] \in [Slots -> Segs \cup {NULL}]
  BY <1>1
<1> QED
  BY <1>2

LEMMA InitIInv == Init => IInv
<1> SUFFICES ASSUME Init PROVE IInv
  OBVIOUS
<1> DEFINE blankRoot == [Blank EXCEPT !.life = "live", !.hi = Space - 1, !.sz = Space - 1]
<1>0. Root \in Segs /\ NULL \notin Segs /\ 0 \in Addrs /\ Space - 1 \in Addrs
  BY MmuOK DEF Addrs
<1>1. seg = [s \in Segs |-> IF s = Root THEN blankRoot ELSE Blank]
  BY DEF Init
<1>2. /\ Blank \in SegRec /\ blankRoot \in SegRec
      /\ Blank.life = "unborn" /\ blankRoot.life = "live" /\ blankRoot.parent = NULL /\ blankRoot.litSz = 0
      /\ \A i \in Slots : Blank.kids[i] = NULL /\ blankRoot.kids[i] = NULL
  BY <1>0 DEF SegRec, Blank, Empty, Slots
<1> HIDE DEF blankRoot
<1>3. seg \in Trees /\ seg[Root] = blankRoot /\ \A s \in Segs \ {Root} : seg[s] = Blank
  BY <1>0, <1>1, <1>2 DEF Trees
<1>4. \A s \in Segs : Kids(seg, s) = {}
  <2>1. \A s \in Segs, i \in Slots : seg[s].kids[i] = NULL
    BY <1>2, <1>3
  <2> QED
    BY <1>3, <2>1, KidsAre
<1>5. op \in [Threads -> OpRec] /\ (\A t \in Threads : op[t] = Idle)
      /\ seen \in [Segs -> [1 .. Width -> Segs \cup {NULL}]]
      /\ \A s \in Segs, i \in Slots : seen[s][i] = NULL
  BY <1>0, IdleIs DEF Init, Unseen, Empty, Slots
<1>6. TypeOK
  <2>1. prog \in Programs /\ placed \in 0 .. Len(prog)
    BY MmuOK DEF Init
  <2>2. data \in [Segs -> [Addrs -> Vals \cup {NULL}]] /\ last \in [Addrs -> Vals \cup {NULL}]
    BY DEF Init
  <2> QED
    BY <1>3, <1>5, <2>1, <2>2 DEF Init, TypeOK, Trees
<1>7. LinkOK(seg)
  BY <1>2, <1>3, <1>4 DEF LinkOK
<1>8. OpsOK /\ LockOK /\ SeenOK
  BY <1>5, IdleHolds, IdleIs DEF OpsOK, LockOK, SeenOK
<1>9. TreeBase(seg) /\ Detached(seg) = {}
  <2>1. \A s \in Segs \ {Root} : seg[s].life # "live"
    BY <1>2, <1>3
  <2>2. \A s \in Segs : SlotsApart(seg, s)
    <3>1. \A s \in Segs, i \in Slots : seg[s].kids[i] = NULL
      BY <1>2, <1>3
    <3> QED
      BY <3>1 DEF SlotsApart
  <2>3. Ranked(seg, [s \in Segs |-> 0])
    BY <1>4 DEF Ranked
  <2>4. \E rank : Ranked(seg, rank)
    BY <2>3
  <2> QED
    BY <1>2, <1>3, <1>4, <2>1, <2>2, <2>4 DEF TreeBase, Detached
<1>10. NestOK(seg)
  BY <1>2, <1>3 DEF NestOK
<1>11. DetachedOK /\ AllocAlone /\ \A t \in Threads : OpTidy(seg, op[t])
  BY <1>5, <1>9, IdleHolds, IdleIs DEF DetachedOK, AllocAlone
<1> QED
  BY <1>6, <1>7, <1>8, <1>9, <1>10, <1>11 DEF IInv, TidyOK, NoUseAfterFree, Init

-----------------------------------------------------------------------------
\* Each action keeps it.

\* The steps that write to the record of one operation only.
LEMMA OpStep ==
  ASSUME IInv, NEW t \in Threads, NEW o \in OpRec, op' = [op EXCEPT ![t] = o],
         UNCHANGED <<prog, seg, phase, placed, seen, ub, untidy>>, phase = "run", ub = "none",
         data' \in [Segs -> [Addrs -> Vals \cup {NULL}]], last' \in [Addrs -> Vals \cup {NULL}],
         wrong' \in BOOLEAN,
         o.pc # "alloc", OpGood(seg, o),
         o.pc \in {"scan", "clear", "tree"} => Freeing(t),
         ~untidy =>
           /\ OpTidy(seg, o)
           /\ \A s \in HeldBy(seg, o) : s \in HeldBy(seg, op[t]) \/ s \notin Detached(seg)
           /\ \A s \in Detached(seg) : LooseBy(t, s) => o.seg = s /\ o.pc \in {"scan", "tree"}
  PROVE  IInv'
<1>1. /\ op \in [Threads -> OpRec] /\ op' \in [Threads -> OpRec]
      /\ op'[t] = o /\ \A u \in Threads : u # t => op'[u] = op[u]
  BY SegTrees DEF IInv
<1>2. TypeOK'
  BY <1>1 DEF IInv, TypeOK
<1>3. LinkOK(seg)' /\ SeenOK' /\ NoUseAfterFree'
  BY DEF IInv, SeenOK, NoUseAfterFree
<1>4. OpsOK' /\ LockOK'
  BY <1>1 DEF IInv, OpsOK, LockOK, Unborn
<1>5. TidyOK'
  <2> SUFFICES ASSUME ~untidy
               PROVE  /\ TreeBase(seg) /\ NestOK(seg) /\ DetachedOK' /\ AllocAlone'
                      /\ \A u \in Threads : OpTidy(seg, op'[u])
    BY DEF TidyOK
  <2>1. TreeBase(seg) /\ NestOK(seg) /\ DetachedOK /\ AllocAlone /\ \A u \in Threads : OpTidy(seg, op[u])
    BY DEF IInv, TidyOK
  <2>2. DetachedOK'
    <3> SUFFICES ASSUME NEW s \in Detached(seg)
                 PROVE  Kids(seg, s) = {} /\ \E u \in Threads : LooseBy(u, s)'
      BY DEF DetachedOK
    <3>1. PICK u \in Threads : LooseBy(u, s)
      BY <2>1 DEF DetachedOK
    <3>2. op'[u].seg = s /\ op'[u].pc \in {"scan", "tree"}
      BY <1>1, <3>1 DEF LooseBy
    <3>3. ASSUME NEW w \in Threads \ {u} PROVE s \notin HeldBy(seg, op'[w])
      <4>1. s \notin HeldBy(seg, op[w])
        BY <3>1 DEF LooseBy
      <4> QED
        BY <1>1, <4>1
    <3>4. LooseBy(u, s)'
      BY <3>2, <3>3 DEF LooseBy
    <3> QED
      BY <2>1, <3>4 DEF DetachedOK
  <2>3. AllocAlone'
    <3> SUFFICES ASSUME NEW w \in Threads, op'[w].pc = "alloc"
                 PROVE  (\A u \in Threads : ~Freeing(u)') /\ \A s \in Segs : seen[s] = seg[s].kids
      BY DEF AllocAlone
    <3>1. op[w].pc = "alloc"
      BY <1>1
    <3>2. (\A u \in Threads : ~Freeing(u)) /\ \A s \in Segs : seen[s] = seg[s].kids
      BY <2>1, <3>1 DEF AllocAlone
    <3>3. ASSUME NEW u \in Threads PROVE ~Freeing(u)'
      BY <1>1, <3>2 DEF Freeing
    <3> QED
      BY <3>2, <3>3
  <2>4. \A u \in Threads : OpTidy(seg, op'[u])
    BY <1>1, <2>1
  <2> QED
    BY <2>1, <2>2, <2>3, <2>4
<1> QED
  BY <1>2, <1>3, <1>4, <1>5 DEF IInv

\* An operation ends; what it had stays with those who have it.
LEMMA RestStep ==
  ASSUME IInv, NEW t \in Threads, op' = [op EXCEPT ![t] = Idle],
         UNCHANGED <<prog, seg, phase, placed, seen, ub, untidy>>, phase = "run", ub = "none",
         data' \in [Segs -> [Addrs -> Vals \cup {NULL}]], last' \in [Addrs -> Vals \cup {NULL}],
         wrong' \in BOOLEAN, op[t].pc \notin {"scan", "tree"}
  PROVE  IInv'
<1>1. Idle \in OpRec /\ Idle.pc = "idle"
  BY IdleIs
<1>2. OpGood(seg, Idle) /\ HeldBy(seg, Idle) = {} /\ OpTidy(seg, Idle)
  BY IdleHolds
<1>3. \A s : ~LooseBy(t, s)
  BY DEF LooseBy
<1> QED
  BY <1>1, <1>2, <1>3, OpStep

LEMMA Unwritten ==
  TypeOK => /\ data \in [Segs -> [Addrs -> Vals \cup {NULL}]] /\ last \in [Addrs -> Vals \cup {NULL}]
            /\ wrong \in BOOLEAN /\ untidy \in BOOLEAN
  BY DEF TypeOK

LEMMA StepLoad == ASSUME IInv, NEW t \in Threads, Load(t) PROVE IInv'
<1>1. /\ UNCHANGED <<prog, seg, data, phase, placed, seen, ub, last, untidy>>
      /\ phase = "run" /\ ub = "none" /\ op[t].pc = "load" /\ op' = [op EXCEPT ![t] = Idle]
      /\ wrong' \in BOOLEAN
  <2>1. wrong \in BOOLEAN
    BY Unwritten DEF IInv
  <2> QED
    BY <2>1 DEF Load, Ready, Rest
<1>2. data' \in [Segs -> [Addrs -> Vals \cup {NULL}]] /\ last' \in [Addrs -> Vals \cup {NULL}]
  BY <1>1, Unwritten DEF IInv
<1> QED
  BY <1>1, <1>2, RestStep

LEMMA StepStore == ASSUME IInv, NEW t \in Threads, Store(t) PROVE IInv'
<1> DEFINE o == op[t]
<1>1. /\ UNCHANGED <<prog, seg, phase, placed, seen, ub, wrong, untidy>>
      /\ phase = "run" /\ ub = "none" /\ op[t].pc = "store" /\ op' = [op EXCEPT ![t] = Idle]
  BY DEF Store, Ready, Rest
<1>2. o.val \in Vals \cup {NULL} /\ o.seg \in Segs
  <2>1. o \in OpRec
    BY SegTrees DEF IInv
  <2>2. OpGood(seg, o)
    BY DEF IInv, OpsOK
  <2> QED
    BY <1>1, <2>1, <2>2, OpFields DEF OpGood
<1>3. data' \in [Segs -> [Addrs -> Vals \cup {NULL}]] /\ last' \in [Addrs -> Vals \cup {NULL}]
  <2>1. data \in [Segs -> [Addrs -> Vals \cup {NULL}]] /\ last \in [Addrs -> Vals \cup {NULL}]
    BY Unwritten DEF IInv
  <2>2. /\ data' = [data EXCEPT ![o.seg] = [i \in Addrs |-> IF i \in Offsets(seg, o) THEN o.val ELSE @[i]]]
        /\ last' = [a \in Addrs |-> IF a \in Touched(o) /\ Locate(seg, Root, a) = o.seg THEN o.val ELSE last[a]]
    BY DEF Store
  <2> HIDE DEF o
  <2> QED
    BY <1>2, <2>1, <2>2
<1>4. wrong' \in BOOLEAN
  BY <1>1, Unwritten DEF IInv
<1> QED
  BY <1>1, <1>3, <1>4, RestStep

LEMMA StepSearch ==
  ASSUME IInv, NEW t \in Threads, NEW todo \in {"load", "store", "free"}, NEW a \in Addrs,
         NEW n \in Addrs, NEW v \in Vals \cup {NULL}, Search(t, todo, a, n, v)
  PROVE  IInv'
<1> DEFINE p == <<[at |-> Root, slot |-> 0]>>
           o == [Idle EXCEPT !.pc = "search", !.todo = todo, !.addr = a, !.size = n, !.val = v, !.path = p]
<1>1. /\ UNCHANGED <<prog, seg, data, phase, placed, seen, ub, last, wrong, untidy>>
      /\ phase = "run" /\ ub = "none" /\ op[t].pc = "idle" /\ op' = [op EXCEPT ![t] = o]
  BY DEF Search, Ready
<1>2. p \in Paths /\ DOMAIN p = {1} /\ p # <<>> /\ p[1].at = Root
  <2>1. [at |-> Root, slot |-> 0] \in [at : Segs, slot : 0 .. Width]
    BY MmuOK
  <2> QED
    BY <2>1 DEF Paths
<1> HIDE DEF p
<1>3. /\ o \in OpRec /\ o.pc = "search" /\ o.path = p /\ o.seg = NULL
  <2> DEFINE o1 == [Idle EXCEPT !.pc = "search"]
             o2 == [o1 EXCEPT !.todo = todo]
             o3 == [o2 EXCEPT !.addr = a]
             o4 == [o3 EXCEPT !.size = n]
             o5 == [o4 EXCEPT !.val = v]
  <2>1. o = [o5 EXCEPT !.path = p]
    OBVIOUS
  <2>2. o1 \in OpRec /\ o1.pc = "search" /\ o1.seg = NULL
    BY IdleIs DEF OpRec
  <2> HIDE DEF o1
  <2>3. o2 \in OpRec /\ o2.pc = "search" /\ o2.seg = NULL
    BY <2>2 DEF OpRec
  <2> HIDE DEF o2
  <2>4. o3 \in OpRec /\ o3.pc = "search" /\ o3.seg = NULL
    BY <2>3 DEF OpRec
  <2> HIDE DEF o3
  <2>5. o4 \in OpRec /\ o4.pc = "search" /\ o4.seg = NULL
    BY <2>4 DEF OpRec
  <2> HIDE DEF o4
  <2>6. o5 \in OpRec /\ o5.pc = "search" /\ o5.seg = NULL
    BY <2>5 DEF OpRec
  <2> HIDE DEF o5, o
  <2> QED
    BY <1>2, <2>1, <2>6 DEF OpRec
<1> HIDE DEF o
<1>4. LinkOK(seg)
  BY DEF IInv
<1>5. HeldBy(seg, o) = {Root}
  BY <1>2, <1>3 DEF HeldBy
<1>6. OpGood(seg, o)
  BY <1>2, <1>3, <1>4 DEF OpGood, LinkOK
<1>7. ~untidy => OpTidy(seg, o)
  <2>1. ~untidy => TreeBase(seg)
    BY <1>1 DEF IInv, TidyOK
  <2> QED
    BY <1>3, <1>5, <2>1 DEF OpTidy, TreeBase
<1>8. Root \notin Detached(seg) /\ \A s : ~LooseBy(t, s)
  BY <1>1 DEF Detached, LooseBy
<1>9. data' \in [Segs -> [Addrs -> Vals \cup {NULL}]] /\ last' \in [Addrs -> Vals \cup {NULL}]
      /\ wrong' \in BOOLEAN
  BY <1>1, Unwritten DEF IInv
<1> QED
  BY <1>1, <1>3, <1>5, <1>6, <1>7, <1>8, <1>9, OpStep

\* Where a search is.
LEMMA HereIs ==
  ASSUME IInv, NEW t \in Threads, op[t].pc = "search"
  PROVE  /\ op[t] \in OpRec /\ OpGood(seg, op[t]) /\ op[t].seg = NULL
         /\ op[t].path \in Paths /\ Len(op[t].path) \in Nat \ {0} /\ Len(op[t].path) \in DOMAIN op[t].path
         /\ Here(t) = op[t].path[Len(op[t].path)]
         /\ Here(t).at \in Segs /\ Here(t).slot \in 0 .. Width
         /\ Here(t).at \in HeldBy(seg, op[t]) /\ seg[Here(t).at].life # "unborn"
<1>1. op[t] \in OpRec /\ OpGood(seg, op[t])
  BY SegTrees DEF IInv, OpsOK
<1>2. op[t].path \in Paths /\ op[t].path # <<>> /\ op[t].seg = NULL
  BY <1>1, OpFields DEF OpGood
<1> DEFINE p == op[t].path
<1>3. Len(p) \in Nat /\ DOMAIN p = 1 .. Len(p) /\ \A i \in DOMAIN p : p[i].at \in Segs /\ p[i].slot \in 0 .. Width
  BY <1>2, PathIs
<1>4. Len(p) # 0
  <2>1. p \in Seq([at : Segs, slot : 0 .. Width])
    BY <1>2 DEF Paths
  <2>2. p # <<>>
    BY <1>2
  <2> HIDE DEF p
  <2> QED
    BY <2>1, <2>2
<1>5. Len(p) \in DOMAIN p
  BY <1>3, <1>4
<1> QED
  BY <1>1, <1>2, <1>3, <1>4, <1>5 DEF Here, HeldBy, OpGood

LEMMA StepFind == ASSUME IInv, NEW t \in Threads, Find(t) PROVE IInv'
<1> DEFINE o == op[t]
           s == Here(t).at
           x == [Idle EXCEPT !.pc = o.todo, !.seg = s, !.addr = o.addr, !.size = o.size, !.val = o.val]
           y == IF \/ o.todo = "free"
                   \/ ContainsLiteral(seg[s], o.addr, o.size) /\ ~(o.todo = "store" /\ seg[s].locked)
                THEN x ELSE Idle
<1>1. /\ UNCHANGED <<prog, seg, data, phase, placed, seen, ub, last, wrong, untidy>>
      /\ phase = "run" /\ ub = "none" /\ op[t].pc = "search" /\ Hits(t) /\ op' = [op EXCEPT ![t] = y]
  BY DEF Find, Ready
<1>2. /\ o \in OpRec /\ s \in Segs /\ s \in HeldBy(seg, o) /\ seg[s].life # "unborn"
  BY <1>1, HereIs
<1>3. s # Root /\ s # NULL
  <2>1. seg[s].litSz # 0
    BY <1>1 DEF Hits, ContainsLiteral
  <2> QED
    BY <1>2, <2>1, MmuOK DEF IInv, LinkOK
<1>4. data' \in [Segs -> [Addrs -> Vals \cup {NULL}]] /\ last' \in [Addrs -> Vals \cup {NULL}]
      /\ wrong' \in BOOLEAN
  BY <1>1, Unwritten DEF IInv
<1>5. CASE y = Idle
  BY <1>1, <1>4, <1>5, RestStep
<1>6. CASE y = x
  <2>1. /\ x \in OpRec /\ x.pc \in {"load", "store", "free"} /\ x.path = <<>> /\ x.seg = s
    <3> DEFINE x1 == [Idle EXCEPT !.pc = o.todo]
               x2 == [x1 EXCEPT !.seg = s]
               x3 == [x2 EXCEPT !.addr = o.addr]
               x4 == [x3 EXCEPT !.size = o.size]
    <3>1. /\ o.todo \in {"load", "store", "free"} /\ o.addr \in Addrs /\ o.size \in Addrs
          /\ o.val \in Vals \cup {NULL}
      BY <1>2, OpFields
    <3>2. x = [x4 EXCEPT !.val = o.val]
      OBVIOUS
    <3> HIDE DEF x, s, o
    <3>3. x1 \in OpRec /\ x1.pc \in {"load", "store", "free"} /\ x1.path = <<>>
      BY <3>1, IdleIs DEF OpRec
    <3> HIDE DEF x1
    <3>4. x2 \in OpRec /\ x2.pc \in {"load", "store", "free"} /\ x2.path = <<>> /\ x2.seg = s
      BY <1>2, <3>3 DEF OpRec
    <3> HIDE DEF x2
    <3>5. x3 \in OpRec /\ x3.pc \in {"load", "store", "free"} /\ x3.path = <<>> /\ x3.seg = s
      BY <3>1, <3>4 DEF OpRec
    <3> HIDE DEF x3
    <3>6. x4 \in OpRec /\ x4.pc \in {"load", "store", "free"} /\ x4.path = <<>> /\ x4.seg = s
      BY <3>1, <3>5 DEF OpRec
    <3> HIDE DEF x4
    <3> QED
      BY <3>1, <3>2, <3>6 DEF OpRec
  <2> HIDE DEF x
  <2>2. HeldBy(seg, x) = {s}
    BY <1>3, <2>1 DEF HeldBy
  <2>3. OpGood(seg, x)
    BY <1>2, <1>3, <2>1 DEF OpGood
  <2>4. ~untidy => OpTidy(seg, x)
    <3>1. ~untidy => OpTidy(seg, o)
      BY <1>1 DEF IInv, TidyOK
    <3> QED
      BY <1>2, <2>1, <2>2, <3>1 DEF OpTidy
  <2>5. \A r : ~LooseBy(t, r)
    BY <1>1 DEF LooseBy
  <2>6. op' = [op EXCEPT ![t] = x]
    BY <1>1, <1>6
  <2> QED
    BY <1>1, <1>2, <1>4, <2>1, <2>2, <2>3, <2>4, <2>5, <2>6, OpStep
<1> QED
  BY <1>5, <1>6

\* A search moves: its path has segments it had, and a child of one.
LEMMA PathStep ==
  ASSUME IInv, NEW t \in Threads, op[t].pc = "search", phase = "run", ub = "none",
         UNCHANGED <<prog, seg, data, phase, placed, seen, ub, last, wrong, untidy>>,
         NEW p \in Paths, p # <<>>, op' = [op EXCEPT ![t] = [op[t] EXCEPT !.path = p]],
         \A i \in DOMAIN p : p[i].at \in HeldBy(seg, op[t]) \cup Kids(seg, Here(t).at)
  PROVE  IInv'
<1> DEFINE o == op[t]
           x == [o EXCEPT !.path = p]
           K == Kids(seg, Here(t).at)
<1>1. /\ o \in OpRec /\ OpGood(seg, o) /\ o.seg = NULL /\ Here(t).at \in Segs /\ Here(t).at \in HeldBy(seg, o)
  BY HereIs
<1>2. x \in OpRec /\ x.path = p /\ x.pc = "search" /\ x.seg = NULL
  <2>1. o \in OpRec /\ o.pc = "search" /\ o.seg = NULL
    BY <1>1
  <2> HIDE DEF o
  <2> QED
    BY <2>1 DEF OpRec
<1> HIDE DEF x
<1>3. HeldBy(seg, x) \subseteq HeldBy(seg, o) \cup K
  BY <1>2 DEF HeldBy
<1>4. \A r \in HeldBy(seg, o) \cup K : seg[r].life # "unborn"
  <2>1. \A r \in HeldBy(seg, o) : seg[r].life # "unborn"
    BY <1>1 DEF HeldBy, OpGood
  <2>2. \A r \in K : seg[r].life # "unborn"
    BY <1>1 DEF IInv, LinkOK
  <2> QED
    BY <2>1, <2>2
<1>5. OpGood(seg, x)
  BY <1>2, <1>4 DEF OpGood
<1>6. ASSUME ~untidy
      PROVE  /\ OpTidy(seg, x)
             /\ \A s \in HeldBy(seg, x) : s \in HeldBy(seg, o) \/ s \notin Detached(seg)
  <2>1. OpTidy(seg, o) /\ TreeBase(seg)
    BY <1>6 DEF IInv, TidyOK
  <2>2. \A k \in K : seg[k].life = "live" /\ k \notin Detached(seg)
    BY <1>1, <2>1 DEF TreeBase, Detached
  <2> QED
    BY <1>2, <1>3, <2>1, <2>2 DEF OpTidy
<1>7. \A r : ~LooseBy(t, r)
  BY DEF LooseBy
<1>8. op' = [op EXCEPT ![t] = x]
  BY DEF x
<1>9. data' \in [Segs -> [Addrs -> Vals \cup {NULL}]] /\ last' \in [Addrs -> Vals \cup {NULL}]
      /\ wrong' \in BOOLEAN
  BY Unwritten DEF IInv
<1> QED
  BY <1>2, <1>5, <1>6, <1>7, <1>8, <1>9, OpStep

LEMMA StepLook == ASSUME IInv, NEW t \in Threads, Look(t) PROVE IInv'
<1> DEFINE o == op[t]
           n == Len(o.path)
           i == Here(t).slot + 1
           k == seg[Here(t).at].kids[i]
           here == [o.path EXCEPT ![n].slot = i]
           p == IF k = NULL THEN here ELSE Append(here, [at |-> k, slot |-> 0])
           Rec == [at : Segs, slot : 0 .. Width]
<1>1. /\ UNCHANGED <<prog, seg, data, phase, placed, seen, ub, last, wrong, untidy>>
      /\ phase = "run" /\ ub = "none" /\ op[t].pc = "search" /\ ~Leaves(t)
      /\ op' = [op EXCEPT ![t] = [op[t] EXCEPT !.path = p]]
  <2>1. op \in [Threads -> OpRec]
    BY SegTrees DEF IInv
  <2> QED
    BY <2>1 DEF Look, Ready
<1>2. /\ o.path \in Paths /\ n \in Nat \ {0} /\ n \in DOMAIN o.path /\ Here(t) = o.path[n]
      /\ Here(t).at \in Segs /\ Here(t).slot \in 0 .. Width
  BY <1>1, HereIs
<1>3. i \in Slots /\ i \in 0 .. Width
  <2>1. Here(t).slot # Width
    BY <1>1 DEF Leaves
  <2> DEFINE j == Here(t).slot
  <2>2. j \in 0 .. Width /\ j # Width /\ Width \in Nat
    BY <1>2, <2>1, MmuOK
  <2> HIDE DEF j
  <2>3. j + 1 \in 1 .. Width /\ j + 1 \in 0 .. Width
    BY <2>2
  <2> QED
    BY <2>3 DEF j, Slots
<1>4. k \in Segs \cup {NULL} /\ (k # NULL => k \in Kids(seg, Here(t).at))
  <2>1. seg \in Trees
    BY SegTrees DEF IInv
  <2> HIDE DEF i
  <2> QED
    BY <1>2, <1>3, <2>1, SegFields, KidsAre
<1> HIDE DEF i, k
<1>5. /\ here \in Seq(Rec) /\ here # <<>> /\ DOMAIN here = DOMAIN o.path
      /\ \A j \in DOMAIN here : here[j].at = o.path[j].at
  <2> DEFINE q == o.path
  <2>1. q \in Seq(Rec) /\ n \in 1 .. Len(q) /\ DOMAIN q = 1 .. Len(q) /\ n = Len(q)
    BY <1>2, PathIs DEF Paths
  <2>2. q[n] \in Rec
    <3> HIDE DEF q, n, Rec
    <3> QED
      BY <2>1
  <2>3. [q[n] EXCEPT !.slot = i] \in Rec /\ [q[n] EXCEPT !.slot = i].at = q[n].at
    BY <1>3, <2>2
  <2>4. here = [q EXCEPT ![n] = [q[n] EXCEPT !.slot = i]]
    OBVIOUS
  <2> DEFINE r == [q[n] EXCEPT !.slot = i]
  <2> HIDE DEF q, Rec, n, here, r
  <2>5. here \in Seq(Rec) /\ DOMAIN here = DOMAIN q /\ Len(here) = Len(q)
    BY <2>1, <2>3, <2>4 DEF r
  <2>6. \A j \in DOMAIN here : here[j].at = q[j].at
    BY <2>1, <2>3, <2>4, <2>5 DEF r
  <2>7. here # <<>>
    BY <2>1, <2>5
  <2> QED
    BY <2>5, <2>6, <2>7 DEF q
<1> HIDE DEF here
<1>6. /\ p \in Seq(Rec) /\ p # <<>>
      /\ \A j \in DOMAIN p : p[j].at \in {o.path[l].at : l \in DOMAIN o.path} \cup Kids(seg, Here(t).at)
  <2>1. CASE k = NULL
    <3>1. p = here
      BY <2>1
    <3> QED
      BY <1>5, <3>1
  <2>2. CASE k # NULL
    <3> DEFINE e == [at |-> k, slot |-> 0]
    <3>1. p = Append(here, e)
      BY <2>2
    <3>2. e \in Rec /\ e.at = k
      <4>1. k \in Segs /\ 0 \in 0 .. Width
        BY <1>4, <2>2, MmuOK
      <4> QED
        BY <4>1
    <3> HIDE DEF e, Rec
    <3>3. p \in Seq(Rec) /\ Len(p) = Len(here) + 1 /\ DOMAIN p = 1 .. Len(here) + 1 /\ Len(here) \in Nat
          /\ DOMAIN here = 1 .. Len(here)
          /\ \A j \in 1 .. Len(here) + 1 : p[j] = IF j <= Len(here) THEN here[j] ELSE e
      BY <1>5, <3>1, <3>2
    <3>4. p # <<>>
      BY <3>3
    <3>5. ASSUME NEW j \in DOMAIN p
          PROVE  p[j].at \in {o.path[l].at : l \in DOMAIN o.path} \cup Kids(seg, Here(t).at)
      <4>1. CASE j \in DOMAIN here
        BY <1>5, <3>3, <4>1
      <4>2. CASE j \notin DOMAIN here
        BY <1>4, <2>2, <3>2, <3>3, <4>2
      <4> QED
        BY <4>1, <4>2
    <3> QED
      BY <3>3, <3>4, <3>5
  <2> QED
    BY <2>1, <2>2
<1> HIDE DEF p
<1>7. p \in Paths
  BY <1>6 DEF Paths
<1>8. \A j \in DOMAIN p : p[j].at \in HeldBy(seg, op[t]) \cup Kids(seg, Here(t).at)
  BY <1>6 DEF HeldBy
<1> QED
  BY <1>1, <1>6, <1>7, <1>8, PathStep

LEMMA StepLeave == ASSUME IInv, NEW t \in Threads, Leave(t) PROVE IInv'
<1> DEFINE o == op[t]
           p == Front(o.path)
           Rec == [at : Segs, slot : 0 .. Width]
<1>1. /\ UNCHANGED <<prog, seg, data, phase, placed, seen, ub, last, wrong, untidy>>
      /\ phase = "run" /\ ub = "none" /\ op[t].pc = "search"
      /\ op' = [op EXCEPT ![t] = IF Len(op[t].path) = 1 THEN Idle ELSE [op[t] EXCEPT !.path = p]]
  BY DEF Leave, Ready
<1>2. o.path \in Paths /\ Len(o.path) \in Nat \ {0}
  BY <1>1, HereIs
<1>3. CASE Len(o.path) = 1
  <2>1. op' = [op EXCEPT ![t] = Idle]
    BY <1>1, <1>3
  <2>2. data' \in [Segs -> [Addrs -> Vals \cup {NULL}]] /\ last' \in [Addrs -> Vals \cup {NULL}]
        /\ wrong' \in BOOLEAN
    BY <1>1, Unwritten DEF IInv
  <2> QED
    BY <1>1, <2>1, <2>2, RestStep
<1>4. CASE Len(o.path) # 1
  <2>1. /\ p \in Seq(Rec) /\ p # <<>> /\ DOMAIN p \subseteq DOMAIN o.path
        /\ \A j \in DOMAIN p : p[j] = o.path[j]
    <3> DEFINE q == o.path
    <3>1. q \in Seq(Rec) /\ Len(q) \in Nat /\ Len(q) > 1 /\ DOMAIN q = 1 .. Len(q)
      <4>1. q \in Seq(Rec) /\ DOMAIN q = 1 .. Len(q)
        BY <1>2, PathIs DEF Paths
      <4>2. Len(q) \in Nat \ {0} /\ Len(q) # 1
        BY <1>2, <1>4
      <4> HIDE DEF q
      <4> QED
        BY <4>1, <4>2
    <3>2. p = SubSeq(q, 1, Len(q) - 1)
      BY DEF Front
    <3> HIDE DEF q, p, Rec
    <3>3. /\ p \in Seq(Rec) /\ Len(p) = Len(q) - 1 /\ DOMAIN p = 1 .. Len(q) - 1
          /\ \A j \in 1 .. Len(q) - 1 : p[j] = q[j]
      BY <3>1, <3>2
    <3>4. p # <<>>
      BY <3>1, <3>3
    <3> QED
      BY <3>1, <3>3, <3>4 DEF q
  <2> HIDE DEF p
  <2>2. p \in Paths
    BY <2>1 DEF Paths
  <2>3. \A j \in DOMAIN p : p[j].at \in HeldBy(seg, op[t]) \cup Kids(seg, Here(t).at)
    BY <2>1 DEF HeldBy
  <2>4. op' = [op EXCEPT ![t] = [op[t] EXCEPT !.path = p]]
    BY <1>1, <1>4
  <2> QED
    BY <1>1, <2>1, <2>2, <2>3, <2>4, PathStep
<1> QED
  BY <1>3, <1>4

\* What is true of an operation that frees.
LEMMA FreeIs ==
  ASSUME IInv, NEW t \in Threads, op[t].pc \in {"free", "scan", "clear", "tree"}
  PROVE  /\ op[t] \in OpRec /\ OpGood(seg, op[t]) /\ seg \in Trees /\ LinkOK(seg)
         /\ op[t].seg \in Segs \ {Root} /\ op[t].seg # NULL /\ seg[op[t].seg].life # "unborn"
         /\ seg[op[t].seg].parent \in Segs
         /\ op[t].seg \in HeldBy(seg, op[t])
         /\ phase # "load"
<1>1. op[t] \in OpRec /\ OpGood(seg, op[t]) /\ seg \in Trees /\ LinkOK(seg)
  BY SegTrees DEF IInv, OpsOK
<1>2. op[t].seg \in Segs \ {Root} /\ seg[op[t].seg].life # "unborn"
  BY <1>1 DEF OpGood
<1>3. seg[op[t].seg].parent \in Segs
  BY <1>1, <1>2 DEF LinkOK
<1>4. op[t].seg # NULL /\ op[t].seg \in HeldBy(seg, op[t])
  BY <1>2, MmuOK DEF HeldBy
<1>5. phase # "load"
  BY IdleIs DEF IInv, OpsOK
<1> QED
  BY <1>1, <1>2, <1>3, <1>4, <1>5

LEMMA StepScan == ASSUME IInv, NEW t \in Threads, Scan(t) PROVE IInv'
<1> DEFINE o == op[t]
           p == seg[o.seg].parent
           empty == o.slot > Width \/ seg[p].kids[o.slot] = NULL
           x == IF empty THEN [o EXCEPT !.pc = "tree"]
                ELSE IF seg[p].kids[o.slot] = o.seg THEN [o EXCEPT !.pc = "clear"]
                ELSE [o EXCEPT !.slot = @ + 1]
<1>1. /\ UNCHANGED <<prog, seg, data, phase, placed, seen, ub, last, wrong, untidy>>
      /\ phase = "run" /\ ub = "none" /\ op[t].pc = "scan" /\ op' = [op EXCEPT ![t] = x]
  BY DEF Scan, Ready
<1>2. /\ o \in OpRec /\ OpGood(seg, o) /\ o.seg \in Segs \ {Root} /\ o.seg # NULL
      /\ seg \in Trees /\ p \in Segs
  BY <1>1, FreeIs
<1>3. o.slot \in 1 .. Width + 1 /\ Width \in Nat
  BY <1>2, OpFields, MmuOK
<1>4. /\ x \in OpRec /\ x.seg = o.seg /\ x.path = o.path /\ x.pc \in {"scan", "clear", "tree"}
      /\ x.pc = "clear" => x.slot \in Slots /\ seg[p].kids[x.slot] = o.seg
  <2>1. CASE empty
    <3>1. x = [o EXCEPT !.pc = "tree"]
      BY <2>1
    <3> HIDE DEF x, o
    <3> QED
      BY <1>2, <3>1 DEF OpRec
  <2>2. CASE ~empty /\ seg[p].kids[o.slot] = o.seg
    <3>1. x = [o EXCEPT !.pc = "clear"]
      BY <2>2
    <3>2. o.slot \in Slots
      BY <1>3, <2>2 DEF Slots
    <3> HIDE DEF x, o, p
    <3>3. x \in OpRec /\ x.seg = o.seg /\ x.path = o.path /\ x.pc = "clear" /\ x.slot = o.slot
      BY <1>2, <3>1 DEF OpRec
    <3> QED
      BY <2>2, <3>2, <3>3
  <2>3. CASE ~empty /\ seg[p].kids[o.slot] # o.seg
    <3>1. x = [o EXCEPT !.slot = @ + 1]
      BY <2>3
    <3>2. o.slot + 1 \in 1 .. Width + 1 /\ o.pc = "scan"
      BY <1>1, <1>3, <2>3
    <3> HIDE DEF x, o, p
    <3> QED
      BY <1>2, <3>1, <3>2 DEF OpRec
  <2> QED
    BY <2>1, <2>2, <2>3
<1> HIDE DEF x
<1>5. HeldBy(seg, x) \subseteq HeldBy(seg, o)
  BY <1>1, <1>4 DEF HeldBy
<1>6. OpGood(seg, x)
  BY <1>1, <1>2, <1>4 DEF OpGood
<1>7. ASSUME ~untidy
      PROVE  /\ OpTidy(seg, x)
             /\ \A s \in Detached(seg) : LooseBy(t, s) => x.seg = s /\ x.pc \in {"scan", "tree"}
  <2>1. OpTidy(seg, o) /\ TreeBase(seg)
    BY <1>1, <1>7 DEF IInv, TidyOK
  <2>2. OpTidy(seg, x)
    BY <1>1, <1>4, <1>5, <2>1 DEF OpTidy
  <2>3. ASSUME NEW s \in Detached(seg), LooseBy(t, s) PROVE x.seg = s /\ x.pc \in {"scan", "tree"}
    <3>1. o.seg = s /\ s \notin Kids(seg, p)
      BY <2>3 DEF LooseBy, Detached
    <3>2. x.pc # "clear"
      BY <1>2, <1>4, <3>1, KidsAre
    <3> QED
      BY <1>4, <3>1, <3>2
  <2> QED
    BY <2>2, <2>3
<1>8. data' \in [Segs -> [Addrs -> Vals \cup {NULL}]] /\ last' \in [Addrs -> Vals \cup {NULL}]
      /\ wrong' \in BOOLEAN
  BY <1>1, Unwritten DEF IInv
<1>9. Freeing(t)
  BY <1>1 DEF Freeing
<1> QED
  BY <1>1, <1>4, <1>5, <1>6, <1>7, <1>8, <1>9, OpStep

LEMMA StepUseFreed == ASSUME IInv, NEW t \in Threads, UseFreed(t) PROVE IInv'
<1> USE DEF IInv
<1>0. /\ UNCHANGED <<prog, seg, data, phase, placed, op, seen, last, wrong, untidy>>
      /\ ub' = "use_after_free" /\ ub = "none" /\ phase = "run"
      /\ \E s \in Touches(t) : seg[s].life = "freed"
  BY DEF UseFreed
<1>1. TypeOK'
  BY <1>0 DEF TypeOK
<1>2. LinkOK(seg)' /\ OpsOK' /\ LockOK' /\ SeenOK' /\ TidyOK'
  <2>1. LinkOK(seg)'
    BY <1>0
  <2>2. OpsOK'
    BY <1>0 DEF OpsOK
  <2>3. LockOK'
    BY <1>0 DEF LockOK, Unborn
  <2>4. SeenOK'
    BY <1>0 DEF SeenOK
  <2>5. TidyOK'
    BY <1>0 DEF TidyOK
  <2> QED
    BY <2>1, <2>2, <2>3, <2>4, <2>5
<1>3. ASSUME ~untidy PROVE FALSE
  <2>1. \A s \in HeldBy(seg, op[t]) : seg[s].life = "live"
    BY <1>0, <1>3 DEF TidyOK, OpTidy
  <2>2. Touches(t) \subseteq HeldBy(seg, op[t])
    <3>1. op[t].pc = "search" => Here(t).at \in HeldBy(seg, op[t])
      BY HereIs
    <3> QED
      BY <3>1, HeldIs DEF Touches
  <2> QED
    BY <1>0, <2>1, <2>2
<1>4. NoUseAfterFree'
  BY <1>0, <1>3 DEF NoUseAfterFree
<1> QED
  BY <1>1, <1>2, <1>4

\* The steps of a FREE that write to the tree.
LEMMA FreeStep ==
  ASSUME IInv, NEW t \in Threads, op[t].pc \in {"free", "scan", "clear", "tree"},
         NEW o \in OpRec, op' = [op EXCEPT ![t] = o], o.pc # "alloc",
         UNCHANGED <<prog, data, phase, placed, seen, ub, wrong>>, phase = "run", ub = "none",
         last' \in [Addrs -> Vals \cup {NULL}], untidy' \in BOOLEAN, untidy => untidy',
         seg' \in Trees, LinkOK(seg'), OpGood(seg', o),
         \A x \in Segs : seg'[x].parent = seg[x].parent /\ (seg'[x].life = "unborn" <=> seg[x].life = "unborn"),
         ~untidy' =>
           /\ TreeBase(seg') /\ NestOK(seg') /\ OpTidy(seg', o)
           /\ \A u \in Threads : op[u].pc # "alloc"
           /\ \A u \in Threads \ {t} : OpTidy(seg', op[u])
           /\ \A s \in Detached(seg') :
                /\ Kids(seg', s) = {}
                /\ \/ s \notin HeldBy(seg', o) /\ \E u \in Threads \ {t} : LooseBy(u, s)
                   \/ o.seg = s /\ o.pc \in {"scan", "tree"}
                      /\ \A u \in Threads \ {t} : s \notin HeldBy(seg, op[u])
  PROVE  IInv'
<1>1. /\ op \in [Threads -> OpRec] /\ op' \in [Threads -> OpRec]
      /\ op'[t] = o /\ \A u \in Threads : u # t => op'[u] = op[u]
  BY SegTrees DEF IInv
<1>2. TypeOK'
  BY <1>1 DEF IInv, TypeOK, Trees
<1>3. \A u \in Threads : OpGood(seg', op[u]) /\ HeldBy(seg', op[u]) = HeldBy(seg, op[u])
  BY <1>1, OpKept DEF IInv, OpsOK
<1>4. OpsOK' /\ LockOK'
  <2>1. OpsOK'
    BY <1>1, <1>3 DEF IInv, OpsOK
  <2>2. LockOK'
    BY <1>1 DEF IInv, LockOK, Unborn
  <2> QED
    BY <2>1, <2>2
<1>5. SeenOK'
  <2> SUFFICES ASSUME NEW s \in Segs, NEW i \in Slots, seen[s][i] # NULL
               PROVE  seg'[seen[s][i]].life # "unborn"
    BY DEF SeenOK
  <2>1. seg[seen[s][i]].life # "unborn"
    BY DEF IInv, SeenOK
  <2>2. seen[s][i] \in Segs
    BY SeenIs DEF IInv
  <2> QED
    BY <2>1, <2>2
<1>6. NoUseAfterFree'
  BY DEF NoUseAfterFree
<1>7. TidyOK'
  <2> SUFFICES ASSUME ~untidy'
               PROVE  /\ TreeBase(seg') /\ NestOK(seg') /\ DetachedOK' /\ AllocAlone'
                      /\ \A u \in Threads : OpTidy(seg', op'[u])
    BY DEF TidyOK
  <2>1. DetachedOK'
    <3> SUFFICES ASSUME NEW s \in Detached(seg')
                 PROVE  Kids(seg', s) = {} /\ \E u \in Threads : LooseBy(u, s)'
      BY DEF DetachedOK
    <3>1. CASE s \notin HeldBy(seg', o) /\ \E u \in Threads \ {t} : LooseBy(u, s)
      <4>1. PICK u \in Threads \ {t} : LooseBy(u, s)
        BY <3>1
      <4>2. op'[u].seg = s /\ op'[u].pc \in {"scan", "tree"}
        BY <1>1, <4>1 DEF LooseBy
      <4>3. ASSUME NEW w \in Threads \ {u} PROVE s \notin HeldBy(seg', op'[w])
        <5>1. CASE w = t
          BY <1>1, <3>1, <5>1
        <5>2. CASE w # t
          <6>1. s \notin HeldBy(seg, op[w])
            BY <4>1 DEF LooseBy
          <6> QED
            BY <1>1, <1>3, <5>2, <6>1
        <5> QED
          BY <5>1, <5>2
      <4>4. LooseBy(u, s)'
        BY <4>2, <4>3 DEF LooseBy
      <4> QED
        BY <4>4
    <3>2. CASE o.seg = s /\ o.pc \in {"scan", "tree"} /\ \A u \in Threads \ {t} : s \notin HeldBy(seg, op[u])
      <4>1. \A u \in Threads \ {t} : s \notin HeldBy(seg', op'[u])
        BY <1>1, <1>3, <3>2
      <4>2. LooseBy(t, s)'
        BY <1>1, <3>2, <4>1 DEF LooseBy
      <4> QED
        BY <4>2
    <3> QED
      BY <3>1, <3>2
  <2>2. AllocAlone'
    BY <1>1 DEF AllocAlone
  <2>3. \A u \in Threads : OpTidy(seg', op'[u])
    BY <1>1
  <2> QED
    BY <2>1, <2>2, <2>3
<1> QED
  BY <1>2, <1>4, <1>5, <1>6, <1>7 DEF IInv

LEMMA FlagFields ==
  ASSUME NEW m \in Trees, NEW s \in Segs
  PROVE  LET n == [m EXCEPT ![s].freed = TRUE] IN
         /\ n \in Trees /\ SameTree(m, n)
         /\ \A x \in Segs : n[x].life = m[x].life /\ n[x].freed = IF x = s THEN TRUE ELSE m[x].freed
<1> DEFINE r == [m[s] EXCEPT !.freed = TRUE]
           n == [m EXCEPT ![s].freed = TRUE]
<1>1. n = [m EXCEPT ![s] = r]
  BY DEF Trees
<1>2. /\ r \in SegRec /\ r.life = m[s].life /\ r.kids = m[s].kids /\ r.parent = m[s].parent
      /\ r.litSz = m[s].litSz /\ r.lo = m[s].lo /\ r.hi = m[s].hi /\ r.freed = TRUE
  BY SegFields DEF SegRec
<1> HIDE DEF r, n
<1>3. n \in Trees /\ n[s] = r /\ \A x \in Segs : x # s => n[x] = m[x]
  BY <1>1, <1>2 DEF Trees
<1>4. /\ n \in Trees /\ SameTree(m, n)
      /\ \A x \in Segs : n[x].life = m[x].life /\ n[x].freed = IF x = s THEN TRUE ELSE m[x].freed
  BY <1>2, <1>3 DEF SameTree
<1> QED
  BY <1>4 DEF n

LEMMA StepFlag == ASSUME IInv, NEW t \in Threads, Flag(t) PROVE IInv'
<1> DEFINE o == op[t]
           s == o.seg
           p == seg[s].parent
           x == [o EXCEPT !.pc = "scan"]
           n == [seg EXCEPT ![s].freed = TRUE]
<1>1. /\ UNCHANGED <<prog, data, phase, placed, seen, ub, last, wrong>>
      /\ phase = "run" /\ ub = "none" /\ op[t].pc = "free" /\ seg' = n
      /\ untidy' = (untidy \/ \E u \in Threads : op[u].pc = "alloc")
  BY DEF Flag, Ready
<1>2. op' = [op EXCEPT ![t] = x]
  BY SegTrees DEF Flag, IInv
<1>3. /\ o \in OpRec /\ OpGood(seg, o) /\ s \in Segs \ {Root} /\ s # NULL /\ seg \in Trees
      /\ p \in Segs /\ LinkOK(seg) /\ s \in HeldBy(seg, o) /\ seg[s].life # "unborn"
  BY <1>1, FreeIs
<1>4. x \in OpRec /\ x.pc = "scan" /\ x.seg = s /\ x.path = o.path
  <2> HIDE DEF o
  <2>1. s = o.seg
    OBVIOUS
  <2> QED
    BY <1>3 DEF OpRec
<1> HIDE DEF x
<1>5. /\ n \in Trees /\ SameTree(seg, n)
      /\ \A y \in Segs : n[y].life = seg[y].life /\ n[y].freed = IF y = s THEN TRUE ELSE seg[y].freed
  BY <1>3, FlagFields
<1> HIDE DEF n
<1>6. /\ LinkOK(n)
      /\ \A y \in Segs : n[y].parent = seg[y].parent /\ n[y].kids = seg[y].kids /\ Kids(n, y) = Kids(seg, y)
  BY <1>3, <1>5, SameShape, SameKids DEF SameTree
<1>7. OpGood(n, x)
  <2>1. \A i \in DOMAIN x.path : x.path[i].at \in Segs
    BY <1>4, OpFields, PathIs
  <2>2. \A i \in DOMAIN x.path : n[x.path[i].at].life # "unborn"
    BY <1>3, <1>4, <1>5, <2>1 DEF OpGood
  <2>3. x.seg \in Segs \ {Root} /\ n[x.seg].life # "unborn"
    BY <1>3, <1>4, <1>5
  <2> QED
    BY <1>4, <2>2, <2>3 DEF OpGood
<1>8. HeldBy(n, x) = HeldBy(seg, o) \cup {p}
  <2>1. x.seg = s /\ o.seg = s /\ o.pc = "free" /\ n[s].parent = p
    BY <1>1, <1>3, <1>4, <1>6
  <2> QED
    BY <1>3, <1>4, <2>1 DEF HeldBy
<1>9. last' \in [Addrs -> Vals \cup {NULL}] /\ untidy' \in BOOLEAN /\ (untidy => untidy')
  BY <1>1, Unwritten DEF IInv
<1>10. ASSUME ~untidy'
       PROVE  /\ TreeBase(n) /\ NestOK(n) /\ OpTidy(n, x)
              /\ \A u \in Threads : op[u].pc # "alloc"
              /\ \A u \in Threads \ {t} : OpTidy(n, op[u])
              /\ \A d \in Detached(n) : Kids(n, d) = {} /\ d \notin HeldBy(n, x)
                                        /\ \E u \in Threads \ {t} : LooseBy(u, d)
  <2>1. /\ TreeBase(seg) /\ NestOK(seg) /\ DetachedOK
        /\ \A u \in Threads : OpTidy(seg, op[u])
    BY <1>1, <1>10 DEF IInv, TidyOK
  <2>2. TreeBase(n) /\ NestOK(n)
    <3>1. \A y \in Segs : SlotsApart(n, y)
      BY <1>6, <2>1 DEF TreeBase, SlotsApart
    <3>2. \A y \in Segs : /\ n[y].life = IF y \in {} THEN "freed" ELSE seg[y].life
                          /\ n[y].parent = seg[y].parent /\ n[y].lo = seg[y].lo /\ n[y].hi = seg[y].hi
                          /\ Kids(n, y) \subseteq Kids(seg, y)
      BY <1>5, <1>6 DEF SameTree
    <3>3. {} \in SUBSET (Segs \ {Root})
      OBVIOUS
    <3> QED
      BY <1>3, <1>5, <2>1, <3>1, <3>2, <3>3, FewerKids
  <2>3. Detached(n) = Detached(seg)
    <3>1. ASSUME NEW y \in Segs \ {Root} PROVE y \in Detached(n) <=> y \in Detached(seg)
      <4>1. seg[y].life = "live" => seg[y].parent \in Segs
        BY <2>1 DEF TreeBase
      <4> QED
        BY <1>5, <1>6, <4>1 DEF Detached
    <3> QED
      BY <3>1 DEF Detached
  <2>4. \A d \in Detached(seg) : \E u \in Threads \ {t} : LooseBy(u, d)
    <3> SUFFICES ASSUME NEW d \in Detached(seg) PROVE \E u \in Threads \ {t} : LooseBy(u, d)
      OBVIOUS
    <3>1. PICK u \in Threads : LooseBy(u, d)
      BY <2>1 DEF DetachedOK
    <3>2. u # t
      BY <1>1, <3>1 DEF LooseBy
    <3> QED
      BY <3>1, <3>2
  <2>5. s \notin Detached(seg) /\ \A d \in Detached(seg) : d \notin HeldBy(seg, o)
    <3>1. \A d \in Detached(seg) : d \notin HeldBy(seg, o)
      BY <2>4 DEF LooseBy
    <3> QED
      BY <1>3, <3>1
  <2>6. seg[s].life = "live" /\ s \in Kids(seg, p)
    <3>1. seg[s].life = "live"
      BY <1>3, <2>1 DEF OpTidy
    <3> QED
      BY <1>3, <2>5, <3>1 DEF Detached
  <2>7. seg[p].life = "live" /\ p \notin Detached(seg)
    BY <1>3, <2>1, <2>6 DEF TreeBase, DetachedOK
  <2>8. OpTidy(n, x)
    <3>1. \A y \in HeldBy(seg, o) : y \in Segs /\ seg[y].life = "live"
      BY <1>3, <2>1, HeldAreSegs DEF OpTidy
    <3> QED
      BY <1>3, <1>4, <1>5, <1>8, <2>7, <3>1 DEF OpTidy
  <2>9. ASSUME NEW u \in Threads \ {t} PROVE OpTidy(n, op[u])
    <3>1. op[u] \in OpRec /\ OpGood(seg, op[u]) /\ OpTidy(seg, op[u])
      BY <2>1, SegTrees DEF IInv, OpsOK
    <3>2. HeldBy(n, op[u]) = HeldBy(seg, op[u]) /\ HeldBy(seg, op[u]) \subseteq Segs
      <4>1. \A y \in Segs : n[y].parent = seg[y].parent /\ (n[y].life = "unborn" => seg[y].life = "unborn")
        BY <1>5, <1>6
      <4>2. HeldBy(n, op[u]) = HeldBy(seg, op[u])
        BY <3>1, <4>1, OpKept
      <4>3. HeldBy(seg, op[u]) \subseteq Segs
        BY <1>3, <3>1, HeldAreSegs
      <4> QED
        BY <4>2, <4>3
    <3>3. \A y \in HeldBy(n, op[u]) : n[y].life = "live"
      BY <1>5, <3>1, <3>2 DEF OpTidy
    <3>4. op[u].pc \in {"scan", "clear", "tree"} => n[op[u].seg].freed
      BY <1>5, <3>1 DEF OpTidy, OpGood
    <3>5. op[u].pc = "clear" => n[n[op[u].seg].parent].kids[op[u].slot] = op[u].seg
      BY <1>3, <1>6, <3>1 DEF OpTidy, OpGood, LinkOK
    <3> QED
      BY <3>3, <3>4, <3>5 DEF OpTidy
  <2>10. \A u \in Threads : op[u].pc # "alloc"
    BY <1>1, <1>10
  <2>11. \A d \in Detached(n) : Kids(n, d) = {} /\ d \notin HeldBy(n, x)
    <3>1. \A d \in Detached(n) : d \in Segs
      BY DEF Detached
    <3> QED
      BY <1>6, <1>8, <2>1, <2>3, <2>5, <2>7, <3>1 DEF DetachedOK
  <2> QED
    BY <2>2, <2>3, <2>4, <2>8, <2>9, <2>10, <2>11
<1>11. \A y \in Segs : n[y].parent = seg[y].parent /\ (n[y].life = "unborn" <=> seg[y].life = "unborn")
  BY <1>5, <1>6
<1>12. op[t].pc \in {"free", "scan", "clear", "tree"} /\ x.pc # "alloc"
  BY <1>1, <1>4
<1> QED
  BY <1>1, <1>2, <1>4, <1>5, <1>6, <1>7, <1>9, <1>10, <1>11, <1>12, FreeStep

\* What is detached when links were only taken away, none of them to g.
LEMMA DetachedBut ==
  ASSUME NEW m \in Trees, TreeBase(m), NEW n \in Trees, NEW d,
         \A x \in Segs : n[x].parent = m[x].parent /\ (n[x].life = "live" => m[x].life = "live"),
         \A x \in Segs : Kids(m, x) \ {d} \subseteq Kids(n, x)
  PROVE  Detached(n) \subseteq Detached(m) \cup {d}
<1> SUFFICES ASSUME NEW y \in Detached(n), y # d PROVE y \in Detached(m)
  OBVIOUS
<1>1. y \in Segs \ {Root} /\ m[y].life = "live" /\ y \notin Kids(n, m[y].parent)
  BY DEF Detached
<1>2. m[y].parent \in Segs
  BY <1>1 DEF TreeBase
<1> QED
  BY <1>1, <1>2 DEF Detached

\* A FREE that t is about to do excludes those of the same segment.
LEMMA OthersTidy ==
  ASSUME IInv, ~untidy, ub = "none", phase = "run", NEW t \in Threads,
         op[t].pc \in {"free", "scan", "clear", "tree"}
  PROVE  /\ TreeBase(seg) /\ NestOK(seg) /\ DetachedOK
         /\ Freeing(t) => \A u \in Threads : op[u].pc # "alloc"
         /\ \A u \in Threads : /\ op[u] \in OpRec /\ OpGood(seg, op[u]) /\ OpTidy(seg, op[u])
                               /\ HeldBy(seg, op[u]) \subseteq Segs
<1>1. /\ TreeBase(seg) /\ NestOK(seg) /\ DetachedOK /\ AllocAlone
      /\ \A u \in Threads : OpTidy(seg, op[u])
  BY DEF IInv, TidyOK
<1>2. \A u \in Threads : op[u] \in OpRec /\ OpGood(seg, op[u])
  BY SegTrees DEF IInv, OpsOK
<1>3. \A u \in Threads : HeldBy(seg, op[u]) \subseteq Segs
  BY <1>2, HeldAreSegs DEF IInv
<1> QED
  BY <1>1, <1>2, <1>3 DEF AllocAlone

LEMMA StepClear == ASSUME IInv, NEW t \in Threads, Clear(t) PROVE IInv'
<1> DEFINE o == op[t]
           s == o.seg
           p == seg[s].parent
           x == [o EXCEPT !.pc = "scan", !.slot = @ + 1]
           n == [seg EXCEPT ![p].kids[o.slot] = NULL]
<1>1. /\ UNCHANGED <<prog, data, phase, placed, seen, ub, wrong>>
      /\ phase = "run" /\ ub = "none" /\ op[t].pc = "clear" /\ seg' = n
      /\ untidy' = (untidy \/ Kids(seg, s) # {} \/ Met(t, s)) /\ Forget(seg[s])
      /\ op' = [op EXCEPT ![t] = x]
  BY DEF Clear, Ready
<1>2. /\ o \in OpRec /\ OpGood(seg, o) /\ s \in Segs \ {Root} /\ s # NULL /\ seg \in Trees
      /\ p \in Segs /\ LinkOK(seg) /\ s \in HeldBy(seg, o) /\ seg[s].life # "unborn"
  BY <1>1, FreeIs
<1>3. o.slot \in Slots
  BY <1>1, <1>2 DEF OpGood
<1>4. x \in OpRec /\ x.pc = "scan" /\ x.seg = s /\ x.path = o.path
  <2> DEFINE y == [o EXCEPT !.pc = "scan"]
  <2>1. x = [y EXCEPT !.slot = o.slot + 1] /\ s = o.seg
    OBVIOUS
  <2>2. o.slot + 1 \in 1 .. Width + 1
    BY <1>3, MmuOK DEF Slots
  <2> HIDE DEF o, x
  <2>3. y \in OpRec /\ y.pc = "scan" /\ y.seg = s /\ y.path = o.path
    BY <1>2, <2>1 DEF OpRec
  <2> HIDE DEF y
  <2> QED
    BY <2>1, <2>2, <2>3 DEF OpRec
<1> HIDE DEF x
<1>5. Cleared(seg, n, p, o.slot)
  BY <1>2, <1>3, ClearIs
<1> HIDE DEF n
<1>6. /\ n \in Trees /\ LinkOK(n)
      /\ \A y \in Segs : /\ n[y].life = seg[y].life /\ n[y].parent = seg[y].parent
                         /\ n[y].lo = seg[y].lo /\ n[y].hi = seg[y].hi /\ n[y].freed = seg[y].freed
      /\ \A y \in Segs, j \in Slots : n[y].kids[j] = IF y = p /\ j = o.slot THEN NULL ELSE seg[y].kids[j]
  BY <1>2, <1>3, <1>5, ClearLinks DEF Cleared
<1>7. OpGood(n, x)
  BY <1>2, <1>4, <1>6, OpFields, PathIs DEF OpGood
<1>8. HeldBy(n, x) = HeldBy(seg, o)
  <2>1. x.seg = s /\ o.seg = s /\ o.pc = "clear" /\ n[s].parent = p
    BY <1>1, <1>2, <1>4, <1>6
  <2> QED
    BY <1>2, <1>4, <2>1 DEF HeldBy
<1>9. last' \in [Addrs -> Vals \cup {NULL}] /\ untidy' \in BOOLEAN /\ (untidy => untidy')
  <2>1. last \in [Addrs -> Vals \cup {NULL}] /\ untidy \in BOOLEAN
    BY Unwritten DEF IInv
  <2>2. last' = [a \in Addrs |-> IF ContainsLiteral(seg[s], a, 0) THEN NULL ELSE last[a]]
    BY <1>1 DEF Forget
  <2>3. last' \in [Addrs -> Vals \cup {NULL}]
    BY <2>1, <2>2
  <2> QED
    BY <1>1, <2>1, <2>3
<1>10. ASSUME ~untidy'
       PROVE  /\ TreeBase(n) /\ NestOK(n) /\ OpTidy(n, x)
              /\ \A u \in Threads : op[u].pc # "alloc"
              /\ \A u \in Threads \ {t} : OpTidy(n, op[u])
              /\ \A d \in Detached(n) :
                   /\ Kids(n, d) = {}
                   /\ \/ d \notin HeldBy(n, x) /\ \E u \in Threads \ {t} : LooseBy(u, d)
                      \/ x.seg = d /\ x.pc \in {"scan", "tree"}
                         /\ \A u \in Threads \ {t} : d \notin HeldBy(seg, op[u])
  <2>1. ~untidy /\ Kids(seg, s) = {} /\ ~Met(t, s)
    BY <1>1, <1>10
  <2>2. \A u \in Threads \ {t} : s \notin HeldBy(seg, op[u])
    BY <2>1, HeldIs DEF Met
  <2>3. /\ TreeBase(seg) /\ NestOK(seg) /\ DetachedOK
        /\ \A u \in Threads : op[u].pc # "alloc"
        /\ \A u \in Threads : /\ op[u] \in OpRec /\ OpGood(seg, op[u]) /\ OpTidy(seg, op[u])
                              /\ HeldBy(seg, op[u]) \subseteq Segs
    BY <1>1, <2>1, OthersTidy DEF Freeing
  <2>4. seg[p].kids[o.slot] = s
    BY <1>1, <2>3 DEF OpTidy
  <2>5. /\ \A y \in Segs : Kids(n, y) \subseteq Kids(seg, y) /\ SlotsApart(n, y)
        /\ \A y \in Segs : Kids(seg, y) \ {s} \subseteq Kids(n, y)
    <3>1. \A y \in Segs : SlotsApart(seg, y)
      BY <2>3 DEF TreeBase
    <3>2. \A y \in Segs : /\ Kids(n, y) \subseteq Kids(seg, y) /\ SlotsApart(n, y)
                          /\ y # p => Kids(n, y) = Kids(seg, y)
      <4> DEFINE i == o.slot
      <4>1. i \in Slots /\ Cleared(seg, n, p, i)
        BY <1>3, <1>5
      <4> HIDE DEF p, i
      <4> SUFFICES ASSUME NEW y \in Segs
                   PROVE  /\ Kids(n, y) \subseteq Kids(seg, y) /\ SlotsApart(n, y)
                          /\ y # p => Kids(n, y) = Kids(seg, y)
        OBVIOUS
      <4>2. SlotsApart(seg, y)
        BY <3>1
      <4> QED
        BY <1>2, <4>1, <4>2, ClearKids
    <3>3. Kids(n, p) = Kids(seg, p) \ {s}
      BY <1>2, <1>3, <1>5, <2>4, <3>1, ClearKids
    <3> QED
      BY <3>2, <3>3
  <2>6. TreeBase(n) /\ NestOK(n)
    <3>1. \A y \in Segs : /\ n[y].life = IF y \in {} THEN "freed" ELSE seg[y].life
                          /\ n[y].parent = seg[y].parent /\ n[y].lo = seg[y].lo /\ n[y].hi = seg[y].hi
                          /\ Kids(n, y) \subseteq Kids(seg, y)
      BY <1>6, <2>5
    <3>2. {} \in SUBSET (Segs \ {Root})
      OBVIOUS
    <3> QED
      BY <1>2, <1>6, <2>3, <2>5, <3>1, <3>2, FewerKids
  <2>7. OpTidy(n, x)
    <3>1. \A y \in HeldBy(seg, o) : y \in Segs /\ seg[y].life = "live"
      BY <2>3 DEF OpTidy
    <3>2. seg[s].freed
      BY <1>1, <2>3 DEF OpTidy
    <3> QED
      BY <1>2, <1>4, <1>6, <1>8, <3>1, <3>2 DEF OpTidy
  <2>8. ASSUME NEW u \in Threads \ {t} PROVE OpTidy(n, op[u])
    <3>1. op[u] \in OpRec /\ OpGood(seg, op[u]) /\ OpTidy(seg, op[u]) /\ HeldBy(seg, op[u]) \subseteq Segs
      BY <2>3
    <3>2. HeldBy(n, op[u]) = HeldBy(seg, op[u])
      <4>1. \A y \in Segs : n[y].parent = seg[y].parent /\ (n[y].life = "unborn" => seg[y].life = "unborn")
        BY <1>6
      <4> QED
        BY <3>1, <4>1, OpKept
    <3>3. \A y \in HeldBy(n, op[u]) : n[y].life = "live"
      BY <1>6, <3>1, <3>2 DEF OpTidy
    <3>4. op[u].pc \in {"scan", "clear", "tree"} => n[op[u].seg].freed
      BY <1>6, <3>1 DEF OpTidy, OpGood
    <3>5. ASSUME op[u].pc = "clear" PROVE n[n[op[u].seg].parent].kids[op[u].slot] = op[u].seg
      <4> DEFINE r == op[u].seg
                 q == seg[r].parent
                 j == op[u].slot
      <4>1. r \in Segs \ {Root} /\ r # NULL /\ q \in Segs /\ j \in Slots /\ r \in HeldBy(seg, op[u])
        BY <1>2, <3>1, <3>5, MmuOK DEF OpGood, LinkOK, HeldBy
      <4>2. seg[q].kids[j] = r /\ r # s
        BY <2>2, <3>1, <3>5, <4>1 DEF OpTidy
      <4>3. ~(q = p /\ j = o.slot)
        BY <2>4, <4>2
      <4> HIDE DEF r, q, j
      <4>4. n[q].kids[j] = r
        BY <1>6, <4>1, <4>2, <4>3
      <4>5. n[r].parent = q
        BY <1>6, <4>1 DEF q
      <4> QED
        BY <4>4, <4>5 DEF r, j
    <3> QED
      BY <3>3, <3>4, <3>5 DEF OpTidy
  <2>9. ASSUME NEW d \in Detached(n)
        PROVE  /\ Kids(n, d) = {}
               /\ \/ d \notin HeldBy(n, x) /\ \E u \in Threads \ {t} : LooseBy(u, d)
                  \/ x.seg = d /\ x.pc \in {"scan", "tree"}
                     /\ \A u \in Threads \ {t} : d \notin HeldBy(seg, op[u])
    <3>1. d \in Segs /\ (d = s \/ d \in Detached(seg))
      <4>1. Detached(n) \subseteq Detached(seg) \cup {s}
        BY <1>2, <1>6, <2>3, <2>5, DetachedBut
      <4> QED
        BY <4>1 DEF Detached
    <3>2. CASE d = s
      BY <1>4, <2>1, <2>2, <2>5, <3>1, <3>2
    <3>3. CASE d # s
      <4>1. d \in Detached(seg)
        BY <3>1, <3>3
      <4>2. PICK u \in Threads : LooseBy(u, d)
        BY <2>3, <4>1 DEF DetachedOK
      <4>3. u # t
        BY <1>1, <4>2 DEF LooseBy
      <4>4. d \notin HeldBy(n, x)
        BY <1>8, <4>2, <4>3 DEF LooseBy
      <4>5. Kids(n, d) = {}
        BY <2>3, <2>5, <3>1, <4>1 DEF DetachedOK
      <4> QED
        BY <4>2, <4>3, <4>4, <4>5
    <3> QED
      BY <3>2, <3>3
  <2> QED
    BY <2>3, <2>6, <2>7, <2>8, <2>9
<1>11. \A y \in Segs : n[y].parent = seg[y].parent /\ (n[y].life = "unborn" <=> seg[y].life = "unborn")
  BY <1>6
<1>12. op[t].pc \in {"free", "scan", "clear", "tree"} /\ x.pc # "alloc"
  BY <1>1, <1>4
<1> QED
  BY <1>1, <1>4, <1>6, <1>7, <1>9, <1>10, <1>11, <1>12, FreeStep

\* free_tree leaves the links upwards.
LEMMA FreeTreeParents ==
  ASSUME NEW m \in Trees, NEW s \in Segs
  PROVE  \A x \in Segs : FreeTree(m, s)[x].parent = m[x].parent
<1>1. CASE ~m[s].freed
  BY <1>1, FreeTreeIs
<1>2. CASE m[s].freed
  <2>1. PICK w : /\ Swept(m, w, Gone(m, s))
                 /\ FreeTree(m, s) = IF ChildrenFreed(w, s) THEN [w EXCEPT ![s].life = "freed"] ELSE w
    BY <1>2, FreeTreeIs
  <2>2. w \in Trees /\ \A x \in Segs : w[x].parent = m[x].parent
    BY <2>1 DEF Swept
  <2> DEFINE y == [w EXCEPT ![s].life = "freed"]
  <2>3. \A x \in Segs : y[x].parent = m[x].parent
    BY <2>2, LifeFreed DEF SameTree
  <2> HIDE DEF y
  <2>4. FreeTree(m, s) = y \/ FreeTree(m, s) = w
    BY <2>1 DEF y
  <2> QED
    BY <2>2, <2>3, <2>4
<1> QED
  BY <1>1, <1>2

LEMMA StepFree == ASSUME IInv, NEW t \in Threads, Free(t) PROVE IInv'
<1> DEFINE o == op[t]
           s == o.seg
           n == FreeTree(seg, s)
<1>1. /\ UNCHANGED <<prog, data, phase, placed, seen, ub, last, wrong>>
      /\ phase = "run" /\ ub = "none" /\ op[t].pc = "tree" /\ seg' = n
      /\ untidy' = \/ untidy
                   \/ Kids(seg, s) # {}
                   \/ \E x \in Segs : s \in Kids(seg, x)
                   \/ Met(t, s)
      /\ op' = [op EXCEPT ![t] = Idle]
  BY DEF Free, Ready, Rest
<1>2. /\ o \in OpRec /\ OpGood(seg, o) /\ s \in Segs \ {Root} /\ s # NULL /\ seg \in Trees
      /\ LinkOK(seg) /\ s \in HeldBy(seg, o) /\ seg[s].life # "unborn"
  BY <1>1, FreeIs
<1>3. /\ n \in Trees /\ LinkOK(n) /\ \A y \in Segs : n[y].parent = seg[y].parent
      /\ \A y \in Segs : n[y].life = "unborn" <=> seg[y].life = "unborn"
  <2> HIDE DEF s
  <2> QED
    BY <1>2, FreeTreeLinks, FreeTreeParents
<1> HIDE DEF n
<1>4. Idle \in OpRec /\ Idle.pc = "idle" /\ OpGood(n, Idle) /\ HeldBy(n, Idle) = {} /\ OpTidy(n, Idle)
  BY IdleIs, IdleHolds
<1>5. last' \in [Addrs -> Vals \cup {NULL}] /\ untidy' \in BOOLEAN /\ (untidy => untidy')
  <2>1. last \in [Addrs -> Vals \cup {NULL}] /\ untidy \in BOOLEAN
    BY Unwritten DEF IInv
  <2>2. last' \in [Addrs -> Vals \cup {NULL}]
    BY <1>1, <2>1
  <2> HIDE DEF s
  <2> QED
    BY <1>1, <2>1, <2>2, Zenon
<1>6. ASSUME ~untidy'
      PROVE  /\ TreeBase(n) /\ NestOK(n)
             /\ \A u \in Threads : op[u].pc # "alloc"
             /\ \A u \in Threads \ {t} : OpTidy(n, op[u])
             /\ \A d \in Detached(n) : Kids(n, d) = {} /\ \E u \in Threads \ {t} : LooseBy(u, d)
  <2>1. /\ ~untidy /\ Kids(seg, s) = {} /\ ~Met(t, s)
        /\ \A y \in Segs : s \notin Kids(seg, y)
    BY <1>1, <1>6
  <2>2. \A u \in Threads \ {t} : s \notin HeldBy(seg, op[u])
    BY <2>1, HeldIs DEF Met
  <2>3. /\ TreeBase(seg) /\ NestOK(seg) /\ DetachedOK
        /\ \A u \in Threads : op[u].pc # "alloc"
        /\ \A u \in Threads : /\ op[u] \in OpRec /\ OpGood(seg, op[u]) /\ OpTidy(seg, op[u])
                              /\ HeldBy(seg, op[u]) \subseteq Segs
    BY <1>1, <2>1, OthersTidy DEF Freeing
  <2>4. seg[s].freed
    BY <1>1, <2>3 DEF OpTidy
  <2>5. \A y \in Segs : /\ n[y].life = IF y = s THEN "freed" ELSE seg[y].life
                        /\ n[y].parent = seg[y].parent /\ n[y].lo = seg[y].lo /\ n[y].hi = seg[y].hi
                        /\ n[y].freed = seg[y].freed /\ n[y].kids = seg[y].kids
    <3> HIDE DEF s
    <3> QED
      BY <1>2, <2>1, <2>4, FreeLeaf DEF n
  <2>6. \A y \in Segs : Kids(n, y) = Kids(seg, y) /\ SlotsApart(n, y)
    <3>1. \A y \in Segs : SlotsApart(seg, y)
      BY <2>3 DEF TreeBase
    <3> QED
      BY <1>2, <1>3, <2>5, <3>1, SameKids DEF SlotsApart
  <2> HIDE DEF s
  <2>7. TreeBase(n) /\ NestOK(n)
    <3> DEFINE g == {s}
    <3>1. \A y \in Segs : /\ n[y].life = IF y \in g THEN "freed" ELSE seg[y].life
                          /\ n[y].parent = seg[y].parent /\ n[y].lo = seg[y].lo /\ n[y].hi = seg[y].hi
                          /\ Kids(n, y) \subseteq Kids(seg, y) /\ SlotsApart(n, y)
      BY <2>5, <2>6
    <3>2. g \in SUBSET (Segs \ {Root})
          /\ \A y \in g : Kids(seg, y) = {} /\ \A z \in Segs : y \notin Kids(n, z)
      BY <1>2, <2>1, <2>6
    <3>3. seg \in Trees /\ n \in Trees /\ TreeBase(seg) /\ NestOK(seg)
      BY <1>2, <1>3, <2>3
    <3> HIDE DEF g, n
    <3> QED
      BY <3>1, <3>2, <3>3, FewerKids
  <2>8. ASSUME NEW u \in Threads \ {t} PROVE OpTidy(n, op[u])
    <3>1. op[u] \in OpRec /\ OpGood(seg, op[u]) /\ OpTidy(seg, op[u]) /\ HeldBy(seg, op[u]) \subseteq Segs
      BY <2>3
    <3>2. HeldBy(n, op[u]) = HeldBy(seg, op[u])
      BY <1>3, <3>1, OpKept
    <3>3. \A y \in HeldBy(n, op[u]) : n[y].life = "live"
      BY <2>2, <2>5, <3>1, <3>2 DEF OpTidy
    <3>4. op[u].pc \in {"scan", "clear", "tree"} => n[op[u].seg].freed
      BY <2>5, <3>1 DEF OpTidy, OpGood
    <3>5. op[u].pc = "clear" => n[n[op[u].seg].parent].kids[op[u].slot] = op[u].seg
      BY <1>2, <2>5, <3>1 DEF OpTidy, OpGood, LinkOK
    <3> QED
      BY <3>3, <3>4, <3>5 DEF OpTidy
  <2>9. ASSUME NEW d \in Detached(n)
        PROVE  Kids(n, d) = {} /\ \E u \in Threads \ {t} : LooseBy(u, d)
    <3>1. d \in Detached(seg) /\ d # s /\ d \in Segs
      <4>1. d \in Segs \ {Root} /\ n[d].life = "live" /\ d \notin Kids(n, n[d].parent)
        BY DEF Detached
      <4>2. seg[d].life = "live" /\ d # s
        BY <2>5, <4>1
      <4>3. seg[d].parent \in Segs
        BY <2>3, <4>1, <4>2 DEF TreeBase
      <4> QED
        BY <2>5, <2>6, <4>1, <4>2, <4>3 DEF Detached
    <3>2. PICK u \in Threads : LooseBy(u, d)
      BY <2>3, <3>1 DEF DetachedOK
    <3>3. u # t
      BY <3>1, <3>2 DEF LooseBy, s
    <3> QED
      BY <2>3, <2>6, <3>1, <3>2, <3>3 DEF DetachedOK
  <2> QED
    BY <2>3, <2>7, <2>8, <2>9
<1>7. op[t].pc \in {"free", "scan", "clear", "tree"} /\ Idle.pc # "alloc"
  BY <1>1, <1>4
<1> QED
  BY <1>1, <1>3, <1>4, <1>5, <1>6, <1>7, FreeStep

LEMMA StepVmFree == ASSUME IInv, VmFree PROVE IInv'
<1> DEFINE all == Reach(seg, Root)
           n == FreeTree(Flagged(seg, all), Root)
<1>1. /\ ub = "none" /\ phase \in {"run", "failed"}
      /\ \A t \in Threads : op[t].pc = "idle"
      /\ IF \E s \in all : seg[s].life = "freed" THEN ub' = "use_after_free" /\ UNCHANGED seg
         ELSE seg' = n /\ UNCHANGED ub
      /\ phase' = "freed"
      /\ untidy' = (untidy \/ \E s \in all : seg[s].life = "live" /\ Hidden(seg, s))
      /\ UNCHANGED <<prog, data, placed, op, seen, last, wrong>>
  BY DEF VmFree, Flagged
<1>2. seg \in Trees /\ LinkOK(seg) /\ untidy \in BOOLEAN /\ Root \in Segs /\ seg[Root].life # "unborn"
  BY SegTrees, MmuOK DEF IInv, TypeOK, LinkOK
<1>3. n \in Trees /\ LinkOK(n) /\ \A x \in Segs : n[x].life = "unborn" <=> seg[x].life = "unborn"
  <2> DEFINE w == Flagged(seg, all)
  <2>1. w \in Trees /\ LinkOK(w)
    BY <1>2, FlaggedLinks
  <2>2. FlagEffect(seg, w, all)
    BY <1>2, FlaggedFields
  <2> HIDE DEF w
  <2>3. \A x \in Segs : w[x].life = seg[x].life
    BY <2>2 DEF FlagEffect
  <2>4. w[Root].life # "unborn"
    BY <1>2, <2>3
  <2> DEFINE y == FreeTree(w, Root)
  <2>5. y \in Trees /\ LinkOK(y) /\ \A x \in Segs : y[x].life = "unborn" <=> w[x].life = "unborn"
    BY <1>2, <2>1, <2>4, FreeTreeLinks
  <2> HIDE DEF y
  <2>6. y \in Trees /\ LinkOK(y) /\ \A x \in Segs : y[x].life = "unborn" <=> seg[x].life = "unborn"
    BY <2>3, <2>5
  <2> QED
    BY <2>6 DEF y, w
<1> HIDE DEF n, all
<1>4. seg' = seg \/ seg' = n
  BY <1>1
<1>5. ub' \in {"none", "use_after_free"} /\ untidy' \in BOOLEAN
  BY <1>1, <1>2
<1>6. TypeOK'
  BY <1>1, <1>2, <1>3, <1>4, <1>5 DEF IInv, TypeOK, Trees
<1>7. LinkOK(seg)' /\ OpsOK' /\ LockOK' /\ SeenOK'
  <2>1. LinkOK(seg') /\ \A x \in Segs : seg'[x].life = "unborn" <=> seg[x].life = "unborn"
    BY <1>2, <1>3, <1>4
  <2>2. OpsOK'
    <3> SUFFICES ASSUME NEW t \in Threads PROVE OpGood(seg', op[t])
      BY <1>1 DEF OpsOK
    <3>1. op[t] \in OpRec /\ OpGood(seg, op[t]) /\ op[t].pc = "idle"
      BY <1>1, SegTrees DEF IInv, OpsOK
    <3>2. \A i \in DOMAIN op[t].path : op[t].path[i].at \in Segs
      BY <3>1, OpFields, PathIs
    <3> QED
      BY <2>1, <3>1, <3>2 DEF OpGood
  <2>3. LockOK'
    BY <1>1 DEF LockOK
  <2>4. SeenOK'
    <3> SUFFICES ASSUME NEW s \in Segs, NEW i \in Slots, seen[s][i] # NULL
                 PROVE  seg'[seen[s][i]].life # "unborn"
      BY <1>1 DEF SeenOK
    <3>1. seg[seen[s][i]].life # "unborn"
      BY DEF IInv, SeenOK
    <3> QED
      BY <2>1, <3>1, SeenIs DEF IInv
  <2> QED
    BY <2>1, <2>2, <2>3, <2>4
<1>8. ASSUME ~untidy' PROVE ub' = "none" /\ \A x \in Segs : seg'[x].life # "live"
  <2>1. ~untidy /\ \A s \in all : seg[s].life = "live" => ~Hidden(seg, s)
    BY <1>1, <1>8
  <2>2. TreeOK(seg)
    <3>1. TreeBase(seg) /\ DetachedOK
      BY <1>1, <2>1 DEF IInv, TidyOK
    <3>2. Detached(seg) = {}
      BY <1>1, <3>1 DEF DetachedOK, LooseBy
    <3> QED
      BY <3>1, <3>2, BaseIsTree
  <2>3. all = {s \in Segs : seg[s].life = "live"}
    BY <1>2, <2>2, ReachIsLive DEF all
  <2>4. \A s \in all : Kids(seg, s) \subseteq PrefixKids(seg, s)
    BY <2>1, <2>3 DEF Hidden, PrefixKids
  <2>5. \A x \in Segs : FreeTree(Flagged(seg, all), Root)[x].life # "live"
    BY <1>2, <2>2, <2>3, <2>4, EndFreesAll
  <2>6. seg' = n /\ ub' = ub
    BY <1>1, <2>3
  <2> QED
    BY <1>1, <2>5, <2>6 DEF n
<1>9. TidyOK' /\ NoUseAfterFree'
  BY <1>1, <1>8 DEF TidyOK, NoUseAfterFree
<1> QED
  BY <1>6, <1>7, <1>9 DEF IInv

LEMMA StepAllocOp ==
  ASSUME IInv, NEW t \in Threads, NEW size \in Sizes, AllocOp(t, size) PROVE IInv'
<1> DEFINE o == [Idle EXCEPT !.pc = "alloc", !.size = size]
<1>1. /\ UNCHANGED <<prog, seg, data, phase, placed, ub, last, wrong>>
      /\ phase = "run" /\ ub = "none" /\ op' = [op EXCEPT ![t] = o]
      /\ (\A u \in Threads : op[u].pc # "alloc") /\ \E c \in Segs : Unborn(c)
      /\ seen' = [s \in Segs |-> seg[s].kids]
      /\ untidy' = (untidy \/ \E u \in Threads : Freeing(u))
  BY DEF AllocOp, Ready, Unlocked
<1>2. seg \in Trees /\ LinkOK(seg) /\ op \in [Threads -> OpRec] /\ untidy \in BOOLEAN
  BY SegTrees, Unwritten DEF IInv
<1>3. o \in OpRec /\ o.pc = "alloc" /\ o.path = <<>> /\ o.seg = NULL
  <2> DEFINE x == [Idle EXCEPT !.pc = "alloc"]
  <2>1. o = [x EXCEPT !.size = size] /\ size \in Addrs
    BY MmuOK
  <2>2. x \in OpRec /\ x.pc = "alloc" /\ x.path = <<>> /\ x.seg = NULL
    <3>1. Idle \in OpRec /\ Idle.path = <<>> /\ Idle.seg = NULL
      BY IdleIs
    <3> QED
      BY <3>1 DEF OpRec
  <2> HIDE DEF x, o
  <2> QED
    BY <2>1, <2>2 DEF OpRec
<1> HIDE DEF o
<1>4. /\ op' \in [Threads -> OpRec] /\ op'[t] = o
      /\ \A u \in Threads : u # t => op'[u] = op[u]
  BY <1>1, <1>2, <1>3
<1>5. OpGood(seg, o) /\ HeldBy(seg, o) = {} /\ OpTidy(seg, o)
  <2>1. HeldBy(seg, o) = {}
    BY <1>3 DEF HeldBy
  <2> QED
    BY <1>3, <2>1 DEF OpGood, OpTidy
<1>6. \A s \in Segs : seen'[s] = seg[s].kids /\ seen'[s] \in [Slots -> Segs \cup {NULL}]
  BY <1>1, <1>2, SegFields
<1>7. TypeOK'
  <2>1. seen' \in [Segs -> [1 .. Width -> Segs \cup {NULL}]]
    BY <1>1, <1>6 DEF Slots
  <2>2. untidy' \in BOOLEAN
    BY <1>1, <1>2
  <2> QED
    BY <1>1, <1>4, <2>1, <2>2 DEF IInv, TypeOK
<1>8. LinkOK(seg)' /\ NoUseAfterFree'
  BY <1>1, <1>2 DEF NoUseAfterFree
<1>9. OpsOK'
  BY <1>1, <1>4, <1>5 DEF IInv, OpsOK
<1>10. LockOK'
  <2>1. \A u \in Threads : op'[u].pc = "alloc" => u = t
    BY <1>1, <1>4
  <2>2. \E s \in Segs : Unborn(s)'
    BY <1>1 DEF Unborn
  <2> QED
    BY <2>1, <2>2 DEF LockOK
<1>11. SeenOK'
  <2> SUFFICES ASSUME NEW s \in Segs, NEW i \in Slots, seen'[s][i] # NULL
               PROVE  seg[seen'[s][i]].life # "unborn"
    BY <1>1 DEF SeenOK
  <2>1. seen'[s][i] \in Kids(seg, s)
    BY <1>2, <1>6, KidsAre
  <2> QED
    BY <1>2, <2>1 DEF LinkOK
<1>12. TidyOK'
  <2> SUFFICES ASSUME ~untidy'
               PROVE  /\ TreeBase(seg) /\ NestOK(seg) /\ DetachedOK' /\ AllocAlone'
                      /\ \A u \in Threads : OpTidy(seg, op'[u])
    BY <1>1 DEF TidyOK
  <2>1. ~untidy /\ \A u \in Threads : ~Freeing(u)
    BY <1>1
  <2>2. TreeBase(seg) /\ NestOK(seg) /\ DetachedOK /\ \A u \in Threads : OpTidy(seg, op[u])
    BY <1>1, <2>1 DEF IInv, TidyOK
  <2>3. Detached(seg) = {}
    BY <2>1, <2>2 DEF DetachedOK, LooseBy, Freeing
  <2>4. DetachedOK'
    BY <1>1, <2>3 DEF DetachedOK
  <2>5. AllocAlone'
    <3>1. \A u \in Threads : ~Freeing(u)'
      BY <1>3, <1>4, <2>1 DEF Freeing
    <3> QED
      BY <1>1, <1>6, <3>1 DEF AllocAlone
  <2> QED
    BY <1>4, <1>5, <2>2, <2>4, <2>5
<1> QED
  BY <1>7, <1>8, <1>9, <1>10, <1>11, <1>12 DEF IInv

LEMMA AllocIs ==
  ASSUME NEW m, NEW c, NEW size, NEW base, NEW literal
  PROVE  Alloc(m, c, size, base, literal) = Insert(Claimed(m, c, size, literal), Root, c, base, ~literal)
BY DEF Alloc, Claimed

\* What an allocation gives the steps that make one.
LEMMA AllocKeeps ==
  ASSUME NEW m \in Trees, LinkOK(m), NEW c \in Segs, m[c].life = "unborn",
         NEW size \in Addrs, NEW base \in Addrs, NEW literal \in BOOLEAN
  PROVE  LET x == Alloc(m, c, size, base, literal) IN
         /\ x \in Outcomes
         /\ x.result = "ok" =>
              /\ LinkOK(x.tree)
              /\ \A s \in Segs : x.tree[s].life = IF s = c THEN "live" ELSE m[s].life
              /\ TreeOK(m) /\ NestOK(m) => TreeOK(x.tree) /\ NestOK(x.tree)
<1> DEFINE x == Alloc(m, c, size, base, literal)
           w == Insert(Claimed(m, c, size, literal), Root, c, base, ~literal)
<1>1. x = w
  BY AllocIs
<1>2. /\ w \in Outcomes
      /\ w.result = "ok" => /\ LinkOK(w.tree)
                            /\ \A s \in Segs : w.tree[s].life = IF s = c THEN "live" ELSE m[s].life
  BY AllocLinks
<1>3. TreeOK(m) /\ NestOK(m) => (w.result = "ok" => TreeOK(w.tree) /\ NestOK(w.tree))
  BY AllocTree
<1> HIDE DEF x, w
<1>4. /\ x \in Outcomes
      /\ x.result = "ok" =>
           /\ LinkOK(x.tree)
           /\ \A s \in Segs : x.tree[s].life = IF s = c THEN "live" ELSE m[s].life
           /\ TreeOK(m) /\ NestOK(m) => TreeOK(x.tree) /\ NestOK(x.tree)
  BY <1>1, <1>2, <1>3
<1> QED
  BY <1>4 DEF x

LEMMA StaleIs ==
  ASSUME IInv, NEW S \in SUBSET Segs
  PROVE  /\ Stale(S) \in Trees /\ LinkOK(Stale(S))
         /\ \A s \in Segs : Stale(S)[s].life = seg[s].life
         /\ S = {} => Stale(S) = seg
<1> DEFINE n == Stale(S)
<1>1. seg \in Trees /\ LinkOK(seg)
  BY SegTrees DEF IInv
<1>2. ASSUME NEW s \in Segs
      PROVE  /\ n[s] \in SegRec /\ n[s].life = seg[s].life
             /\ n[s].parent = seg[s].parent /\ n[s].litSz = seg[s].litSz
             /\ n[s].kids = IF s \in S THEN seen[s] ELSE seg[s].kids
  <2>1. n[s] = IF s \in S THEN [seg[s] EXCEPT !.kids = seen[s]] ELSE seg[s]
    BY DEF Stale
  <2>2. seen[s] \in [1 .. Width -> Segs \cup {NULL}]
    BY DEF IInv, TypeOK
  <2>3. seg[s] \in SegRec
    BY <1>1, SegFields
  <2> HIDE DEF n
  <2> QED
    BY <2>1, <2>2, <2>3 DEF SegRec
<1>3. n = [s \in Segs |-> n[s]]
  BY DEF Stale
<1>4. S = {} => n = seg
  BY <1>1 DEF Stale, Trees
<1> HIDE DEF n
<1>5. n \in Trees
  BY <1>2, <1>3 DEF Trees
<1>6. ASSUME NEW s \in Segs, NEW k \in Kids(n, s) PROVE n[k].life # "unborn"
  <2>1. k \in Segs /\ k # NULL /\ \E i \in Slots : n[s].kids[i] = k
    BY <1>5, KidsAre
  <2>2. PICK i \in Slots : n[s].kids[i] = k
    BY <2>1
  <2>3. CASE s \in S
    <3>1. seen[s][i] = k
      BY <1>2, <2>2, <2>3
    <3> QED
      BY <1>2, <2>1, <3>1 DEF IInv, SeenOK
  <2>4. CASE s \notin S
    <3>1. k \in Kids(seg, s)
      BY <1>1, <1>2, <2>1, <2>2, <2>4, KidsAre
    <3> QED
      BY <1>1, <1>2, <2>1, <3>1 DEF LinkOK
  <2> QED
    BY <2>3, <2>4
<1>7. LinkOK(n)
  BY <1>1, <1>2, <1>6, MmuOK DEF LinkOK
<1> QED
  BY <1>2, <1>4, <1>5, <1>7 DEF n

LEMMA OpGoodKept ==
  ASSUME NEW m, NEW n, NEW o \in OpRec, OpGood(m, o),
         \A x \in Segs : n[x].life = "unborn" => m[x].life = "unborn"
  PROVE  OpGood(n, o)
<1>1. \A i \in DOMAIN o.path : o.path[i].at \in Segs
  BY OpFields, PathIs
<1> QED
  BY <1>1 DEF OpGood

LEMMA AncestorsAre == ASSUME NEW m \in Trees, NEW c \in Segs PROVE Ancestors(m, c) \in SUBSET Segs
<1> DEFINE next == [r \in Segs |-> {m[r].parent} \ {NULL}]
<1>1. \A r \in Segs : m[r].parent \in Segs \cup {NULL}
  BY SegFields
<1>2. next \in [Segs -> SUBSET Segs]
  BY <1>1
<1>3. Ancestors(m, c) = From(next, c)
  BY DEF Ancestors
<1> HIDE DEF next
<1> QED
  BY <1>2, <1>3, FromIs

\* With no FREE under way what a thread has does not depend on the tree.
LEMMA NotFreeing ==
  ASSUME NEW m, NEW n, NEW o, OpTidy(m, o), o.pc \notin {"scan", "clear", "tree"},
         \A x \in HeldBy(m, o) : m[x].life = "live" => n[x].life = "live"
  PROVE  OpTidy(n, o) /\ HeldBy(n, o) = HeldBy(m, o)
<1>1. HeldBy(n, o) = HeldBy(m, o)
  BY DEF HeldBy
<1> QED
  BY <1>1 DEF OpTidy

LEMMA StepAllocDone == ASSUME IInv, NEW t \in Threads, AllocDone(t) PROVE IInv'
<1> DEFINE c == Fresh
           size == op[t].size
<1>1. /\ UNCHANGED <<prog, data, phase, placed, wrong, untidy>>
      /\ phase = "run" /\ ub = "none" /\ op[t].pc = "alloc"
      /\ op' = [op EXCEPT ![t] = Idle] /\ seen' = Unseen
  BY DEF AllocDone, Ready, Rest
<1>2. PICK S \in SUBSET {s \in Segs : seg[s].kids # seen[s]} :
        LET r  == Alloc(Stale(S), c, size, 0, TRUE)
            up == Ancestors(r.tree, c)
        IN  IF r.result # "ok" THEN UNCHANGED <<seg, last, ub>>
            ELSE IF \E s \in up : \E k \in Kids(r.tree, s) : r.tree[k].life = "freed"
            THEN ub' = "use_after_free" /\ UNCHANGED <<seg, last>>
            ELSE seg' = r.tree /\ Forget(r.tree[c]) /\ UNCHANGED ub
  BY DEF AllocDone
<1> DEFINE m == Stale(S)
           r == Alloc(m, c, size, 0, TRUE)
           up == Ancestors(r.tree, c)
<1>3. \/ UNCHANGED <<seg, last, ub>>
      \/ /\ r.result = "ok" /\ \E s \in up : \E k \in Kids(r.tree, s) : r.tree[k].life = "freed"
         /\ ub' = "use_after_free" /\ UNCHANGED <<seg, last>>
      \/ r.result = "ok" /\ seg' = r.tree /\ Forget(r.tree[c]) /\ UNCHANGED ub
  BY <1>2
<1>4. /\ seg \in Trees /\ op \in [Threads -> OpRec] /\ size \in Addrs /\ 0 \in Addrs
      /\ LinkOK(seg) /\ S \in SUBSET Segs
  BY SegTrees, OpFields, MmuOK DEF IInv, Addrs
<1>5. c \in Segs /\ seg[c].life = "unborn"
  <2>1. \E s \in Segs : Unborn(s)
    BY <1>1 DEF IInv, LockOK
  <2> QED
    BY <2>1 DEF Fresh, Unborn
<1>6. m \in Trees /\ LinkOK(m) /\ (\A s \in Segs : m[s].life = seg[s].life) /\ (S = {} => m = seg)
  BY <1>4, StaleIs
<1> HIDE DEF m, c, size
<1>7. /\ r \in Outcomes
      /\ r.result = "ok" =>
           /\ LinkOK(r.tree)
           /\ \A s \in Segs : r.tree[s].life = IF s = c THEN "live" ELSE m[s].life
           /\ TreeOK(m) /\ NestOK(m) => TreeOK(r.tree) /\ NestOK(r.tree)
  <2>1. m[c].life = "unborn"
    BY <1>5, <1>6
  <2> QED
    BY <1>4, <1>5, <1>6, <2>1, AllocKeeps
<1> HIDE DEF r
<1>8. r.tree \in Trees /\ up \in SUBSET Segs
  BY <1>5, <1>7, AncestorsAre DEF Outcomes
<1> HIDE DEF up
<1>9. seg' \in Trees /\ LinkOK(seg') /\ \A s \in Segs : seg'[s].life = "unborn" => seg[s].life = "unborn"
  BY <1>3, <1>4, <1>6, <1>7, <1>8
<1>10. last' \in [Addrs -> Vals \cup {NULL}]
  <2>1. last \in [Addrs -> Vals \cup {NULL}]
    BY Unwritten DEF IInv
  <2> QED
    BY <1>3, <2>1 DEF Forget
<1>11. /\ op' \in [Threads -> OpRec] /\ op'[t] = Idle
       /\ \A u \in Threads : u # t => op'[u] = op[u]
  BY <1>1, <1>4, IdleIs
<1>12. (\A s \in Segs, i \in Slots : Unseen[s][i] = NULL)
       /\ Unseen \in [Segs -> [1 .. Width -> Segs \cup {NULL}]]
  BY DEF Unseen, Empty, Slots
<1>13. ub' \in {"none", "use_after_free"}
  BY <1>1, <1>3
<1>14. TypeOK'
  BY <1>1, <1>9, <1>10, <1>11, <1>12, <1>13 DEF IInv, TypeOK, Trees
<1>15. OpsOK'
  <2> SUFFICES ASSUME NEW u \in Threads PROVE OpGood(seg', op'[u])
    BY <1>1 DEF OpsOK
  <2>1. CASE u = t
    BY <1>11, <2>1, IdleHolds
  <2>2. CASE u # t
    <3>1. op[u] \in OpRec /\ OpGood(seg, op[u]) /\ op'[u] = op[u]
      BY <1>4, <1>11, <2>2 DEF IInv, OpsOK
    <3> QED
      BY <1>9, <3>1, OpGoodKept
  <2> QED
    BY <2>1, <2>2
<1>16. LockOK'
  <2>1. \A u \in Threads : u # t => op[u].pc # "alloc"
    BY <1>1 DEF IInv, LockOK
  <2>2. \A u \in Threads : op'[u].pc # "alloc"
    BY <1>11, <2>1, IdleIs
  <2> QED
    BY <2>2 DEF LockOK
<1>17. SeenOK'
  BY <1>1, <1>12 DEF SeenOK
<1>18. ASSUME ~untidy
       PROVE  /\ ub' = "none" /\ TreeOK(seg') /\ NestOK(seg')
              /\ \A u \in Threads : ~Freeing(u) /\ OpTidy(seg', op'[u])
  <2>1. /\ TreeBase(seg) /\ NestOK(seg) /\ DetachedOK /\ AllocAlone
        /\ \A u \in Threads : OpTidy(seg, op[u])
    BY <1>1, <1>18 DEF IInv, TidyOK
  <2>2. (\A u \in Threads : ~Freeing(u)) /\ \A s \in Segs : seen[s] = seg[s].kids
    BY <1>1, <2>1 DEF AllocAlone
  <2>3. TreeOK(seg)
    <3>1. Detached(seg) = {}
      BY <2>1, <2>2 DEF DetachedOK, LooseBy, Freeing
    <3> QED
      BY <2>1, <3>1, BaseIsTree
  <2>4. m = seg
    BY <1>6, <2>2
  <2>5. r.result = "ok" => TreeOK(r.tree) /\ NestOK(r.tree)
    BY <1>7, <2>1, <2>3, <2>4
  <2>6. r.result = "ok" => \A s \in up : \A k \in Kids(r.tree, s) : r.tree[k].life # "freed"
    BY <1>8, <2>5 DEF TreeOK
  <2>7. UNCHANGED ub /\ (seg' = seg \/ (r.result = "ok" /\ seg' = r.tree))
    BY <1>3, <2>6
  <2>8. TreeOK(seg') /\ NestOK(seg')
    BY <2>1, <2>3, <2>5, <2>7
  <2>9. \A x \in Segs : seg[x].life = "live" => seg'[x].life = "live"
    BY <1>6, <1>7, <2>7
  <2>10. ASSUME NEW u \in Threads PROVE OpTidy(seg', op'[u])
    <3>1. CASE u = t
      BY <1>11, <3>1, IdleHolds
    <3>2. CASE u # t
      <4>1. op[u] \in OpRec /\ OpGood(seg, op[u]) /\ op'[u] = op[u]
        BY <1>4, <1>11, <3>2 DEF IInv, OpsOK
      <4>2. \A x \in HeldBy(seg, op[u]) : seg[x].life = "live" => seg'[x].life = "live"
        BY <1>4, <2>9, <4>1, HeldAreSegs
      <4>3. op[u].pc \notin {"scan", "clear", "tree"}
        BY <2>2 DEF Freeing
      <4> QED
        BY <2>1, <4>1, <4>2, <4>3, NotFreeing
    <3> QED
      BY <3>1, <3>2
  <2> QED
    BY <1>1, <2>2, <2>7, <2>8, <2>10
<1>19. TidyOK'
  <2> SUFFICES ASSUME ~untidy
               PROVE  /\ TreeBase(seg') /\ NestOK(seg') /\ DetachedOK' /\ AllocAlone'
                      /\ \A u \in Threads : OpTidy(seg', op'[u])
    BY <1>1 DEF TidyOK
  <2>1. TreeBase(seg') /\ Detached(seg') = {} /\ NestOK(seg') /\ \A u \in Threads : OpTidy(seg', op'[u])
    BY <1>18, BaseIsTree
  <2>2. DetachedOK'
    BY <2>1 DEF DetachedOK
  <2>3. \A u \in Threads : op'[u].pc # "alloc"
    BY <1>1, <1>11, IdleIs DEF IInv, LockOK
  <2>4. AllocAlone'
    BY <2>3 DEF AllocAlone
  <2> QED
    BY <2>1, <2>2, <2>4
<1>20. NoUseAfterFree'
  BY <1>1, <1>18 DEF NoUseAfterFree
<1> QED
  BY <1>9, <1>14, <1>15, <1>16, <1>17, <1>19, <1>20 DEF IInv

LEMMA StepLoadDone == IInv /\ LoadDone => IInv'
<1> SUFFICES ASSUME IInv, LoadDone PROVE IInv'
  OBVIOUS
<1>1. /\ UNCHANGED <<prog, seg, data, placed, op, seen, ub, last, wrong, untidy>>
      /\ phase = "load" /\ phase' = "run" /\ ub = "none"
  BY DEF LoadDone
<1>2. TypeOK'
  BY <1>1 DEF IInv, TypeOK
<1>3. LinkOK(seg)' /\ OpsOK' /\ LockOK' /\ SeenOK' /\ NoUseAfterFree'
  BY <1>1 DEF IInv, OpsOK, LockOK, Unborn, SeenOK, NoUseAfterFree
<1>4. DetachedOK' = DetachedOK /\ AllocAlone' = AllocAlone
  BY <1>1 DEF DetachedOK, LooseBy, AllocAlone, Freeing
<1>5. TidyOK'
  BY <1>1, <1>4 DEF IInv, TidyOK
<1> QED
  BY <1>2, <1>3, <1>5 DEF IInv

\* The invariant after a step of the loader.
LEMMA GrowKeeps ==
  ASSUME IInv, ub = "none", phase = "load", phase' # "freed", op' = op, untidy' = untidy, seen' = seen,
         ub' \in {"none", "stack_overflow"}, TypeOK', LinkOK(seg'),
         \A s \in Segs : seg'[s].life = "unborn" => seg[s].life = "unborn",
         ~untidy => TreeOK(seg') /\ NestOK(seg')
  PROVE  IInv'
<1>1. \A t \in Threads : op[t] = Idle /\ op[t].pc = "idle"
  BY IdleIs DEF IInv, OpsOK
<1>2. OpsOK' /\ LockOK'
  BY <1>1, IdleHolds DEF OpsOK, LockOK
<1>3. SeenOK'
  <2> SUFFICES ASSUME NEW s \in Segs, NEW i \in Slots, seen[s][i] # NULL
               PROVE  seg'[seen[s][i]].life # "unborn"
    BY DEF SeenOK
  <2>1. seg[seen[s][i]].life # "unborn"
    BY DEF IInv, SeenOK
  <2> QED
    BY <2>1, SeenIs DEF IInv
<1>4. TidyOK'
  <2> SUFFICES ASSUME ~untidy
               PROVE  /\ TreeBase(seg') /\ NestOK(seg') /\ DetachedOK' /\ AllocAlone'
                      /\ \A t \in Threads : OpTidy(seg', op'[t])
    BY DEF TidyOK
  <2>1. TreeBase(seg') /\ Detached(seg') = {} /\ NestOK(seg')
    BY BaseIsTree
  <2>2. DetachedOK'
    BY <2>1 DEF DetachedOK
  <2>3. AllocAlone' /\ \A t \in Threads : OpTidy(seg', op'[t])
    BY <1>1, IdleHolds DEF AllocAlone
  <2> QED
    BY <2>1, <2>2, <2>3
<1>5. NoUseAfterFree'
  BY DEF NoUseAfterFree
<1> QED
  BY <1>2, <1>3, <1>4, <1>5 DEF IInv

LEMMA LockedFields ==
  ASSUME NEW m \in Trees, NEW c \in Segs, NEW b \in BOOLEAN
  PROVE  LET n == [m EXCEPT ![c].locked = b] IN
         n \in Trees /\ SameTree(m, n) /\ \A x \in Segs : n[x].life = m[x].life
<1> DEFINE r == [m[c] EXCEPT !.locked = b]
           n == [m EXCEPT ![c].locked = b]
<1>1. n = [m EXCEPT ![c] = r]
  BY DEF Trees
<1>2. /\ r \in SegRec /\ r.life = m[c].life /\ r.kids = m[c].kids /\ r.parent = m[c].parent
      /\ r.litSz = m[c].litSz /\ r.lo = m[c].lo /\ r.hi = m[c].hi
  BY SegFields DEF SegRec
<1> HIDE DEF r, n
<1>3. n \in Trees /\ n[c] = r /\ \A x \in Segs : x # c => n[x] = m[x]
  BY <1>1, <1>2 DEF Trees
<1>4. n \in Trees /\ SameTree(m, n) /\ \A x \in Segs : n[x].life = m[x].life
  BY <1>2, <1>3 DEF SameTree
<1> QED
  BY <1>4 DEF n

LEMMA StepLoadSegment == ASSUME IInv, NEW v \in Vals, LoadSegment(v) PROVE IInv'
<1> DEFINE spec == prog[placed + 1]
           new  == {s \in Segs : Unborn(s)}
           c    == Fresh
           r    == IF new = {} \/ spec.size = 0 THEN [result |-> "fail", tree |-> seg]
                   ELSE Alloc(seg, c, spec.size, spec.base, spec.literal)
           h    == Locate(r.tree, Root, spec.base)
           o    == [seg |-> h, addr |-> spec.base, size |-> spec.size]
           fits == /\ h \notin {NULL, "dangling"} /\ ~r.tree[h].locked
                   /\ ContainsLiteral(r.tree[h], spec.base, spec.size)
           lock == spec.literal /\ fits /\ spec.locked
<1>1. /\ ub = "none" /\ phase = "load" /\ placed < Len(prog)
      /\ seg' = IF r.result = "ok" THEN [r.tree EXCEPT ![c].locked = lock] ELSE seg
      /\ IF r.result = "ok" /\ spec.literal /\ fits
         THEN /\ data' = [data EXCEPT ![h] = [i \in Addrs |-> IF i \in Offsets(r.tree, o) THEN v ELSE @[i]]]
              /\ last' = [a \in Addrs |-> IF a \in Touched(o) THEN v ELSE last[a]]
         ELSE UNCHANGED <<data, last>>
      /\ IF r.result = "ok" /\ (spec.literal => fits)
         THEN placed' = placed + 1 /\ UNCHANGED phase
         ELSE phase' = "failed" /\ UNCHANGED placed
      /\ ub' = IF r.result = "overflow" THEN "stack_overflow" ELSE ub
      /\ UNCHANGED <<prog, op, seen, wrong, untidy>>
  BY DEF LoadSegment
<1>2. /\ prog \in Seq([size : Addrs, base : Addrs, literal : BOOLEAN, locked : BOOLEAN])
      /\ placed \in 0 .. Len(prog)
  BY MmuOK DEF IInv, TypeOK
<1>3. placed + 1 \in 1 .. Len(prog) /\ Len(prog) \in Nat
      /\ prog[placed + 1] \in [size : Addrs, base : Addrs, literal : BOOLEAN, locked : BOOLEAN]
  <2> DEFINE S == [size : Addrs, base : Addrs, literal : BOOLEAN, locked : BOOLEAN]
  <2>1. prog \in Seq(S) /\ placed \in 0 .. Len(prog) /\ placed < Len(prog)
    BY <1>1, <1>2
  <2> HIDE DEF S
  <2>2. Len(prog) \in Nat /\ placed + 1 \in 1 .. Len(prog)
    BY <2>1
  <2>3. prog[placed + 1] \in S
    BY <2>1, <2>2
  <2> QED
    BY <2>2, <2>3 DEF S
<1>4. spec.size \in Addrs /\ spec.base \in Addrs /\ spec.literal \in BOOLEAN
  <2>1. spec \in [size : Addrs, base : Addrs, literal : BOOLEAN, locked : BOOLEAN]
    BY <1>3
  <2> HIDE DEF spec
  <2> QED
    BY <2>1
<1>5. lock \in BOOLEAN
  OBVIOUS
<1>6. new # {} => c \in Segs /\ seg[c].life = "unborn"
  BY DEF Fresh, Unborn
<1>7. seg \in Trees /\ LinkOK(seg) /\ (~untidy => TreeOK(seg) /\ NestOK(seg))
  <2>1. ASSUME ~untidy PROVE TreeOK(seg) /\ NestOK(seg)
    <3>1. TreeBase(seg) /\ NestOK(seg) /\ DetachedOK
      BY <1>1, <2>1 DEF IInv, TidyOK
    <3>2. \A t \in Threads : op[t].pc = "idle"
      BY <1>1, IdleIs DEF IInv, OpsOK
    <3>3. Detached(seg) = {}
      BY <3>1, <3>2 DEF DetachedOK, LooseBy
    <3> QED
      BY <3>1, <3>3, BaseIsTree
  <2> QED
    BY <2>1, SegTrees DEF IInv
<1> HIDE DEF spec, c, lock
<1>8. /\ r \in Outcomes
      /\ r.result = "ok" =>
           /\ LinkOK(r.tree) /\ c \in Segs
           /\ \A s \in Segs : r.tree[s].life = "unborn" => seg[s].life = "unborn"
           /\ ~untidy => TreeOK(r.tree) /\ NestOK(r.tree)
  <2>1. CASE new = {} \/ spec.size = 0
    <3>1. r = [result |-> "fail", tree |-> seg]
      BY <2>1
    <3> QED
      BY <1>7, <3>1 DEF Outcomes
  <2>2. CASE ~(new = {} \/ spec.size = 0)
    <3> DEFINE x == Alloc(seg, c, spec.size, spec.base, spec.literal)
    <3>1. r = x /\ c \in Segs /\ seg[c].life = "unborn"
      BY <1>6, <2>2
    <3>2. /\ x \in Outcomes
          /\ x.result = "ok" => /\ LinkOK(x.tree)
                                /\ \A s \in Segs : x.tree[s].life = IF s = c THEN "live" ELSE seg[s].life
                                /\ TreeOK(seg) /\ NestOK(seg) => TreeOK(x.tree) /\ NestOK(x.tree)
      BY <1>4, <1>7, <3>1, AllocKeeps
    <3> HIDE DEF x, r
    <3> QED
      BY <1>7, <3>1, <3>2
  <2> QED
    BY <2>1, <2>2
<1> HIDE DEF r
<1>9. h \in Found
  BY <1>8, LocateFinds, MmuOK DEF Outcomes
<1>10. data' \in [Segs -> [Addrs -> Vals \cup {NULL}]] /\ last' \in [Addrs -> Vals \cup {NULL}]
  <2>1. data \in [Segs -> [Addrs -> Vals \cup {NULL}]] /\ last \in [Addrs -> Vals \cup {NULL}]
    BY DEF IInv, TypeOK
  <2>2. CASE r.result = "ok" /\ spec.literal /\ fits
    <3>1. h \in Segs
      BY <1>9, <2>2 DEF Found
    <3>2. /\ data' = [data EXCEPT ![h] = [i \in Addrs |-> IF i \in Offsets(r.tree, o) THEN v ELSE @[i]]]
          /\ last' = [a \in Addrs |-> IF a \in Touched(o) THEN v ELSE last[a]]
      BY <1>1, <2>2
    <3> HIDE DEF h, o
    <3> QED
      BY <2>1, <3>1, <3>2
  <2>3. CASE ~(r.result = "ok" /\ spec.literal /\ fits)
    <3>1. UNCHANGED <<data, last>>
      BY <1>1, <2>3
    <3> QED
      BY <2>1, <3>1
  <2> QED
    BY <2>2, <2>3
<1> HIDE DEF h, o, fits
<1>11. /\ phase' \in {"load", "failed"} /\ placed' \in 0 .. Len(prog)
       /\ ub' \in {"none", "stack_overflow"}
  BY <1>1, <1>2, <1>3
<1>12. /\ seg' \in Trees /\ LinkOK(seg')
       /\ \A s \in Segs : seg'[s].life = "unborn" => seg[s].life = "unborn"
       /\ ~untidy => TreeOK(seg') /\ NestOK(seg')
  <2>1. CASE r.result = "ok"
    <3>1. seg' = [r.tree EXCEPT ![c].locked = lock]
      BY <1>1, <2>1
    <3>2. r.tree \in Trees /\ c \in Segs
      BY <1>8, <2>1 DEF Outcomes
    <3>3. seg' \in Trees /\ SameTree(r.tree, seg') /\ \A x \in Segs : seg'[x].life = r.tree[x].life
      BY <1>5, <3>1, <3>2, LockedFields
    <3>4. LinkOK(r.tree) => LinkOK(seg')
      BY <3>2, <3>3, SameShape
    <3>5. TreeOK(r.tree) /\ NestOK(r.tree) => TreeOK(seg') /\ NestOK(seg')
      BY <3>2, <3>3, SameShape
    <3> QED
      BY <1>8, <2>1, <3>3, <3>4, <3>5
  <2>2. CASE r.result # "ok"
    <3>1. seg' = seg
      BY <1>1, <2>2
    <3> QED
      BY <1>7, <3>1
  <2> QED
    BY <2>1, <2>2
<1>13. TypeOK'
  BY <1>1, <1>10, <1>11, <1>12 DEF IInv, TypeOK, Trees
<1>14. op' = op /\ untidy' = untidy /\ seen' = seen /\ phase = "load" /\ phase' # "freed" /\ ub = "none"
  BY <1>1, <1>11
<1> QED
  BY <1>11, <1>12, <1>13, <1>14, GrowKeeps

LEMMA StepIInv == IInv /\ [Next]_vars => IInv'
<1> SUFFICES ASSUME IInv, [Next]_vars PROVE IInv'
  OBVIOUS
<1>1. CASE UNCHANGED vars
  <2>1. /\ prog' = prog /\ seg' = seg /\ data' = data /\ phase' = phase /\ placed' = placed
        /\ op' = op /\ seen' = seen /\ ub' = ub /\ last' = last /\ wrong' = wrong /\ untidy' = untidy
    BY <1>1 DEF vars
  <2>2. TypeOK'
    BY <2>1 DEF IInv, TypeOK
  <2>3. LinkOK(seg)' /\ OpsOK' /\ LockOK' /\ SeenOK' /\ NoUseAfterFree'
    BY <2>1 DEF IInv, OpsOK, LockOK, Unborn, SeenOK, NoUseAfterFree
  <2>4. DetachedOK' = DetachedOK /\ AllocAlone' = AllocAlone
    BY <2>1 DEF DetachedOK, LooseBy, AllocAlone, Freeing
  <2>5. TidyOK'
    BY <2>1, <2>4 DEF IInv, TidyOK
  <2> QED
    BY <2>2, <2>3, <2>5 DEF IInv
<1>2. ASSUME NEW v \in Vals, LoadSegment(v) PROVE IInv'
  BY <1>2, StepLoadSegment
<1>3. CASE LoadDone
  BY <1>3, StepLoadDone
<1>4. ASSUME NEW t \in Threads, NEW n \in Sizes, AllocOp(t, n) PROVE IInv'
  BY <1>4, StepAllocOp
<1>5. ASSUME NEW t \in Threads, NEW u \in Uses,
             \/ Search(t, "load", u.addr, u.size, NULL)
             \/ Search(t, "free", u.addr, 1, NULL)
             \/ \E v \in Vals : Search(t, "store", u.addr, u.size, v)
      PROVE  IInv'
  <2>1. u.addr \in Addrs /\ u.size \in Addrs /\ 1 \in Addrs
    <3>1. u.addr \in Addrs /\ u.size \in Addrs \ {0}
      BY MmuOK
    <3> QED
      BY <3>1, MmuOK DEF Addrs
  <2>2. CASE Search(t, "load", u.addr, u.size, NULL)
    BY <2>1, <2>2, StepSearch
  <2>3. CASE Search(t, "free", u.addr, 1, NULL)
    BY <2>1, <2>3, StepSearch
  <2>4. ASSUME NEW v \in Vals, Search(t, "store", u.addr, u.size, v) PROVE IInv'
    BY <2>1, <2>4, StepSearch
  <2> QED
    BY <1>5, <2>2, <2>3, <2>4
<1>6. ASSUME NEW t \in Threads, Find(t) \/ Look(t) \/ Leave(t) \/ UseFreed(t) \/ Store(t) \/ Load(t)
      PROVE  IInv'
  BY <1>6, StepFind, StepLook, StepLeave, StepUseFreed, StepStore, StepLoad
<1>7. ASSUME NEW t \in Threads, AllocDone(t) \/ Flag(t) \/ Scan(t) \/ Clear(t) \/ Free(t)
      PROVE  IInv'
  BY <1>7, StepAllocDone, StepFlag, StepScan, StepClear, StepFree
<1>8. CASE VmFree
  BY <1>8, StepVmFree
<1>9. CASE Stopped
  BY <1>1, <1>9 DEF Stopped
<1> QED
  BY <1>1, <1>2, <1>3, <1>4, <1>5, <1>6, <1>8, <1>9, <1>7 DEF Next

LEMMA Invariance == Spec => []IInv
<1>1. Init => IInv
  BY InitIInv
<1>2. IInv /\ [Next]_vars => IInv'
  BY StepIInv
<1> QED
  BY <1>1, <1>2, PTL DEF Spec

-----------------------------------------------------------------------------
\* The theorems.

\* Every variable keeps its type: whatever insert_segment, update_seg_bounds,
\* free_tree and srsvm_mmu_free make of a tree is a tree, no bound or base leaves
\* the address space and no slot holds anything but a segment.
THEOREM TypeCorrect == Spec => []TypeOK
<1>1. IInv => TypeOK
  BY DEF IInv
<1> QED
  BY <1>1, Invariance, PTL

\* As long as every FREE was of a segment without children that its parent's
\* loop reaches, met no other thread that had the segment or came to it in a
\* search, and ran beside no ALLOC, no search, load, store, FREE, ALLOC or
\* release of the machine touches a freed segment (srsvm_mmu_locate, _load,
\* _store, _alloc, _free), whichever of their steps the unlocked steps of a
\* FREE come between.
THEOREM NothingFreedIsUsed == Spec => []NoUseAfterFree
<1>1. IInv => NoUseAfterFree
  BY DEF IInv
<1> QED
  BY <1>1, Invariance, PTL

\* Under the same condition srsvm_vm_free frees every segment there is.
THEOREM EndFreesTheTree == Spec => []AllFreed
<1>1. IInv => AllFreed
  BY DEF IInv, TidyOK, AllFreed
<1> QED
  BY <1>1, Invariance, PTL

\* Under the same condition the bounds of every segment lie in those of its
\* parent, whatever was inserted in what order (update_seg_bounds), so that the
\* search of srsvm_mmu_locate turns into every subtree that has the address.
THEOREM BoundsAlwaysNest == Spec => []BoundsNest
<1>1. IInv => BoundsNest
  <2> SUFFICES ASSUME IInv, ub = "none", ~untidy, NEW s \in Linked
               PROVE  seg[seg[s].parent].lo <= seg[s].lo /\ seg[s].hi <= seg[seg[s].parent].hi
    BY DEF BoundsNest
  <2>1. seg \in Trees /\ Root \in Segs
    BY SegTrees, MmuOK DEF IInv
  <2>2. CASE phase = "freed"
    <3>1. seg[Root].life # "live"
      BY <2>1, <2>2 DEF IInv, TidyOK
    <3>2. {Root} \in SUBSET Segs /\ Root \in {Root}
          /\ \A r \in {Root} : seg[r].life = "live" => Kids(seg, r) \subseteq {Root}
      BY <2>1, <3>1
    <3>3. Reach(seg, Root) \subseteq {Root}
      BY <2>1, <3>2, ReachIs
    <3> QED
      BY <3>3 DEF Linked
  <2>3. CASE phase # "freed"
    <3>1. TreeBase(seg) /\ NestOK(seg)
      BY <2>3 DEF IInv, TidyOK
    <3>2. s \in Segs \ {Root} /\ seg[s].life = "live"
      BY <2>1, <3>1, ReachInUse DEF Linked
    <3> QED
      BY <3>1, <3>2 DEF NestOK, Nested
  <2> QED
    BY <2>2, <2>3
<1> QED
  BY <1>1, Invariance, PTL
===============================================================================
