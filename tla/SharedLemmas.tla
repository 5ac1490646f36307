---------------------------- MODULE SharedLemmas ----------------------------
(***************************************************************************)
(* Lemmas that the proofs of several components need: induction over the   *)
(* natural numbers, as a lemma about sets (what is shown of every number   *)
(* is that it belongs to the set of those for which it holds); that        *)
(* functions defined by recursion exist; and what is proved of the search  *)
(* trees of StringTree, for every set of keys and every order: the descent *)
(* for a key ends, in one place, and insert and remove keep the tree in    *)
(* order.                                                                  *)
(***************************************************************************)
EXTENDS StringTree, WellFoundedInduction, SequenceTheorems, TLAPS

-----------------------------------------------------------------------------
\* Induction.

LEMMA LeastElement ==
  ASSUME NEW S \in SUBSET Nat, S # {}
  PROVE  \E m \in S : \A n \in S : m <= n
<1>1. PICK m \in S : \A n \in S : ~ (<<n, m>> \in OpToRel(<, Nat))
  BY WFMin, NatLessThanWellFounded, Zenon
<1>2. \A n \in S : ~ (n < m)
  BY <1>1 DEF OpToRel
<1> QED
  BY <1>2

\* What holds of 0 and, with n, of n + 1, holds of all.
LEMMA InductionOnNat ==
  ASSUME NEW S, 0 \in S, \A n \in Nat : n \in S => n + 1 \in S
  PROVE  Nat \subseteq S
<1> SUFFICES ASSUME Nat \ S # {} PROVE FALSE
  OBVIOUS
<1>1. PICK m \in Nat \ S : \A n \in Nat \ S : m <= n
  BY LeastElement
<1>2. m # 0 /\ m - 1 \in Nat /\ m - 1 \in S
  BY <1>1
<1> QED
  BY <1>1, <1>2

-----------------------------------------------------------------------------
\* Definition by recursion.

\* The first values of the function that is defined.
Unfolds(f, n, b, step) ==
  \A d \in 0 .. n : f[d] = IF d = 0 THEN b ELSE step[f[d - 1]]

LEMMA BeginningsExist ==
  ASSUME NEW D, NEW b \in D, NEW step \in [D -> D], NEW n \in Nat
  PROVE  \E f \in [Nat -> D] : Unfolds(f, n, b, step)
<1> DEFINE X == {k \in Nat : \E f \in [Nat -> D] : Unfolds(f, k, b, step)}
<1>1. 0 \in X
  <2>1. [d \in Nat |-> b] \in [Nat -> D] /\ Unfolds([d \in Nat |-> b], 0, b, step)
    BY DEF Unfolds
  <2> QED
    BY <2>1
<1>2. ASSUME NEW k \in Nat, k \in X PROVE k + 1 \in X
  <2>1. PICK f \in [Nat -> D] : Unfolds(f, k, b, step)
    BY <1>2
  <2> DEFINE g == [f EXCEPT ![k + 1] = step[f[k]]]
  <2>2. g \in [Nat -> D]
    OBVIOUS
  <2>3. ASSUME NEW d \in 0 .. k + 1 PROVE g[d] = IF d = 0 THEN b ELSE step[g[d - 1]]
    <3>1. CASE d = k + 1
      BY <3>1
    <3>2. CASE d \in 0 .. k
      BY <2>1, <3>2 DEF Unfolds
    <3> QED
      BY <3>1, <3>2
  <2>4. g \in [Nat -> D] /\ Unfolds(g, k + 1, b, step)
    <3> HIDE DEF g
    <3> QED
      BY <2>2, <2>3 DEF Unfolds
  <2> HIDE DEF g
  <2> QED
    BY <2>4
<1> HIDE DEF X
<1>3. Nat \subseteq X
  BY <1>1, <1>2, InductionOnNat
<1> QED
  BY <1>3 DEF X

LEMMA BeginningsAgree ==
  ASSUME NEW D, NEW b \in D, NEW step \in [D -> D], NEW n \in Nat, NEW k \in Nat,
         NEW f \in [Nat -> D], NEW g \in [Nat -> D],
         Unfolds(f, n, b, step), Unfolds(g, k, b, step)
  PROVE  \A d \in Nat : d <= n /\ d <= k => f[d] = g[d]
<1> DEFINE X == {d \in Nat : d <= n /\ d <= k => f[d] = g[d]}
<1>1. 0 \in X
  BY DEF Unfolds
<1>2. ASSUME NEW d \in Nat, d \in X PROVE d + 1 \in X
  <2>1. CASE d + 1 <= n /\ d + 1 <= k
    <3>1. f[d] = g[d] /\ d + 1 \in 0 .. n /\ d + 1 \in 0 .. k /\ (d + 1) - 1 = d /\ d + 1 # 0
      BY <1>2, <2>1
    <3>2. f[d + 1] = step[f[d]] /\ g[d + 1] = step[g[d]]
      BY <3>1 DEF Unfolds
    <3> QED
      BY <3>1, <3>2
  <2>2. CASE ~(d + 1 <= n /\ d + 1 <= k)
    BY <2>2
  <2> QED
    BY <2>1, <2>2
<1> HIDE DEF X
<1>3. Nat \subseteq X
  BY <1>1, <1>2, InductionOnNat
<1> QED
  BY <1>3 DEF X

\* A function that is defined by recursion over the natural numbers exists.
LEMMA RecursionExists ==
  ASSUME NEW D, NEW b \in D, NEW step \in [D -> D]
  PROVE  \E f \in [Nat -> D] : \A d \in Nat : f[d] = IF d = 0 THEN b ELSE step[f[d - 1]]
<1> DEFINE part(n) == CHOOSE f \in [Nat -> D] : Unfolds(f, n, b, step)
           g == [n \in Nat |-> part(n)[n]]
<1>1. \A n \in Nat : part(n) \in [Nat -> D] /\ Unfolds(part(n), n, b, step)
  BY BeginningsExist
<1> HIDE DEF part
<1>2. g \in [Nat -> D]
  BY <1>1
<1>3. ASSUME NEW d \in Nat PROVE g[d] = IF d = 0 THEN b ELSE step[g[d - 1]]
  <2>1. CASE d = 0
    BY <1>1, <2>1 DEF Unfolds
  <2>2. CASE d # 0
    <3>1. d - 1 \in Nat /\ d - 1 <= d
      BY <2>2
    <3>2. part(d)[d] = step[part(d)[d - 1]]
      BY <1>1, <2>2 DEF Unfolds
    <3>3. part(d)[d - 1] = part(d - 1)[d - 1]
      <4>1. /\ part(d) \in [Nat -> D] /\ Unfolds(part(d), d, b, step)
            /\ part(d - 1) \in [Nat -> D] /\ Unfolds(part(d - 1), d - 1, b, step)
        BY <1>1, <3>1
      <4>2. \A x \in Nat : x <= d /\ x <= d - 1 => part(d)[x] = part(d - 1)[x]
        BY <3>1, <4>1, BeginningsAgree
      <4> QED
        BY <3>1, <4>2
    <3> QED
      BY <2>2, <3>1, <3>2, <3>3
  <2> QED
    BY <2>1, <2>2
<1> QED
  BY <1>2, <1>3

-----------------------------------------------------------------------------
\* Trees.

Path == Seq(Turns)
Upto(p, i) == SubSeq(p, 1, i)

\* A node hangs from live nodes; the tree is bounded.
Rooted(tree) ==
  \A p \in DOMAIN tree : \A i \in 0 .. Len(p) - 1 :
    Upto(p, i) \in DOMAIN tree /\ tree[Upto(p, i)] # Dangling
Bounded(tree) == \E h \in Nat : \A p \in DOMAIN tree : Len(p) <= h
Shape(tree) == DOMAIN tree \subseteq Path /\ Rooted(tree) /\ Bounded(tree)

\* A node lies on the path of its key.
Sorted(tree, ord) ==
  \A p \in DOMAIN tree : tree[p] # Dangling => Visits(tree, ord, tree[p].key, p)

\* Where a descent may stop.
Stops(tree, ord, k, p) ==
  /\ p \in Pointers(tree) /\ Visits(tree, ord, k, p)
  /\ p \in DOMAIN tree => tree[p] = Dangling \/ ord[k] = ord[tree[p].key]

-----------------------------------------------------------------------------
\* Sequences of turns.

LEMMA UptoIs ==
  ASSUME NEW p \in Path, NEW n \in 0 .. Len(p)
  PROVE  /\ Upto(p, n) \in Path /\ Len(Upto(p, n)) = n
         /\ \A i \in 1 .. n : Upto(p, n)[i] = p[i]
  BY DEF Path, Upto

LEMMA SamePath ==
  ASSUME NEW p \in Path, NEW q \in Path, Len(p) = Len(q),
         \A i \in 1 .. Len(p) : p[i] = q[i]
  PROVE  p = q
  BY SeqEqual DEF Path

LEMMA UptoUpto ==
  ASSUME NEW p \in Path, NEW n \in 0 .. Len(p), NEW i \in 0 .. n
  PROVE  Upto(Upto(p, n), i) = Upto(p, i)
<1>1. i \in 0 .. Len(p) /\ Upto(p, n) \in Path /\ Len(Upto(p, n)) = n
  BY UptoIs DEF Path
<1>2. /\ Upto(Upto(p, n), i) \in Path /\ Len(Upto(Upto(p, n), i)) = i
      /\ Upto(p, i) \in Path /\ Len(Upto(p, i)) = i
  BY <1>1, UptoIs
<1>3. \A j \in 1 .. i : Upto(Upto(p, n), i)[j] = Upto(p, i)[j]
  BY <1>1, UptoIs
<1> QED
  BY <1>2, <1>3, SamePath

LEMMA UptoSelf ==
  ASSUME NEW p \in Path
  PROVE  Upto(p, Len(p)) = p /\ Upto(p, 0) = <<>>
<1>1. Len(p) \in Nat
  BY DEF Path
<1>2. Upto(p, Len(p)) = p
  BY <1>1, UptoIs, SamePath
<1>3. Upto(p, 0) = <<>>
  BY <1>1, UptoIs DEF Path
<1> QED
  BY <1>2, <1>3

LEMMA Appended ==
  ASSUME NEW p \in Path, NEW d \in Turns
  PROVE  /\ Append(p, d) \in Path /\ Len(Append(p, d)) = Len(p) + 1
         /\ Append(p, d)[Len(p) + 1] = d /\ Len(p) \in Nat
         /\ \A i \in 0 .. Len(p) : Upto(Append(p, d), i) = Upto(p, i)
<1>1. /\ Append(p, d) \in Path /\ Len(Append(p, d)) = Len(p) + 1
      /\ Append(p, d)[Len(p) + 1] = d /\ Len(p) \in Nat
      /\ \A i \in 1 .. Len(p) : Append(p, d)[i] = p[i]
  BY DEF Path
<1>2. ASSUME NEW i \in 0 .. Len(p) PROVE Upto(Append(p, d), i) = Upto(p, i)
  <2> DEFINE q == Append(p, d)
  <2>1. q \in Path /\ i \in 0 .. Len(q) /\ \A j \in 1 .. i : q[j] = p[j]
    BY <1>1
  <2> HIDE DEF q
  <2>2. /\ Upto(q, i) \in Path /\ Len(Upto(q, i)) = i /\ \A j \in 1 .. i : Upto(q, i)[j] = q[j]
        /\ Upto(p, i) \in Path /\ Len(Upto(p, i)) = i /\ \A j \in 1 .. i : Upto(p, i)[j] = p[j]
    BY <2>1, UptoIs
  <2>3. Upto(q, i) = Upto(p, i)
    BY <2>1, <2>2, SamePath
  <2> QED
    BY <2>3 DEF q
<1> QED
  BY <1>1, <1>2

-----------------------------------------------------------------------------
\* The pointers of a tree.

LEMMA PointerShape ==
  ASSUME NEW tree, Shape(tree), NEW p \in Pointers(tree)
  PROVE  /\ p \in Path
         /\ \A i \in 0 .. Len(p) - 1 : Upto(p, i) \in DOMAIN tree /\ tree[Upto(p, i)] # Dangling
<1>1. CASE p = <<>>
  BY <1>1 DEF Path
<1>2. ASSUME NEW q \in DOMAIN tree, tree[q] # Dangling, NEW d \in Turns, p = Append(q, d)
      PROVE  /\ p \in Path
             /\ \A i \in 0 .. Len(p) - 1 :
                  Upto(p, i) \in DOMAIN tree /\ tree[Upto(p, i)] # Dangling
  <2>1. q \in Path /\ Rooted(tree)
    BY DEF Shape
  <2>2. p \in Path /\ Len(p) = Len(q) + 1 /\ Len(q) \in Nat
        /\ \A i \in 0 .. Len(q) : Upto(p, i) = Upto(q, i)
    BY <1>2, <2>1, Appended
  <2>3. Upto(q, Len(q)) = q
    BY <2>1, UptoSelf
  <2>4. ASSUME NEW i \in 0 .. Len(p) - 1
        PROVE  Upto(p, i) \in DOMAIN tree /\ tree[Upto(p, i)] # Dangling
    <3>1. CASE i = Len(q)
      BY <1>2, <2>2, <2>3, <3>1
    <3>2. CASE i \in 0 .. Len(q) - 1
      BY <2>1, <2>2, <3>2 DEF Rooted
    <3> QED
      BY <2>2, <3>1, <3>2
  <2> QED
    BY <2>2, <2>4
<1> QED
  BY <1>1, <1>2 DEF Pointers

LEMMA NodesArePointers ==
  ASSUME NEW tree, Shape(tree), NEW p \in DOMAIN tree
  PROVE  p \in Pointers(tree)
<1>1. p \in Path /\ Rooted(tree) /\ Len(p) \in Nat
  BY DEF Shape, Path
<1>2. CASE p = <<>>
  BY <1>2 DEF Pointers
<1>3. CASE p # <<>>
  <2> DEFINE q == Upto(p, Len(p) - 1)
  <2>1. Len(p) # 0
    BY <1>1, <1>3 DEF Path
  <2>2. Len(p) - 1 \in 0 .. Len(p) - 1 /\ Len(p) - 1 \in 0 .. Len(p)
    BY <1>1, <2>1
  <2>3. q \in DOMAIN tree /\ tree[q] # Dangling
    BY <1>1, <2>2 DEF Rooted
  <2>4. q \in Path /\ Len(q) = Len(p) - 1 /\ \A i \in 1 .. Len(p) - 1 : q[i] = p[i]
    BY <1>1, <2>2, UptoIs
  <2>5. p[Len(p)] \in Turns
    BY <1>1, <2>1 DEF Path
  <2> HIDE DEF q
  <2>6. p = Append(q, p[Len(p)])
    <3> DEFINE r == Append(q, p[Len(p)])
    <3>1. /\ r \in Path /\ Len(r) = Len(q) + 1 /\ r[Len(q) + 1] = p[Len(p)]
          /\ \A i \in 0 .. Len(q) : Upto(r, i) = Upto(q, i)
      BY <2>4, <2>5, Appended
    <3>2. \A i \in 1 .. Len(q) : r[i] = q[i]
      BY <2>4, <2>5 DEF Path
    <3> HIDE DEF r
    <3>3. \A i \in 1 .. Len(p) : p[i] = r[i]
      BY <1>1, <2>4, <3>1, <3>2
    <3>4. p = r
      BY <1>1, <2>4, <3>1, <3>3, SamePath
    <3> QED
      BY <3>4 DEF r
  <2> QED
    BY <2>3, <2>5, <2>6 DEF Pointers
<1> QED
  BY <1>2, <1>3

-----------------------------------------------------------------------------
\* The descent.

\* The descent for k goes on from the node at q by the turn d.
Goes(tree, ord, k, q, d) ==
  tree[q] # Dangling /\ ord[k] # ord[tree[q].key] /\ d = Turn(ord, k, tree[q])

LEMMA VisitsIs ==
  ASSUME NEW tree, NEW ord, NEW k, NEW p
  PROVE  Visits(tree, ord, k, p) <=> \A i \in 1 .. Len(p) : Goes(tree, ord, k, Upto(p, i - 1), p[i])
  BY DEF Visits, Goes, Upto

LEMMA VisitsOn ==
  ASSUME NEW tree, NEW ord, NEW k, NEW p \in Path, NEW d \in Turns,
         Visits(tree, ord, k, p), Goes(tree, ord, k, p, d)
  PROVE  Visits(tree, ord, k, Append(p, d))
<1> DEFINE q == Append(p, d)
<1>1. /\ Len(q) = Len(p) + 1 /\ q[Len(p) + 1] = d /\ Len(p) \in Nat
      /\ \A i \in 0 .. Len(p) : Upto(q, i) = Upto(p, i)
  BY Appended
<1>2. \A i \in 1 .. Len(p) : q[i] = p[i]
  BY DEF Path
<1> HIDE DEF q
<1>3. ASSUME NEW i \in 1 .. Len(q) PROVE Goes(tree, ord, k, Upto(q, i - 1), q[i])
  <2>1. CASE i \in 1 .. Len(p)
    <3>1. i - 1 \in 0 .. Len(p)
      BY <1>1, <2>1
    <3> QED
      BY <1>1, <1>2, <2>1, <3>1, VisitsIs
  <2>2. CASE i = Len(p) + 1
    <3>1. i - 1 = Len(p) /\ Upto(q, i - 1) = p /\ q[i] = d
      BY <1>1, <2>2, UptoSelf
    <3> QED
      BY <3>1
  <2> QED
    BY <1>1, <2>1, <2>2
<1> QED
  BY <1>3, VisitsIs DEF q

\* The descent ends.
LEMMA StopExists ==
  ASSUME NEW tree, NEW ord, NEW k, Shape(tree)
  PROVE  \E p : Stops(tree, ord, k, p)
<1>1. PICK h \in Nat : \A p \in DOMAIN tree : Len(p) <= h
  BY DEF Shape, Bounded
<1> DEFINE Reached == {p \in Pointers(tree) : Visits(tree, ord, k, p)}
           Rest(p) == h + 1 - Len(p)
           R == {Rest(p) : p \in Reached}
<1>2. \A p \in Pointers(tree) : p \in Path /\ Len(p) \in Nat /\ Len(p) <= h + 1
  <2> TAKE p \in Pointers(tree)
  <2>1. p \in Path /\ Len(p) \in Nat
    BY PointerShape DEF Path
  <2>2. CASE p = <<>>
    BY <2>1, <2>2
  <2>3. CASE \E q \in DOMAIN tree, d \in Turns : p = Append(q, d)
    <3>1. PICK q \in DOMAIN tree, d \in Turns : p = Append(q, d)
      BY <2>3
    <3>2. q \in Path /\ Len(q) <= h
      BY <1>1 DEF Shape
    <3>3. Len(p) = Len(q) + 1 /\ Len(q) \in Nat
      BY <3>1, <3>2, Appended
    <3> QED
      BY <2>1, <3>2, <3>3
  <2>4. p = <<>> \/ \E q \in DOMAIN tree, d \in Turns : p = Append(q, d)
    BY DEF Pointers
  <2> QED
    BY <2>1, <2>2, <2>3, <2>4
<1>3. \A p \in Reached : Rest(p) \in Nat
  BY <1>2
<1>4. <<>> \in Reached
  BY DEF Pointers, Visits
<1> HIDE DEF Reached
<1>5. PICK p \in Reached : \A q \in Reached : Rest(p) <= Rest(q)
  <2>1. R \in SUBSET Nat /\ R # {}
    BY <1>3, <1>4
  <2>2. PICK m \in R : \A n \in R : m <= n
    BY <2>1, LeastElement
  <2> QED
    BY <2>2
<1>6. p \in Pointers(tree) /\ Visits(tree, ord, k, p) /\ p \in Path /\ Len(p) \in Nat
  BY <1>2 DEF Reached
<1>7. ASSUME p \in DOMAIN tree, tree[p] # Dangling, ord[k] # ord[tree[p].key]
      PROVE  FALSE
  <2> DEFINE d == Turn(ord, k, tree[p])
             q == Append(p, d)
  <2>1. d \in Turns
    BY DEF Turn, Turns
  <2>2. Visits(tree, ord, k, q)
    BY <1>6, <1>7, <2>1, VisitsOn DEF Goes
  <2>3. q \in Pointers(tree)
    BY <1>7, <2>1 DEF Pointers
  <2>4. q \in Reached
    BY <2>2, <2>3 DEF Reached
  <2>5. Len(q) = Len(p) + 1
    BY <1>6, <2>1, Appended
  <2> HIDE DEF q
  <2>6. Rest(p) <= Rest(q)
    BY <1>5, <2>4
  <2> QED
    BY <1>6, <2>5, <2>6
<1> QED
  BY <1>6, <1>7 DEF Stops

\* It ends in one place.
LEMMA StopUnique ==
  ASSUME NEW tree, NEW ord, NEW k, Shape(tree),
         NEW p, Stops(tree, ord, k, p), NEW q, Stops(tree, ord, k, q)
  PROVE  p = q
<1>1. p \in Path /\ q \in Path /\ Len(p) \in Nat /\ Len(q) \in Nat
  BY PointerShape DEF Stops, Path
<1>2. /\ \A i \in 1 .. Len(p) : Goes(tree, ord, k, Upto(p, i - 1), p[i])
      /\ \A i \in 1 .. Len(q) : Goes(tree, ord, k, Upto(q, i - 1), q[i])
  BY VisitsIs DEF Stops
\* The paths agree as long as both go on.
<1>3. \A i \in Nat : i \in 1 .. Len(p) /\ i \in 1 .. Len(q) => p[i] = q[i]
  <2> DEFINE D == {i \in Nat : i \in 1 .. Len(p) /\ i \in 1 .. Len(q) /\ p[i] # q[i]}
  <2> SUFFICES ASSUME D # {} PROVE FALSE
    OBVIOUS
  <2>1. PICK i \in D : \A j \in D : i <= j
    <3> HIDE DEF D
    <3>1. D \in SUBSET Nat
      BY DEF D
    <3> QED
      BY <3>1, LeastElement
  <2>2. i \in 1 .. Len(p) /\ i \in 1 .. Len(q) /\ i - 1 \in 0 .. Len(p) /\ i - 1 \in 0 .. Len(q)
    BY <1>1
  <2>3. \A j \in 1 .. i - 1 : p[j] = q[j]
    BY <1>1, <2>1, <2>2
  <2>4. Upto(p, i - 1) = Upto(q, i - 1)
    <3>1. /\ Upto(p, i - 1) \in Path /\ Len(Upto(p, i - 1)) = i - 1
          /\ \A j \in 1 .. i - 1 : Upto(p, i - 1)[j] = p[j]
          /\ Upto(q, i - 1) \in Path /\ Len(Upto(q, i - 1)) = i - 1
          /\ \A j \in 1 .. i - 1 : Upto(q, i - 1)[j] = q[j]
      BY <1>1, <2>2, UptoIs
    <3> QED
      BY <2>3, <3>1, SamePath
  <2>5. p[i] # q[i]
    OBVIOUS
  <2> QED
    BY <1>2, <2>2, <2>4, <2>5 DEF Goes
\* Neither goes on where the other stops.
<1>4. ASSUME NEW a, NEW b, Stops(tree, ord, k, a), a \in Path, b \in Path, b \in Pointers(tree),
             \A i \in 1 .. Len(b) : Goes(tree, ord, k, Upto(b, i - 1), b[i]),
             \A i \in 1 .. Len(a) : i \in 1 .. Len(b) => a[i] = b[i], Len(a) < Len(b)
      PROVE  FALSE
  <2>1. Len(a) \in Nat /\ Len(b) \in Nat
    BY <1>4 DEF Path
  <2>2. Len(a) \in 0 .. Len(b) /\ Len(a) \in 0 .. Len(b) - 1 /\ Len(a) + 1 \in 1 .. Len(b)
    BY <1>4, <2>1
  <2>3. /\ Upto(b, Len(a)) \in Path /\ Len(Upto(b, Len(a))) = Len(a)
        /\ \A i \in 1 .. Len(a) : Upto(b, Len(a))[i] = b[i]
    BY <1>4, <2>2, UptoIs
  <2>4. \A i \in 1 .. Len(a) : a[i] = b[i]
    BY <1>4, <2>1
  <2>5. Upto(b, Len(a)) = a
    BY <1>4, <2>3, <2>4, SamePath
  <2>6. a \in DOMAIN tree
    BY <1>4, <2>2, <2>5, PointerShape
  <2>7. Goes(tree, ord, k, Upto(b, Len(a) + 1 - 1), b[Len(a) + 1])
    BY <1>4, <2>2
  <2>8. Len(a) + 1 - 1 = Len(a)
    BY <2>1
  <2> QED
    BY <1>4, <2>5, <2>6, <2>7, <2>8 DEF Goes, Stops
<1>5. ~ (Len(p) < Len(q)) /\ ~ (Len(q) < Len(p))
  <2>1. p \in Pointers(tree) /\ q \in Pointers(tree)
    BY DEF Stops
  <2>2. /\ \A i \in 1 .. Len(p) : i \in 1 .. Len(q) => p[i] = q[i]
        /\ \A i \in 1 .. Len(q) : i \in 1 .. Len(p) => q[i] = p[i]
    BY <1>1, <1>3
  <2> QED
    BY <1>1, <1>2, <1>4, <2>1, <2>2
<1> QED
  BY <1>1, <1>3, <1>5, SamePath

\* What Stop chooses.
LEMMA StopIs ==
  ASSUME NEW tree, NEW ord, NEW k, Shape(tree)
  PROVE  /\ Stops(tree, ord, k, Stop(tree, ord, k))
         /\ \A p : Stops(tree, ord, k, p) => p = Stop(tree, ord, k)
<1>1. \E p \in Pointers(tree) :
        /\ Visits(tree, ord, k, p)
        /\ p \in DOMAIN tree => tree[p] = Dangling \/ ord[k] = ord[tree[p].key]
  BY StopExists DEF Stops
<1>2. Stops(tree, ord, k, Stop(tree, ord, k))
  BY <1>1 DEF Stop, Stops
<1> QED
  BY <1>2, StopUnique

-----------------------------------------------------------------------------
\* What is found, and where.

\* The descent for the key of a node leads to the node.
LEMMA FoundThere ==
  ASSUME NEW tree, NEW ord, Shape(tree), Sorted(tree, ord),
         NEW p \in DOMAIN tree, tree[p] # Dangling
  PROVE  Stop(tree, ord, tree[p].key) = p
<1>1. Stops(tree, ord, tree[p].key, p)
  BY NodesArePointers DEF Stops, Sorted
<1> QED
  BY <1>1, StopIs

LEMMA HasIs ==
  ASSUME NEW tree, NEW ord, NEW k, Shape(tree), Has(tree, ord, k)
  PROVE  /\ Stop(tree, ord, k) \in DOMAIN tree /\ tree[Stop(tree, ord, k)] # Dangling
         /\ ord[k] = ord[tree[Stop(tree, ord, k)].key]
  BY StopIs DEF Has, Stops

\* Two orders that agree on the keys of a tree stop at one place.
LEMMA SameStop ==
  ASSUME NEW tree, NEW K, NEW ord, NEW ord2, Shape(tree), \A j \in K : ord[j] \in Nat /\ ord2[j] \in Nat,
         \A p \in DOMAIN tree : tree[p] # Dangling => tree[p].key \in K,
         NEW k \in K, \A j \in K : ord[k] < ord[j] <=> ord2[k] < ord2[j],
         \A j \in K : ord[j] < ord[k] <=> ord2[j] < ord2[k]
  PROVE  Stop(tree, ord, k) = Stop(tree, ord2, k)
<1> DEFINE p == Stop(tree, ord, k)
<1>1. Stops(tree, ord, k, p)
  BY StopIs
<1>2. \A j \in K : ord[k] = ord[j] <=> ord2[k] = ord2[j]
  OBVIOUS
<1> HIDE DEF p
<1>3. p \in Path /\ \A i \in 0 .. Len(p) - 1 : Upto(p, i) \in DOMAIN tree /\ tree[Upto(p, i)] # Dangling
  BY <1>1, PointerShape DEF Stops
<1>4. ASSUME NEW i \in 1 .. Len(p) PROVE Goes(tree, ord2, k, Upto(p, i - 1), p[i])
  <2>1. i - 1 \in 0 .. Len(p) - 1
    BY <1>3 DEF Path
  <2>2. tree[Upto(p, i - 1)] # Dangling /\ tree[Upto(p, i - 1)].key \in K
    BY <1>3, <2>1
  <2>3. Goes(tree, ord, k, Upto(p, i - 1), p[i])
    BY <1>1, VisitsIs DEF Stops
  <2> QED
    BY <1>2, <2>2, <2>3 DEF Goes, Turn
<1>5. Visits(tree, ord2, k, p)
  BY <1>4, VisitsIs
<1>6. Stops(tree, ord2, k, p)
  BY <1>1, <1>2, <1>5 DEF Stops
<1> QED
  BY <1>6, StopIs DEF p

\* The path to a place depends on the nodes above it.
LEMMA VisitsSame ==
  ASSUME NEW tree, NEW tree2, NEW ord, NEW k, NEW p \in Path, Visits(tree, ord, k, p),
         \A i \in 0 .. Len(p) - 1 : tree2[Upto(p, i)] = tree[Upto(p, i)]
  PROVE  Visits(tree2, ord, k, p)
<1>1. ASSUME NEW i \in 1 .. Len(p) PROVE Goes(tree2, ord, k, Upto(p, i - 1), p[i])
  <2>1. i - 1 \in 0 .. Len(p) - 1
    BY DEF Path
  <2>2. Goes(tree, ord, k, Upto(p, i - 1), p[i])
    BY VisitsIs
  <2> QED
    BY <2>1, <2>2 DEF Goes
<1> QED
  BY <1>1, VisitsIs

-----------------------------------------------------------------------------
\* insert: a leaf where the descent stops.

LEMMA GrowShape ==
  ASSUME NEW tree, NEW ord, NEW k, NEW v, Shape(tree), Stop(tree, ord, k) \notin DOMAIN tree
  PROVE  Shape(Grow(tree, ord, k, v))
<1> DEFINE at == Stop(tree, ord, k)
           g  == Grow(tree, ord, k, v)
<1>1. /\ DOMAIN g = DOMAIN tree \cup {at} /\ \A p \in DOMAIN tree : g[p] = tree[p]
  BY DEF Grow
<1>2. at \in Pointers(tree)
  BY StopIs DEF Stops
<1>3. at \in Path /\ \A i \in 0 .. Len(at) - 1 : Upto(at, i) \in DOMAIN tree /\ tree[Upto(at, i)] # Dangling
  BY <1>2, PointerShape
<1> HIDE DEF at, g
<1>4. DOMAIN g \subseteq Path
  BY <1>1, <1>3 DEF Shape
<1>5. Rooted(g)
  BY <1>1, <1>3 DEF Shape, Rooted
<1>6. Bounded(g)
  <2>1. PICK h \in Nat : \A p \in DOMAIN tree : Len(p) <= h
    BY DEF Shape, Bounded
  <2>2. Len(at) \in Nat /\ \A p \in DOMAIN tree : Len(p) \in Nat
    BY <1>3 DEF Path, Shape
  <2>3. \A p \in DOMAIN g : Len(p) <= h + Len(at)
    BY <1>1, <2>1, <2>2
  <2>4. h + Len(at) \in Nat
    BY <2>2
  <2> QED
    BY <2>3, <2>4 DEF Bounded
<1> QED
  BY <1>4, <1>5, <1>6 DEF Shape, g

LEMMA GrowSorted ==
  ASSUME NEW tree, NEW ord, NEW k, NEW v, Shape(tree), Sorted(tree, ord),
         Stop(tree, ord, k) \notin DOMAIN tree
  PROVE  Sorted(Grow(tree, ord, k, v), ord)
<1> DEFINE at == Stop(tree, ord, k)
           g  == Grow(tree, ord, k, v)
<1>1. /\ DOMAIN g = DOMAIN tree \cup {at} /\ \A p \in DOMAIN tree : g[p] = tree[p]
      /\ g[at] = [key |-> k, val |-> v]
  BY DEF Grow
<1>2. at \in Pointers(tree) /\ Visits(tree, ord, k, at)
  BY StopIs DEF Stops
<1> HIDE DEF at, g
<1>3. \A p \in Pointers(tree) : p \in Path /\ \A i \in 0 .. Len(p) - 1 : g[Upto(p, i)] = tree[Upto(p, i)]
  BY <1>1, PointerShape
<1>4. Visits(g, ord, k, at)
  BY <1>2, <1>3, VisitsSame
<1>5. ASSUME NEW p \in DOMAIN tree, tree[p] # Dangling PROVE Visits(g, ord, tree[p].key, p)
  <2>1. p \in Pointers(tree)
    BY NodesArePointers
  <2>2. Visits(tree, ord, tree[p].key, p)
    BY <1>5 DEF Sorted
  <2> QED
    BY <1>3, <2>1, <2>2, VisitsSame
<1>6. [key |-> k, val |-> v].key = k
  OBVIOUS
<1>7. Sorted(g, ord)
  BY <1>1, <1>4, <1>5, <1>6 DEF Sorted
<1> QED
  BY <1>7 DEF g

-----------------------------------------------------------------------------
\* remove: the node and all below it go, and a pointer to nothing may stay.

LEMMA CutIs ==
  ASSUME NEW tree, NEW ord, NEW k, Stop(tree, ord, k) \in DOMAIN tree
  PROVE  LET at == Stop(tree, ord, k)
             c  == Cut(tree, ord, k)
         IN  /\ DOMAIN c \subseteq (DOMAIN tree \ Gone(tree, at)) \cup {at}
             /\ DOMAIN tree \ Gone(tree, at) \subseteq DOMAIN c
             /\ \A p \in DOMAIN tree \ Gone(tree, at) : c[p] = tree[p]
             /\ at \in DOMAIN c => c[at] = Dangling
             /\ Below(tree, at) = {} => at \notin DOMAIN c
  BY DEF Cut, Gone

LEMMA GoneBelow ==
  ASSUME NEW tree, Shape(tree), NEW at \in DOMAIN tree, NEW p \in DOMAIN tree,
         p \notin Gone(tree, at) \/ p = at
  PROVE  \A i \in 0 .. Len(p) - 1 : Upto(p, i) \in DOMAIN tree \ Gone(tree, at)
<1> SUFFICES ASSUME NEW i \in 0 .. Len(p) - 1
             PROVE  Upto(p, i) \in DOMAIN tree \ Gone(tree, at)
  OBVIOUS
<1>1. p \in Path /\ at \in Path /\ Len(p) \in Nat /\ Len(at) \in Nat /\ i \in 0 .. Len(p)
  BY DEF Shape, Path
<1>2. Upto(p, i) \in DOMAIN tree /\ Len(Upto(p, i)) = i
  BY <1>1, UptoIs DEF Shape, Rooted
<1>3. ASSUME Upto(p, i) \in Gone(tree, at) PROVE Len(p) > Len(at) /\ Upto(p, Len(at)) = at
  <2>1. CASE Upto(p, i) = at
    <3>1. Len(at) = i
      BY <1>2, <2>1
    <3>2. Upto(p, Len(at)) = at
      BY <2>1, <3>1
    <3> QED
      BY <1>1, <3>1, <3>2
  <2>2. CASE Upto(p, i) \in Below(tree, at)
    <3>1. i > Len(at) /\ Upto(Upto(p, i), Len(at)) = at
      BY <1>2, <2>2 DEF Below, Upto, Gone
    <3>2. Upto(Upto(p, i), Len(at)) = Upto(p, Len(at))
      BY <1>1, <3>1, UptoUpto
    <3>3. Len(p) > Len(at)
      BY <1>1, <3>1
    <3> QED
      BY <3>1, <3>2, <3>3, Zenon
  <2> QED
    BY <1>3, <2>1, <2>2 DEF Gone
<1>4. ASSUME Len(p) > Len(at), Upto(p, Len(at)) = at PROVE p \in Gone(tree, at) /\ p # at
  BY <1>1, <1>4 DEF Gone, Below, Upto
<1> QED
  BY <1>2, <1>3, <1>4

LEMMA CutShape ==
  ASSUME NEW tree, NEW ord, NEW k, Shape(tree), Stop(tree, ord, k) \in DOMAIN tree
  PROVE  Shape(Cut(tree, ord, k))
<1> DEFINE at == Stop(tree, ord, k)
           c  == Cut(tree, ord, k)
<1>1. /\ DOMAIN c \subseteq (DOMAIN tree \ Gone(tree, at)) \cup {at}
      /\ DOMAIN tree \ Gone(tree, at) \subseteq DOMAIN c
      /\ \A p \in DOMAIN tree \ Gone(tree, at) : c[p] = tree[p]
  BY CutIs
<1> HIDE DEF at, c
<1>2. at \in DOMAIN tree
  BY DEF at
<1>3. DOMAIN c \subseteq DOMAIN tree
  BY <1>1, <1>2
<1>4. Rooted(c)
  <2> SUFFICES ASSUME NEW p \in DOMAIN c, NEW i \in 0 .. Len(p) - 1
               PROVE  Upto(p, i) \in DOMAIN c /\ c[Upto(p, i)] # Dangling
    BY DEF Rooted
  <2>1. Upto(p, i) \in DOMAIN tree \ Gone(tree, at)
    BY <1>1, <1>2, <1>3, GoneBelow
  <2>2. tree[Upto(p, i)] # Dangling
    BY <1>3 DEF Shape, Rooted
  <2> QED
    BY <1>1, <2>1, <2>2
<1>5. Bounded(c)
  BY <1>3 DEF Shape, Bounded
<1> QED
  BY <1>3, <1>4, <1>5 DEF Shape, c

LEMMA CutSorted ==
  ASSUME NEW tree, NEW ord, NEW k, NEW ord2, Shape(tree), Sorted(tree, ord2),
         Stop(tree, ord, k) \in DOMAIN tree
  PROVE  Sorted(Cut(tree, ord, k), ord2)
<1> DEFINE at == Stop(tree, ord, k)
           c  == Cut(tree, ord, k)
<1>1. /\ DOMAIN c \subseteq (DOMAIN tree \ Gone(tree, at)) \cup {at}
      /\ \A p \in DOMAIN tree \ Gone(tree, at) : c[p] = tree[p]
      /\ at \in DOMAIN c => c[at] = Dangling
  BY CutIs
<1> HIDE DEF at, c
<1>2. at \in DOMAIN tree
  BY DEF at
<1>3. ASSUME NEW p \in DOMAIN c, c[p] # Dangling PROVE Visits(c, ord2, c[p].key, p)
  <2>1. p \in DOMAIN tree \ Gone(tree, at) /\ c[p] = tree[p]
    BY <1>1, <1>3
  <2>2. Visits(tree, ord2, tree[p].key, p) /\ p \in Path
    BY <1>3, <2>1 DEF Sorted, Shape
  <2>3. \A i \in 0 .. Len(p) - 1 : c[Upto(p, i)] = tree[Upto(p, i)]
    BY <1>1, <1>2, <2>1, GoneBelow
  <2> QED
    BY <2>1, <2>2, <2>3, VisitsSame
<1>4. Sorted(c, ord2)
  BY <1>3 DEF Sorted
<1> QED
  BY <1>4 DEF c

LEMMA EmptyShape == Shape(Empty) /\ \A ord : Sorted(Empty, ord)
  BY DEF Shape, Empty, Rooted, Bounded, Sorted
=============================================================================
