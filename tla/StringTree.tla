------------------------------ MODULE StringTree ------------------------------
(***************************************************************************)
(* The search tree of a string map (src/lib/map.c) as a value, and what    *)
(* search, insert and remove make of it.                                   *)
(*                                                                         *)
(* A tree is a function from positions to nodes [key, val].  A position is *)
(* the sequence of turns, "l" and "r", that leads to the node; the root is *)
(* at <<>>.  A pointer to a freed node is the node Dangling: the code that *)
(* follows it reads freed memory.  An order of keys is a function from     *)
(* keys to naturals; two keys with one number compare as equal.            *)
(***************************************************************************)
EXTENDS Naturals, Sequences

CONSTANT Dangling     \* what a pointer to a freed node leads to

Turns == {"l", "r"}
Empty == [p \in {} |-> Dangling]

\* The pointers of a tree: the root, and two in each node.
Pointers(tree) ==
  {<<>>} \cup {Append(p, d) : p \in {q \in DOMAIN tree : tree[q] # Dangling}, d \in Turns}

Turn(ord, k, node) == IF ord[k] < ord[node.key] THEN "l" ELSE "r"

\* The descent for k follows the pointer p.
Visits(tree, ord, k, p) ==
  \A i \in 1 .. Len(p) :
    LET node == tree[SubSeq(p, 1, i - 1)]
    IN  node # Dangling /\ ord[k] # ord[node.key] /\ p[i] = Turn(ord, k, node)

\* Where the descent for k stops: at a node that equals k, at a pointer to
\* nothing, or at a freed node.
Stop(tree, ord, k) ==
  CHOOSE p \in Pointers(tree) :
    /\ Visits(tree, ord, k, p)
    /\ p \in DOMAIN tree => tree[p] = Dangling \/ ord[k] = ord[tree[p].key]

\* search finds k.
Has(tree, ord, k) ==
  LET p == Stop(tree, ord, k) IN p \in DOMAIN tree /\ tree[p] # Dangling

\* search reads a freed node.
Falls(tree, ord, k) ==
  LET p == Stop(tree, ord, k) IN p \in DOMAIN tree /\ tree[p] = Dangling

Value(tree, ord, k) == tree[Stop(tree, ord, k)].val

\* insert, for a key the descent does not meet: a leaf where it stops.
Grow(tree, ord, k, v) ==
  LET at == Stop(tree, ord, k)
  IN  [p \in DOMAIN tree \cup {at} |-> IF p = at THEN [key |-> k, val |-> v] ELSE tree[p]]

Below(tree, at) == {p \in DOMAIN tree : Len(p) > Len(at) /\ SubSeq(p, 1, Len(at)) = at}

\* What goes with the node at a position.
Gone(tree, at) == {at} \cup Below(tree, at)

\* A bug: the parent keeps its pointer.
CutKeepsPointer(tree, ord, k) == [tree EXCEPT ![Stop(tree, ord, k)] = Dangling]

\* A bug: the parent loses both its pointers.
CutSiblings(tree, ord, k) ==
  LET at == Stop(tree, ord, k)
      up == SubSeq(at, 1, Len(at) - 1)
  IN  [p \in {q \in DOMAIN tree : at # <<>> /\ q \notin Below(tree, up)} |-> tree[p]]

\* remove: one child, or the two joined, takes the place of the node; then
\* node_free frees the node and, through the pointer to that child which the
\* node still holds, everything below it.
Cut(tree, ord, k) ==
  LET at   == Stop(tree, ord, k)
      rest == DOMAIN tree \ Gone(tree, at)
  IN  IF Below(tree, at) = {} THEN [p \in rest |-> tree[p]]
      ELSE [p \in rest \cup {at} |-> IF p = at THEN Dangling ELSE tree[p]]

\* A walk over the whole tree (reassign_height, inorder_walk) reads a freed node.
WalkFalls(tree) == \E p \in DOMAIN tree : tree[p] = Dangling
===============================================================================
