-------------------------- MODULE StringMap_proofs ---------------------------
(***************************************************************************)
(* A string map implements a dictionary, for all sets of keys, values and  *)
(* threads and all pairs of orders.                                        *)
(***************************************************************************)
EXTENDS StringMap, SharedLemmas, FiniteSetTheorems

\* The inductive invariant.
Live(tr) == {p \in DOMAIN tr : tr[p] # Dangling}
Whole(tr) == \A p \in DOMAIN tr : tr[p] # Dangling
Owned(tr) == \A p \in Live(tr) : tr[p].key \in owner.keys /\ tr[p].val \in owner.vals

TreeInv  == Shape(tree) /\ Owned(tree) /\ (Alike(owner) => Sorted(tree, SearchOrder))
CountInv == IsFiniteSet(DOMAIN tree) /\ Cardinality(Live(tree)) <= count
OpInv    == \A t \in Threads : op[t].pc = "insert" => op[t].key \in owner.keys /\ op[t].val \in owner.vals
NodeInv  == \A t \in Threads : node[t] \notin {NULL, Dangling} => node[t] \in Live(tree)
TornInv  == ~torn => Whole(tree) /\ ~ub /\ \A t \in Threads : node[t] # Dangling

OpType   == [Threads -> [pc : {"idle", "insert"}, key : Keys \cup {NULL}, val : Vals \cup {NULL}]]
NodeType == [Threads -> Seq(Turns) \cup {NULL, Dangling}]
RetType  == [Threads -> Vals \cup {TRUE, FALSE, NULL}]

MapInv == TypeOK /\ TreeInv /\ CountInv /\ OpInv /\ NodeInv /\ TornInv

LEMMA OwnerType ==
  ASSUME TypeOK
  PROVE  /\ owner.keys \subseteq Keys /\ owner.vals \subseteq Vals
         /\ owner.fold \in BOOLEAN /\ owner.removes \in BOOLEAN
  BY StringMapOK DEF TypeOK

LEMMA Orders ==
  /\ \A k \in Keys : CaseOrder[k] \in Nat /\ FoldedOrder[k] \in Nat
  /\ \A j, k \in Keys : CaseOrder[j] = CaseOrder[k] => j = k
  BY StringMapOK

\* No descent reads a freed node in a whole tree.
LEMMA WholeDescents ==
  ASSUME NEW tr, Shape(tr), Whole(tr), NEW ord, NEW k
  PROVE  ~Falls(tr, ord, k) /\ ~WalkFalls(tr)
  BY DEF Whole, Falls, WalkFalls

\* Where insert and search stop is one place where the orders agree.
LEMMA OneOrder ==
  ASSUME MapInv, Alike(owner), NEW k \in owner.keys
  PROVE  Stop(tree, InsertOrder, k) = Stop(tree, SearchOrder, k)
<1>1. CASE ~owner.fold
  BY <1>1 DEF InsertOrder, SearchOrder
<1>2. CASE owner.fold
  <2>1. /\ \A j \in owner.keys : CaseOrder[j] \in Nat /\ FoldedOrder[j] \in Nat
        /\ \A j \in owner.keys : CaseOrder[j] < CaseOrder[k] <=> FoldedOrder[j] < FoldedOrder[k]
        /\ \A j \in owner.keys : CaseOrder[k] < CaseOrder[j] <=> FoldedOrder[k] < FoldedOrder[j]
    BY <1>2, OwnerType, Orders DEF MapInv, Alike
  <2>2. Shape(tree) /\ \A p \in DOMAIN tree : tree[p] # Dangling => tree[p].key \in owner.keys
    BY DEF MapInv, TreeInv, Owned, Live
  <2>3. Stop(tree, CaseOrder, k) = Stop(tree, FoldedOrder, k)
    BY <2>1, <2>2, SameStop
  <2> QED
    BY <1>2, <2>3 DEF InsertOrder, SearchOrder
<1> QED
  BY <1>1, <1>2

-----------------------------------------------------------------------------
\* The invariant holds.

LEMMA InitMap == Init => MapInv
<1> SUFFICES ASSUME Init PROVE MapInv
  OBVIOUS
<1>1. DOMAIN tree = {}
  BY DEF Init, Empty
<1>2. TypeOK
  BY <1>1 DEF Init, TypeOK, Idle
<1>3. TreeInv
  BY <1>1, EmptyShape DEF Init, TreeInv, Owned, Live
<1>4. CountInv
  <2>1. Live(tree) = {}
    BY <1>1 DEF Live
  <2> QED
    BY <1>1, <2>1, FS_EmptySet DEF Init, CountInv
<1>5. OpInv /\ NodeInv /\ TornInv
  BY <1>1, StringMapOK DEF Init, OpInv, Idle, NodeInv, TornInv, Whole
<1> QED
  BY <1>2, <1>3, <1>4, <1>5 DEF MapInv

\* Steps that leave the tree.
LEMMA TreeKept ==
  ASSUME MapInv, UNCHANGED <<owner, tree, count, torn>>,
         op' \in OpType, node' \in NodeType, ret' \in RetType, ub' \in BOOLEAN,
         OpInv', NodeInv', ~torn => ~ub' /\ \A t \in Threads : node'[t] # Dangling
  PROVE  MapInv'
<1>1. TypeOK'
  BY DEF MapInv, TypeOK, OpType, NodeType, RetType
<1>2. TreeInv'
  BY DEF MapInv, TreeInv, Owned, Live, Alike
<1>3. CountInv' /\ TornInv'
  BY DEF MapInv, CountInv, Live, TornInv, Whole
<1> QED
  BY <1>1, <1>2, <1>3 DEF MapInv

\* Steps that leave the lookups and free nothing.
LEMMA NodesKept ==
  ASSUME MapInv, node' = node, Live(tree) \subseteq Live(tree')
  PROVE  /\ node' \in NodeType /\ NodeInv'
         /\ ~torn => \A t \in Threads : node'[t] # Dangling
<1>1. Live(tree)' = Live(tree')
  BY DEF Live
<1> QED
  BY <1>1 DEF MapInv, TypeOK, NodeType, NodeInv, TornInv

\* Steps that free the nodes of S.
LEMMA NodesFreed ==
  ASSUME MapInv, NEW S, Frees(S), Live(tree) \ S \subseteq Live(tree')
  PROVE  /\ node' \in NodeType /\ NodeInv'
         /\ ~torn /\ ~Found(S) => \A t \in Threads : node'[t] # Dangling
<1>1. Live(tree)' = Live(tree')
  BY DEF Live
<1>2. node \in NodeType /\ \A t \in Threads : node'[t] = IF node[t] \in S THEN Dangling ELSE node[t]
  BY DEF Frees, MapInv, TypeOK, NodeType
<1>3. node' \in NodeType
  BY <1>2 DEF Frees, NodeType
<1>4. NodeInv'
  BY <1>1, <1>2 DEF MapInv, NodeInv
<1>5. ASSUME ~torn, ~Found(S) PROVE \A t \in Threads : node'[t] # Dangling
  BY <1>2, <1>5 DEF MapInv, TornInv, Found
<1> QED
  BY <1>3, <1>4, <1>5

LEMMA GrowInv ==
  ASSUME MapInv, NEW k \in owner.keys, NEW v \in owner.vals,
         ~Has(tree, InsertOrder, k), ~Falls(tree, InsertOrder, k)
  PROVE  LET g == Grow(tree, InsertOrder, k, v)
         IN  /\ Stop(tree, InsertOrder, k) \notin DOMAIN tree
             /\ Shape(g) /\ Owned(g) /\ (Alike(owner) => Sorted(g, SearchOrder))
             /\ \A p \in DOMAIN g : g[p] \in Node \cup {Dangling}
             /\ IsFiniteSet(DOMAIN g) /\ Cardinality(Live(g)) <= Cardinality(Live(tree)) + 1
             /\ (Whole(tree) => Whole(g)) /\ Live(tree) \subseteq Live(g)
<1> DEFINE at == Stop(tree, InsertOrder, k)
           g  == Grow(tree, InsertOrder, k, v)
           n  == [key |-> k, val |-> v]
<1>1. at \notin DOMAIN tree
  BY DEF Has, Falls
<1>2. DOMAIN g = DOMAIN tree \cup {at} /\ g[at] = n /\ \A p \in DOMAIN tree : g[p] = tree[p]
  BY <1>1 DEF Grow
<1>3. Shape(g)
  BY <1>1, GrowShape DEF MapInv, TreeInv
<1>4. ASSUME Alike(owner) PROVE Sorted(g, SearchOrder)
  <2>1. Sorted(tree, SearchOrder) /\ Shape(tree) /\ at = Stop(tree, SearchOrder, k)
    BY <1>4, OneOrder DEF MapInv, TreeInv
  <2>2. g = Grow(tree, SearchOrder, k, v)
    BY <2>1 DEF Grow
  <2>3. Sorted(Grow(tree, SearchOrder, k, v), SearchOrder)
    BY <1>1, <2>1, GrowSorted
  <2> QED
    BY <2>2, <2>3
<1>5. n \in Node /\ n # Dangling /\ n.key = k /\ n.val = v
  BY OwnerType, StringMapOK DEF MapInv, Node
<1> HIDE DEF at, g, n
<1>6. Live(g) = Live(tree) \cup {at}
  BY <1>1, <1>2, <1>5 DEF Live
<1>7. Owned(g)
  BY <1>2, <1>5, <1>6 DEF Owned, Live, MapInv, TreeInv
<1>8. \A p \in DOMAIN g : g[p] \in Node \cup {Dangling}
  BY <1>2, <1>5 DEF MapInv, TypeOK
<1>9. IsFiniteSet(DOMAIN g) /\ IsFiniteSet(Live(tree))
  BY <1>2, FS_AddElement, FS_Subset DEF MapInv, CountInv, Live
<1>10. Cardinality(Live(g)) <= Cardinality(Live(tree)) + 1
  <2>1. at \notin Live(tree)
    BY <1>1 DEF Live
  <2>2. Cardinality(Live(tree) \cup {at}) = Cardinality(Live(tree)) + 1
    BY <1>9, <2>1, FS_AddElement
  <2>3. Cardinality(Live(tree)) \in Nat
    BY <1>9, FS_CardinalityType
  <2> QED
    BY <1>6, <2>2, <2>3
<1>11. Whole(tree) => Whole(g)
  BY <1>2, <1>5 DEF Whole
<1> QED
  BY <1>1, <1>3, <1>4, <1>6, <1>7, <1>8, <1>9, <1>10, <1>11 DEF g, at

LEMMA CutInv ==
  ASSUME MapInv, NEW k, Has(tree, SearchOrder, k)
  PROVE  LET c  == Cut(tree, SearchOrder, k)
             at == Stop(tree, SearchOrder, k)
         IN  /\ Shape(c) /\ Owned(c) /\ (Alike(owner) => Sorted(c, SearchOrder))
             /\ \A p \in DOMAIN c : c[p] \in Node \cup {Dangling}
             /\ IsFiniteSet(DOMAIN c) /\ Cardinality(Live(c)) <= Cardinality(Live(tree)) - 1
             /\ Cardinality(Live(tree)) \in Nat /\ Cardinality(Live(c)) \in Nat
             /\ (Whole(tree) /\ Below(tree, at) = {} => Whole(c))
             /\ Live(tree) \ Gone(tree, at) \subseteq Live(c)
<1> DEFINE at == Stop(tree, SearchOrder, k)
           c  == Cut(tree, SearchOrder, k)
<1>1. at \in Live(tree)
  BY HasIs DEF MapInv, TreeInv, Live
<1>2. /\ DOMAIN c \subseteq (DOMAIN tree \ Gone(tree, at)) \cup {at}
      /\ DOMAIN tree \ Gone(tree, at) \subseteq DOMAIN c
      /\ \A p \in DOMAIN tree \ Gone(tree, at) : c[p] = tree[p]
      /\ at \in DOMAIN c => c[at] = Dangling
      /\ Below(tree, at) = {} => at \notin DOMAIN c
  BY <1>1, CutIs DEF Live
<1>3. Shape(c) /\ (Alike(owner) => Sorted(c, SearchOrder))
  BY <1>1, CutShape, CutSorted DEF MapInv, TreeInv, Live
<1> HIDE DEF at, c
<1>4. at \in Gone(tree, at) /\ DOMAIN c \subseteq DOMAIN tree
  BY <1>1, <1>2 DEF Gone, Live
<1>5. Live(c) \subseteq Live(tree) \ {at} /\ \A p \in Live(c) : c[p] = tree[p]
  BY <1>2, <1>4 DEF Live
<1>6. Owned(c)
  BY <1>5 DEF MapInv, TreeInv, Owned
<1>7. \A p \in DOMAIN c : c[p] \in Node \cup {Dangling}
  BY <1>5 DEF Live, MapInv, TypeOK
<1>8. IsFiniteSet(DOMAIN c) /\ IsFiniteSet(Live(tree)) /\ IsFiniteSet(Live(tree) \ {at})
  BY <1>4, FS_Subset DEF MapInv, CountInv, Live
<1>9. /\ Cardinality(Live(tree) \ {at}) = Cardinality(Live(tree)) - 1
      /\ Cardinality(Live(tree)) \in Nat
  BY <1>1, <1>8, FS_RemoveElement, FS_CardinalityType
<1>10. Cardinality(Live(c)) <= Cardinality(Live(tree) \ {at}) /\ Cardinality(Live(c)) \in Nat
  BY <1>5, <1>8, FS_Subset, FS_CardinalityType
<1>11. Whole(tree) /\ Below(tree, at) = {} => Whole(c)
  BY <1>2 DEF Whole
<1>12. Live(tree) \ Gone(tree, at) \subseteq Live(c)
  BY <1>2 DEF Live
<1> QED
  BY <1>3, <1>6, <1>7, <1>8, <1>9, <1>10, <1>11, <1>12 DEF at, c

LEMMA ActMap ==
  ASSUME MapInv, Act, owner' = owner
  PROVE  MapInv'
<1> USE DEF Free, Returns
<1>0. /\ owner \in Owners /\ count \in Nat /\ torn \in BOOLEAN /\ ub \in BOOLEAN
      /\ op \in OpType /\ node \in NodeType /\ ret \in RetType
      /\ owner.keys \subseteq Keys /\ owner.vals \subseteq Vals
      /\ OpInv /\ NodeInv /\ TornInv /\ Shape(tree)
  BY OwnerType DEF MapInv, TypeOK, TreeInv, OpType, NodeType, RetType
<1>1. ASSUME NEW t \in Threads, NEW k \in owner.keys, NEW v \in owner.vals, InsertContains(t, k, v)
      PROVE  MapInv'
  <2>1. UNCHANGED <<owner, tree, count, node, torn>> /\ ~ub
    BY <1>1 DEF InsertContains
  <2>2. ~torn => ~ub'
    BY <1>0, <1>1, <2>1, WholeDescents DEF InsertContains, TornInv
  <2>3. \/ op' = op
        \/ op' = [op EXCEPT ![t] = [pc |-> "insert", key |-> k, val |-> v]]
    BY <1>1 DEF InsertContains
  <2>4. op' \in OpType /\ OpInv'
    BY <1>0, <2>1, <2>3 DEF OpType, OpInv
  <2>5. ret' \in RetType /\ ub' \in BOOLEAN
    BY <1>0, <1>1 DEF InsertContains, RetType
  <2>6. node' \in NodeType /\ NodeInv' /\ (~torn => \A u \in Threads : node'[u] # Dangling)
    BY <2>1, NodesKept
  <2> QED
    BY <2>1, <2>2, <2>4, <2>5, <2>6, TreeKept
<1>2. ASSUME NEW t \in Threads, InsertNode(t) PROVE MapInv'
  <2> DEFINE k == op[t].key
             v == op[t].val
  <2>1. k \in owner.keys /\ v \in owner.vals /\ ~ub /\ UNCHANGED <<node, torn>>
    BY <1>0, <1>2 DEF InsertNode, OpInv
  <2>2. op' = op \/ op' = [op EXCEPT ![t] = Idle]
    BY <1>2 DEF InsertNode
  <2>3. op' \in OpType /\ OpInv'
    BY <1>0, <2>2 DEF OpType, OpInv, Idle
  <2>4. ret' \in RetType /\ ub' \in BOOLEAN
    BY <1>0, <1>2 DEF InsertNode, RetType
  <2>5. ~torn => ~ub'
    BY <1>0, <1>2, <2>1, WholeDescents DEF InsertNode, TornInv
  <2>6. CASE UNCHANGED <<tree, count>>
    <3>1. node' \in NodeType /\ NodeInv' /\ (~torn => \A u \in Threads : node'[u] # Dangling)
      BY <2>1, <2>6, NodesKept
    <3> QED
      BY <2>1, <2>3, <2>4, <2>5, <2>6, <3>1, TreeKept
  <2>7. CASE ~Falls(tree, InsertOrder, k) /\ ~Has(tree, InsertOrder, k)
    <3>1. /\ tree' = Grow(tree, InsertOrder, k, v)
          /\ count' = IF tree = Empty THEN 1 ELSE count + 1
      BY <1>2, <2>7 DEF InsertNode
    <3>2. /\ Shape(tree') /\ Owned(tree') /\ (Alike(owner) => Sorted(tree', SearchOrder))
          /\ \A p \in DOMAIN tree' : tree'[p] \in Node \cup {Dangling}
          /\ IsFiniteSet(DOMAIN tree') /\ Cardinality(Live(tree')) <= Cardinality(Live(tree)) + 1
          /\ (Whole(tree) => Whole(tree')) /\ Live(tree) \subseteq Live(tree')
      BY <2>1, <2>7, <3>1, GrowInv
    <3>3. IsFiniteSet(Live(tree)) /\ Cardinality(Live(tree)) \in Nat /\ Cardinality(Live(tree')) \in Nat
      BY <3>2, FS_Subset, FS_CardinalityType DEF MapInv, CountInv, Live
    <3>4. tree = Empty => Cardinality(Live(tree)) = 0
      <4>1. tree = Empty => Live(tree) = {}
        BY DEF Live, Empty
      <4> QED
        BY <4>1, FS_EmptySet
    <3>5. count' \in Nat /\ Cardinality(Live(tree')) <= count'
      BY <1>0, <3>1, <3>2, <3>3, <3>4 DEF MapInv, CountInv
    <3>6. node' \in NodeType /\ NodeInv' /\ (~torn => \A u \in Threads : node'[u] # Dangling)
      BY <2>1, <3>2, NodesKept
    <3>7. TypeOK'
      <4>1. DOMAIN tree' \subseteq Seq(Turns)
        BY <3>2 DEF Shape, Path
      <4> QED
        BY <1>0, <2>1, <2>3, <2>4, <3>2, <3>5, <3>6, <4>1 DEF TypeOK, OpType, NodeType, RetType
    <3>8. TreeInv'
      BY <3>2 DEF TreeInv, Owned, Alike
    <3>9. CountInv'
      BY <3>2, <3>5 DEF CountInv
    <3>10. TornInv'
      BY <1>0, <2>1, <2>5, <3>2, <3>6 DEF TornInv
    <3> QED
      BY <2>3, <3>6, <3>7, <3>8, <3>9, <3>10 DEF MapInv
  <2> QED
    BY <1>2, <2>6, <2>7 DEF InsertNode
<1>3. ASSUME NEW t \in Threads, NEW k \in owner.keys, Remove(t, k) PROVE MapInv'
  <2> DEFINE at == Stop(tree, SearchOrder, k)
  <2>1. op' = op /\ ~ub
    BY <1>3 DEF Remove
  <2>2. op' \in OpType /\ OpInv'
    BY <1>0, <2>1 DEF OpInv
  <2>3. ~torn => ~ub'
    BY <1>0, <1>3, <2>1, WholeDescents DEF Remove, TornInv
  <2>4. ret' \in RetType /\ ub' \in BOOLEAN
    BY <1>0, <1>3 DEF Remove, RetType, Has
  <2>5. CASE UNCHANGED <<tree, count, node, torn>>
    <3>1. node' \in NodeType /\ NodeInv' /\ (~torn => \A u \in Threads : node'[u] # Dangling)
      BY <2>5, NodesKept
    <3> QED
      BY <2>1, <2>2, <2>3, <2>4, <2>5, <3>1, TreeKept
  <2>6. CASE Has(tree, SearchOrder, k) /\ UNCHANGED ub /\ ~ (Falls(tree, SearchOrder, k) \/ WalkFalls(tree))
    <3>1. /\ tree' = Cut(tree, SearchOrder, k) /\ count' = count - 1
          /\ Frees(Gone(tree, at))
          /\ torn' = (torn \/ Below(tree, at) # {} \/ Found({at}))
      BY <1>3, <2>6 DEF Remove
    <3>2. /\ Shape(tree') /\ Owned(tree') /\ (Alike(owner) => Sorted(tree', SearchOrder))
          /\ \A p \in DOMAIN tree' : tree'[p] \in Node \cup {Dangling}
          /\ IsFiniteSet(DOMAIN tree') /\ Cardinality(Live(tree')) <= Cardinality(Live(tree)) - 1
          /\ Cardinality(Live(tree)) \in Nat /\ Cardinality(Live(tree')) \in Nat
          /\ (Whole(tree) /\ Below(tree, at) = {} => Whole(tree'))
          /\ Live(tree) \ Gone(tree, at) \subseteq Live(tree')
      BY <2>6, <3>1, CutInv
    <3> HIDE DEF at
    <3>3. count' \in Nat /\ Cardinality(Live(tree')) <= count'
      BY <1>0, <3>1, <3>2 DEF MapInv, CountInv
    <3>4. /\ node' \in NodeType /\ NodeInv'
          /\ ~torn /\ ~Found(Gone(tree, at)) => \A u \in Threads : node'[u] # Dangling
      BY <3>1, <3>2, NodesFreed
    <3>5. torn' \in BOOLEAN
      BY <3>1
    <3>6. TypeOK'
      <4>1. DOMAIN tree' \subseteq Seq(Turns)
        BY <3>2 DEF Shape, Path
      <4> QED
        BY <1>0, <2>2, <2>4, <3>2, <3>3, <3>4, <3>5, <4>1 DEF TypeOK, OpType, NodeType, RetType
    <3>7. TreeInv' /\ CountInv'
      BY <3>2, <3>3 DEF TreeInv, Owned, Alike, CountInv
    <3>8. TornInv'
      <4>1. ~torn' => ~torn /\ Below(tree, at) = {} /\ ~Found(Gone(tree, at))
        BY <3>1 DEF Gone
      <4> QED
        BY <1>0, <2>3, <3>2, <3>4, <4>1 DEF TornInv
    <3> QED
      BY <2>2, <3>4, <3>6, <3>7, <3>8 DEF MapInv
  <2> QED
    BY <1>3, <2>5, <2>6 DEF Remove
<1>4. ASSUME NEW t \in Threads, Clear(t) PROVE MapInv'
  <2>1. UNCHANGED <<count, op, ret>> /\ ~ub /\ ub' \in BOOLEAN /\ torn' \in BOOLEAN
    BY <1>0, <1>4 DEF Clear
  <2>2. ~torn => ~ub'
    BY <1>0, <1>4, <2>1, WholeDescents DEF Clear, TornInv
  <2>3. OpInv'
    BY <1>0, <2>1 DEF OpInv
  <2>4. CASE UNCHANGED <<tree, node, torn>>
    <3>1. node' \in NodeType /\ NodeInv' /\ (~torn => \A u \in Threads : node'[u] # Dangling)
      BY <2>4, NodesKept
    <3> QED
      BY <1>0, <2>1, <2>2, <2>3, <2>4, <3>1, TreeKept
  <2>5. CASE tree' = Empty /\ Frees(DOMAIN tree) /\ torn' = (torn \/ Found(DOMAIN tree))
    <3>1. DOMAIN tree' = {} /\ Live(tree') = {} /\ Shape(tree') /\ Sorted(tree', SearchOrder)
      BY <2>5, EmptyShape DEF Live, Empty
    <3>2. /\ node' \in NodeType /\ NodeInv'
          /\ ~torn /\ ~Found(DOMAIN tree) => \A u \in Threads : node'[u] # Dangling
      <4>1. Live(tree) \ DOMAIN tree \subseteq Live(tree')
        BY DEF Live
      <4> QED
        BY <2>5, <4>1, NodesFreed
    <3>3. TypeOK'
      BY <1>0, <2>1, <3>1, <3>2 DEF TypeOK, OpType, NodeType, RetType
    <3>4. TreeInv'
      BY <3>1 DEF TreeInv, Owned
    <3>5. TornInv'
      BY <1>0, <2>1, <2>2, <2>5, <3>1, <3>2 DEF TornInv, Whole
    <3>6. CountInv'
      BY <1>0, <2>1, <3>1, FS_EmptySet DEF CountInv
    <3> QED
      BY <2>3, <3>2, <3>3, <3>4, <3>5, <3>6 DEF MapInv
  <2> QED
    BY <1>4, <2>4, <2>5 DEF Clear
<1>5. ASSUME NEW t \in Threads, NEW k \in owner.keys, Lookup(t, k) PROVE MapInv'
  <2> DEFINE at == Stop(tree, SearchOrder, k)
  <2>1. UNCHANGED <<owner, tree, count, op, torn>> /\ ~ub
    BY <1>5 DEF Lookup
  <2>2. ~torn => ~ub'
    BY <1>0, <1>5, <2>1, WholeDescents DEF Lookup, TornInv
  <2>3. op' \in OpType /\ OpInv' /\ ub' \in BOOLEAN /\ ret' \in RetType
    BY <1>0, <1>5, <2>1 DEF OpInv, Lookup, RetType
  <2>4. node' \in NodeType /\ NodeInv' /\ (~torn => \A u \in Threads : node'[u] # Dangling)
    <3>1. CASE node' = node
      BY <2>1, <3>1, NodesKept
    <3>2. CASE Has(tree, SearchOrder, k) /\ node' = [node EXCEPT ![t] = at]
      <4>1. at \in Live(tree) /\ at \in Seq(Turns)
        BY <1>0, <3>2, HasIs DEF Live, Shape, Path
      <4>2. at # Dangling
        BY <4>1, StringMapOK
      <4> HIDE DEF at
      <4>3. node' \in NodeType /\ \A u \in Threads : node'[u] = IF u = t THEN at ELSE node[u]
        BY <1>0, <3>2, <4>1 DEF NodeType
      <4> QED
        BY <1>0, <2>1, <4>1, <4>2, <4>3 DEF NodeInv, TornInv, Live
    <3> QED
      BY <1>5, <3>1, <3>2 DEF Lookup
  <2> QED
    BY <2>1, <2>2, <2>3, <2>4, TreeKept
<1>6. ASSUME NEW t \in Threads, LookupValue(t) PROVE MapInv'
  <2>1. UNCHANGED <<owner, tree, count, op, torn>> /\ ~ub /\ node[t] # NULL
    BY <1>6 DEF LookupValue
  <2>2. ~torn => ~ub'
    BY <1>0, <1>6, <2>1 DEF LookupValue, TornInv
  <2>3. op' \in OpType /\ OpInv' /\ ub' \in BOOLEAN
    BY <1>0, <1>6, <2>1 DEF OpInv, LookupValue
  <2>4. node[t] # Dangling => tree[node[t]].val \in Vals
    BY <1>0, <2>1 DEF NodeInv, MapInv, TreeInv, Owned
  <2>5. ret' \in RetType
    BY <1>0, <1>6, <2>4 DEF LookupValue, RetType
  <2>6. node' \in NodeType /\ \A u \in Threads : node'[u] \in {node[u], NULL}
    BY <1>0, <1>6 DEF LookupValue, NodeType
  <2>7. NodeInv' /\ (~torn => \A u \in Threads : node'[u] # Dangling)
    BY <1>0, <2>1, <2>6, StringMapOK DEF NodeInv, TornInv, Live
  <2> QED
    BY <2>1, <2>2, <2>3, <2>5, <2>6, <2>7, TreeKept
<1> QED
  BY <1>1, <1>2, <1>3, <1>4, <1>5, <1>6 DEF Act

LEMMA NextMap == MapInv /\ [Next \/ Stopped]_vars => MapInv'
<1>1. ASSUME MapInv, UNCHANGED vars PROVE MapInv'
  <2>1. UNCHANGED <<owner, tree, count, op, node, ret, ub, torn>>
    BY <1>1 DEF vars
  <2> QED
    BY <1>1, <2>1 DEF MapInv, TypeOK, TreeInv, Owned, Live, Alike, CountInv, OpInv, NodeInv, TornInv, Whole
<1> QED
  BY <1>1, ActMap DEF Next, Stopped

\* TypeOK; that the count stays a natural says that remove never takes it
\* below zero (map->count, map.c).
THEOREM TypeCorrect == Spec => []TypeOK
<1>1. MapInv => TypeOK
  BY DEF MapInv
<1> QED
  BY <1>1, InitMap, NextMap, PTL DEF Spec

\* InsertedIsFound: where the orders agree, search finds every node of the
\* tree, whatever insert, remove and clear have made of it (map.c, search).
THEOREM EveryNodeFound == Spec => []InsertedIsFound
<1>1. MapInv => InsertedIsFound
  BY FoundThere DEF MapInv, TreeInv, InsertedIsFound
<1> QED
  BY <1>1, InitMap, NextMap, PTL DEF Spec

\* NoFreedNodeRead: only after remove has spliced out a node with children can
\* a descent or a walk read a freed node.
THEOREM ReadsLiveNodes == Spec => []NoFreedNodeRead
<1>1. MapInv => NoFreedNodeRead
  BY DEF MapInv, TornInv, NoFreedNodeRead
<1> QED
  BY <1>1, InitMap, NextMap, PTL DEF Spec

-----------------------------------------------------------------------------
\* The dictionary that a tree stands for.

Held(tr) == {j \in Keys : ~Falls(tr, SearchOrder, j) /\ Has(tr, SearchOrder, j)}
DictOf(tr) == [j \in Held(tr) |-> Value(tr, SearchOrder, j)]

\* A whole tree in order, with keys of the map.
Good(tr) ==
  /\ Shape(tr) /\ Whole(tr) /\ Sorted(tr, SearchOrder)
  /\ \A p \in DOMAIN tr : tr[p].key \in Keys

LEMMA HeldIs ==
  ASSUME NEW tr, Good(tr), NEW j \in Keys
  PROVE  /\ j \in Held(tr) <=> \E p \in DOMAIN tr : tr[p].key = j
         /\ \A p \in DOMAIN tr : tr[p].key = j => p = Stop(tr, SearchOrder, j)
<1>1. ASSUME NEW p \in DOMAIN tr, tr[p].key = j PROVE p = Stop(tr, SearchOrder, j)
  BY <1>1, FoundThere DEF Good, Whole
<1>2. ASSUME NEW p \in DOMAIN tr, tr[p].key = j PROVE j \in Held(tr)
  BY <1>1, <1>2 DEF Held, Has, Falls, Good, Whole
<1>3. ASSUME j \in Held(tr) PROVE \E p \in DOMAIN tr : tr[p].key = j
  <2>1. /\ Stop(tr, SearchOrder, j) \in DOMAIN tr
        /\ SearchOrder[j] = SearchOrder[tr[Stop(tr, SearchOrder, j)].key]
    BY <1>3, HasIs DEF Held, Good
  <2> QED
    BY <2>1, Orders DEF Good, SearchOrder
<1> QED
  BY <1>1, <1>2, <1>3

LEMMA DictIs == dict = DictOf(tree) /\ DOMAIN dict = Held(tree)
  BY DEF dict, DictOf, Held

LEMMA GoodTree ==
  ASSUME MapInv, Alike(owner), ~torn
  PROVE  Good(tree)
  BY OwnerType DEF MapInv, TreeInv, TornInv, Owned, Live, Whole, Good

LEMMA GrowDict ==
  ASSUME MapInv, Alike(owner), ~torn, NEW k \in owner.keys, NEW v \in owner.vals,
         ~Has(tree, InsertOrder, k), ~Falls(tree, InsertOrder, k)
  PROVE  /\ k \notin Held(tree)
         /\ DictOf(Grow(tree, InsertOrder, k, v)) =
              [j \in Held(tree) \cup {k} |-> IF j = k THEN v ELSE DictOf(tree)[j]]
<1> DEFINE at == Stop(tree, InsertOrder, k)
           g  == Grow(tree, InsertOrder, k, v)
           n  == [key |-> k, val |-> v]
<1>1. k \in Keys /\ Good(tree)
  BY OwnerType, GoodTree DEF MapInv
<1>2. at \notin DOMAIN tree /\ at = Stop(tree, SearchOrder, k)
  BY OneOrder DEF Has, Falls
<1>3. k \notin Held(tree)
  BY <1>2 DEF Held, Has
<1>4. DOMAIN g = DOMAIN tree \cup {at} /\ g[at] = n /\ \A p \in DOMAIN tree : g[p] = tree[p]
  BY <1>2 DEF Grow
<1>5. n.key = k /\ n.val = v
  OBVIOUS
<1>6. Shape(g) /\ Sorted(g, SearchOrder) /\ Whole(g)
  BY <1>1, GrowInv DEF Good
<1> HIDE DEF at, g, n
<1>7. Good(g)
  BY <1>1, <1>4, <1>5, <1>6 DEF Good
<1>8. Held(g) = Held(tree) \cup {k}
  <2>1. ASSUME NEW j \in Keys PROVE j \in Held(g) <=> j \in Held(tree) \/ j = k
    BY <1>1, <1>4, <1>5, <1>7, HeldIs
  <2> QED
    BY <1>1, <2>1 DEF Held
<1>9. ASSUME NEW j \in Held(tree) PROVE Value(g, SearchOrder, j) = Value(tree, SearchOrder, j) /\ j # k
  <2>1. j \in Keys
    BY DEF Held
  <2>2. PICK p \in DOMAIN tree : tree[p].key = j
    BY <1>1, <2>1, HeldIs
  <2>3. p = Stop(tree, SearchOrder, j) /\ p = Stop(g, SearchOrder, j)
    BY <1>1, <1>4, <1>7, <2>1, <2>2, HeldIs
  <2> QED
    BY <1>3, <1>4, <2>3 DEF Value
<1>10. Value(g, SearchOrder, k) = v
  <2>1. at = Stop(g, SearchOrder, k)
    BY <1>1, <1>4, <1>5, <1>7, HeldIs
  <2> QED
    BY <1>4, <1>5, <2>1 DEF Value
<1>11. DictOf(g) = [j \in Held(tree) \cup {k} |-> IF j = k THEN v ELSE DictOf(tree)[j]]
  BY <1>8, <1>9, <1>10 DEF DictOf
<1> QED
  BY <1>3, <1>11 DEF g

LEMMA CutDict ==
  ASSUME MapInv, Alike(owner), ~torn, NEW k \in owner.keys, Has(tree, SearchOrder, k),
         Below(tree, Stop(tree, SearchOrder, k)) = {}
  PROVE  DictOf(Cut(tree, SearchOrder, k)) = [j \in Held(tree) \ {k} |-> DictOf(tree)[j]]
<1> DEFINE at == Stop(tree, SearchOrder, k)
           c  == Cut(tree, SearchOrder, k)
<1>1. k \in Keys /\ Good(tree)
  BY OwnerType, GoodTree DEF MapInv
<1>2. at \in DOMAIN tree /\ tree[at].key = k
  <2>1. at \in DOMAIN tree /\ SearchOrder[k] = SearchOrder[tree[at].key]
    BY <1>1, HasIs DEF Good
  <2> QED
    BY <1>1, <2>1, Orders DEF Good, SearchOrder
<1>3. DOMAIN c = DOMAIN tree \ {at} /\ \A p \in DOMAIN tree \ {at} : c[p] = tree[p]
  BY <1>2 DEF Cut, Gone
<1>4. Shape(c) /\ Sorted(c, SearchOrder) /\ Whole(c)
  BY <1>1, CutInv DEF Good
<1> HIDE DEF at, c
<1>5. Good(c)
  BY <1>1, <1>3, <1>4 DEF Good
<1>6. \A p \in DOMAIN tree : tree[p].key = k => p = at
  BY <1>1, <1>2, HeldIs
<1>7. Held(c) = Held(tree) \ {k}
  <2>1. ASSUME NEW j \in Keys PROVE j \in Held(c) <=> j \in Held(tree) /\ j # k
    BY <1>1, <1>2, <1>3, <1>5, <1>6, HeldIs
  <2> QED
    BY <2>1 DEF Held
<1>8. ASSUME NEW j \in Held(c) PROVE Value(c, SearchOrder, j) = Value(tree, SearchOrder, j)
  <2>1. j \in Keys
    BY DEF Held
  <2>2. PICK p \in DOMAIN c : c[p].key = j
    BY <1>5, <2>1, HeldIs
  <2>3. p = Stop(tree, SearchOrder, j) /\ p = Stop(c, SearchOrder, j)
    BY <1>1, <1>3, <1>5, <2>1, <2>2, HeldIs
  <2> QED
    BY <1>3, <2>2, <2>3 DEF Value
<1>9. DictOf(c) = [j \in Held(tree) \ {k} |-> DictOf(tree)[j]]
  BY <1>7, <1>8 DEF DictOf
<1> QED
  BY <1>9 DEF c

LEMMA EmptyDict == DictOf(Empty) = [j \in {} |-> NULL]
<1>1. Held(Empty) = {}
  BY DEF Held, Has, Empty
<1> QED
  BY <1>1 DEF DictOf

-----------------------------------------------------------------------------
\* The refinement, one operation at a time.

LEMMA InitDict == Init => Promise!Init
  BY DictIs, EmptyDict DEF Init, Promise!Init

\* A step that leaves the tree leaves the dictionary.
LEMMA DictKept ==
  ASSUME UNCHANGED <<tree, owner>>
  PROVE  dict' = dict
  BY DEF dict

LEMMA StepIsPromised ==
  ASSUME MapInv, Act, owner' = owner, Alike(owner), ~torn'
  PROVE  Promise!Next \/ UNCHANGED <<dict, ret>>
<1> USE DEF Free, Returns, Promise!Returns
<1>1. /\ owner.keys \subseteq Keys /\ owner.vals \subseteq Vals
      /\ dict = DictOf(tree) /\ DOMAIN dict = Held(tree)
  BY OwnerType, DictIs DEF MapInv
<1>2. dict' = DictOf(tree')
  BY DEF dict, DictOf, Held, SearchOrder
<1>3. ~torn
  BY DEF Act, InsertContains, InsertNode, Remove, Clear, Lookup, LookupValue
<1>4. Good(tree) /\ \A ord, k : ~Falls(tree, ord, k)
  BY <1>3, GoodTree, WholeDescents DEF Good
<1>5. ~WalkFalls(tree)
  BY <1>4 DEF Good, Whole, WalkFalls
<1>6. ASSUME NEW t \in Threads, NEW k \in owner.keys, NEW v \in owner.vals, InsertContains(t, k, v)
      PROVE  Promise!Next \/ UNCHANGED <<dict, ret>>
  <2>1. UNCHANGED <<tree, owner>> /\ dict' = dict
    BY <1>6, DictKept DEF InsertContains
  <2>2. CASE Has(tree, SearchOrder, k)
    <3>1. k \in DOMAIN dict
      BY <1>1, <1>4, <2>2 DEF Held
    <3>2. Promise!Insert(t, k, v)
      BY <1>4, <1>6, <2>1, <2>2, <3>1 DEF InsertContains, Promise!Insert
    <3> QED
      BY <1>1, <3>2 DEF Promise!Next
  <2>3. CASE ~Has(tree, SearchOrder, k)
    BY <1>4, <1>6, <2>1, <2>3 DEF InsertContains
  <2> QED
    BY <2>2, <2>3
<1>7. ASSUME NEW t \in Threads, InsertNode(t) PROVE Promise!Next \/ UNCHANGED <<dict, ret>>
  <2> DEFINE k == op[t].key
             v == op[t].val
  <2>1. k \in owner.keys /\ v \in owner.vals
    BY <1>7 DEF InsertNode, MapInv, OpInv
  <2>2. CASE Has(tree, InsertOrder, k)
    <3>1. k \in Held(tree)
      BY <1>1, <1>4, <2>1, <2>2, OneOrder DEF Has, Held
    <3>2. dict' = dict /\ ret' = [ret EXCEPT ![t] = FALSE]
      BY <1>4, <1>7, <2>2, DictKept DEF InsertNode
    <3>3. Promise!Insert(t, k, v)
      BY <1>1, <3>1, <3>2 DEF Promise!Insert
    <3> QED
      BY <1>1, <2>1, <3>3 DEF Promise!Next
  <2>3. CASE ~Has(tree, InsertOrder, k)
    <3>1. tree' = Grow(tree, InsertOrder, k, v) /\ ret' = [ret EXCEPT ![t] = TRUE]
      BY <1>4, <1>7, <2>3 DEF InsertNode
    <3>2. k \notin Held(tree)
          /\ DictOf(tree') = [j \in Held(tree) \cup {k} |-> IF j = k THEN v ELSE DictOf(tree)[j]]
      BY <1>3, <1>4, <2>1, <2>3, <3>1, GrowDict
    <3> HIDE DEF k, v
    <3>3. Promise!Insert(t, k, v)
      BY <1>1, <1>2, <3>1, <3>2 DEF Promise!Insert
    <3> QED
      BY <1>1, <2>1, <3>3 DEF Promise!Next
  <2> QED
    BY <2>2, <2>3
<1>8. ASSUME NEW t \in Threads, NEW k \in owner.keys, Remove(t, k)
      PROVE  Promise!Next \/ UNCHANGED <<dict, ret>>
  <2>1. k \in DOMAIN dict <=> Has(tree, SearchOrder, k)
    BY <1>1, <1>4 DEF Held
  <2>2. ret' = [ret EXCEPT ![t] = k \in DOMAIN dict]
    <3>1. (k \in DOMAIN dict) = Has(tree, SearchOrder, k)
      <4>1. Has(tree, SearchOrder, k) \in BOOLEAN
        BY DEF Has
      <4> QED
        BY <2>1, <4>1
    <3>2. ret' = [ret EXCEPT ![t] = Has(tree, SearchOrder, k)]
      BY <1>4, <1>5, <1>8 DEF Remove
    <3> QED
      BY <3>1, <3>2, Zenon
  <2>3. dict' = [j \in DOMAIN dict \ {k} |-> dict[j]]
    <3>1. CASE Has(tree, SearchOrder, k)
      <4>1. /\ tree' = Cut(tree, SearchOrder, k)
            /\ Below(tree, Stop(tree, SearchOrder, k)) = {}
        BY <1>4, <1>5, <1>8, <3>1 DEF Remove
      <4> QED
        BY <1>1, <1>2, <1>3, <3>1, <4>1, CutDict
    <3>2. CASE ~Has(tree, SearchOrder, k)
      <4>1. dict' = dict /\ DOMAIN dict \ {k} = DOMAIN dict
        BY <1>4, <1>8, <2>1, <3>2, DictKept DEF Remove
      <4>2. dict = [j \in DOMAIN dict |-> dict[j]]
        BY DEF dict
      <4> QED
        BY <4>1, <4>2
    <3> QED
      BY <3>1, <3>2
  <2>4. Promise!Remove(t, k)
    BY <2>2, <2>3 DEF Promise!Remove
  <2> QED
    BY <1>1, <2>4 DEF Promise!Next
<1>9. ASSUME NEW t \in Threads, Clear(t) PROVE Promise!Next \/ UNCHANGED <<dict, ret>>
  <2>1. tree' = Empty /\ ret' = ret
    BY <1>5, <1>9 DEF Clear
  <2>2. Promise!Clear
    BY <1>2, <2>1, EmptyDict DEF Promise!Clear
  <2> QED
    BY <2>2 DEF Promise!Next
<1>10. ASSUME NEW t \in Threads, NEW k \in owner.keys, Lookup(t, k)
       PROVE  Promise!Next \/ UNCHANGED <<dict, ret>>
  <2>1. dict' = dict
    BY <1>10, DictKept DEF Lookup
  <2>2. CASE Has(tree, SearchOrder, k)
    BY <1>4, <1>10, <2>1, <2>2 DEF Lookup
  <2>3. CASE ~Has(tree, SearchOrder, k)
    <3>1. k \notin DOMAIN dict
      BY <1>1, <2>3 DEF Held
    <3>2. Promise!Lookup(t, k)
      BY <1>4, <1>10, <2>1, <2>3, <3>1 DEF Lookup, Promise!Lookup
    <3> QED
      BY <1>1, <3>2 DEF Promise!Next
  <2> QED
    BY <2>2, <2>3
<1>11. ASSUME NEW t \in Threads, LookupValue(t)
       PROVE  Promise!Next \/ UNCHANGED <<dict, ret>>
  <2> DEFINE p == node[t]
             k == tree[p].key
  <2>1. p # Dangling /\ p \in DOMAIN tree
    BY <1>3, <1>11 DEF LookupValue, MapInv, TornInv, NodeInv, Live
  <2>2. k \in Keys
    BY <1>4, <2>1 DEF Good
  <2>3. k \in Held(tree) /\ p = Stop(tree, SearchOrder, k)
    BY <1>4, <2>1, <2>2, HeldIs
  <2>4. k \in DOMAIN dict /\ dict[k] = tree[p].val
    BY <1>1, <2>3 DEF DictOf, Value
  <2>5. dict' = dict /\ ret' = [ret EXCEPT ![t] = tree[p].val]
    BY <1>11, <2>1, DictKept DEF LookupValue
  <2> HIDE DEF p, k
  <2>6. Promise!Lookup(t, k)
    BY <2>4, <2>5 DEF Promise!Lookup
  <2> QED
    BY <2>2, <2>6 DEF Promise!Next
<1> QED
  BY <1>6, <1>7, <1>8, <1>9, <1>10, <1>11 DEF Act

\* ImplementsDictionary: where the orders agree, and until remove splices out a
\* node with children, every step of a call is an operation of a dictionary or
\* none (map.c).
THEOREM StepsArePromised == Spec => ImplementsDictionary
<1>1. MapInv /\ [Next \/ Stopped]_vars =>
        [Alike(owner) /\ ~torn' => Promise!Next \/ UNCHANGED <<dict, ret>>]_vars
  BY StepIsPromised DEF Next, Stopped
<1> QED
  BY <1>1, InitMap, NextMap, PTL DEF Spec, ImplementsDictionary

\* The dictionary is implemented as long as the orders agree and no node with
\* children has been removed (map.c).
THEOREM MapIsDictionary ==
  Spec /\ [](Alike(owner) /\ ~torn) => Promise!Spec
<1>1. MapInv /\ [Next \/ Stopped]_vars /\ Alike(owner) /\ (~torn)' => [Promise!Next]_<<dict, ret>>
  <2>1. CASE UNCHANGED vars
    BY <2>1, DictKept DEF vars
  <2>2. ASSUME MapInv, Next, Alike(owner), ~torn' PROVE [Promise!Next]_<<dict, ret>>
    BY <2>2, StepIsPromised DEF Next
  <2> QED
    BY <2>1, <2>2 DEF Stopped
<1> QED
  BY <1>1, InitDict, InitMap, NextMap, PTL DEF Spec, Promise!Spec, Promise!vars

\* So a map that is only added to and whose orders agree, as those of the
\* assembler (asm.c), implements the dictionary for good.
THEOREM AddedToIsDictionary ==
  Spec /\ Alike(owner) /\ ~owner.removes => Promise!Spec
<1> DEFINE Kept == Alike(owner) /\ ~owner.removes /\ ~torn
<1>1. Init /\ Alike(owner) /\ ~owner.removes => Kept
  BY DEF Init
<1>2. Kept /\ [Next \/ Stopped]_vars => Kept'
  <2>1. CASE UNCHANGED vars
    BY <2>1 DEF vars, Alike
  <2>2. ASSUME Kept, Next PROVE Kept'
    <3>1. owner' = owner
      BY <2>2 DEF Next
    <3>2. torn' = torn
      BY <2>2 DEF Next, Act, InsertContains, InsertNode, Remove, Clear, Lookup, LookupValue
    <3> QED
      BY <2>2, <3>1, <3>2 DEF Alike
  <2> QED
    BY <2>1, <2>2 DEF Stopped
<1>3. Kept => Alike(owner) /\ ~torn
  OBVIOUS
<1> QED
  BY <1>1, <1>2, <1>3, MapIsDictionary, PTL DEF Spec

=============================================================================
