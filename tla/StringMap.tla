------------------------------ MODULE StringMap ------------------------------
(***************************************************************************)
(* A string map (src/lib/map.c) and the threads that call it.  What is     *)
(* done under the lock of the map is one action; but insert asks contains  *)
(* first, under a lock of its own, and lookup reads the node it has found  *)
(* when it no longer holds one.  Search, which always compares case, and   *)
(* insert, which folds it in a map declared case-insensitive, do not       *)
(* follow one order.                                                       *)
(***************************************************************************)
EXTENDS StringTree

CONSTANTS
  Keys, Vals, Threads, NULL,
  CaseOrder,        \* the order of strcmp
  FoldedOrder,      \* the order of strcasecmp
  Owners            \* whose map it may be: [fold, removes, keys, vals], for
                    \* map->case_insensitive, whether the owner removes and
                    \* clears, and what it inserts

ASSUME StringMapOK ==
  /\ CaseOrder \in [Keys -> Nat] /\ FoldedOrder \in [Keys -> Nat]
  /\ \A j, k \in Keys : j # k => CaseOrder[j] # CaseOrder[k]
  /\ Owners \subseteq [fold : BOOLEAN, removes : BOOLEAN, keys : SUBSET Keys, vals : SUBSET Vals]
  /\ NULL \notin Vals /\ Dangling \notin [key : Keys, val : Vals] \cup Seq(Turns) \cup {NULL}

VARIABLES
  owner,    \* whose map it is
  tree,     \* map->root and what hangs from it
  count,    \* map->count
  op,       \* the insert each thread is in the middle of
  node,     \* the node each thread's lookup has found
  ret,      \* the result of the last call of each thread
  ub,       \* a freed node has been read
  torn      \* history: a node with children, or one a lookup has found, has been freed

vars == <<owner, tree, count, op, node, ret, ub, torn>>

Idle == [pc |-> "idle", key |-> NULL, val |-> NULL]
Node == [key : Keys, val : Vals]

TypeOK ==
  /\ owner \in Owners
  /\ DOMAIN tree \subseteq Seq(Turns)
  /\ \A p \in DOMAIN tree : tree[p] \in Node \cup {Dangling}
  /\ count \in Nat
  /\ op \in [Threads -> [pc : {"idle", "insert"}, key : Keys \cup {NULL}, val : Vals \cup {NULL}]]
  /\ node \in [Threads -> Seq(Turns) \cup {NULL, Dangling}]
  /\ ret \in [Threads -> Vals \cup {TRUE, FALSE, NULL}]
  /\ ub \in BOOLEAN /\ torn \in BOOLEAN

Init ==
  /\ owner \in Owners
  /\ tree = Empty /\ count = 0
  /\ op = [t \in Threads |-> Idle]
  /\ node = [t \in Threads |-> NULL]
  /\ ret = [t \in Threads |-> NULL]
  /\ ub = FALSE /\ torn = FALSE

SearchOrder == CaseOrder

\* A bug: every map folds case when it inserts.
FoldAlways == FoldedOrder
InsertOrder == IF owner.fold THEN FoldedOrder ELSE CaseOrder

-----------------------------------------------------------------------------
\* The operations.

Free(t) == ~ub /\ op[t].pc = "idle" /\ node[t] = NULL
Returns(t, r) == ret' = [ret EXCEPT ![t] = r]

\* insert, first part: nothing to do if contains finds the key.  (It releases
\* the lock it does not hold, which the recursive mutex refuses.)
InsertContains(t, k, v) ==
  /\ Free(t)
  /\ IF Falls(tree, SearchOrder, k) THEN ub' = TRUE /\ UNCHANGED <<op, ret>>
     ELSE IF Has(tree, SearchOrder, k) THEN Returns(t, FALSE) /\ UNCHANGED <<op, ub>>
     ELSE op' = [op EXCEPT ![t] = [pc |-> "insert", key |-> k, val |-> v]] /\ UNCHANGED <<ret, ub>>
  /\ UNCHANGED <<tree, count, node, torn>>

\* insert, second part: the leaf goes where the descent ends; if that is at an
\* equal key the new node is lost.
InsertNode(t) ==
  LET k == op[t].key IN
  /\ ~ub /\ op[t].pc = "insert"
  /\ IF Falls(tree, InsertOrder, k) THEN ub' = TRUE /\ UNCHANGED <<tree, count, op, ret>>
     ELSE /\ IF Has(tree, InsertOrder, k) THEN UNCHANGED <<tree, count>> /\ Returns(t, FALSE)
             ELSE /\ tree' = Grow(tree, InsertOrder, k, op[t].val)
                  /\ count' = IF tree = Empty THEN 1 ELSE count + 1
                  /\ Returns(t, TRUE)
          /\ op' = [op EXCEPT ![t] = Idle]
          /\ UNCHANGED ub
  /\ UNCHANGED <<node, torn>>

\* What happens to the lookups that have found a node which is freed.
Frees(S) == node' = [u \in Threads |-> IF node[u] \in S THEN Dangling ELSE node[u]]
Found(S) == \E u \in Threads : node[u] \in S

\* A bug: the count goes down whether or not the key is found.
RemoveCountsMisses(t, k) ==
  /\ owner.removes /\ Free(t) /\ ~WalkFalls(tree)
  /\ Returns(t, Has(tree, SearchOrder, k))
  /\ tree' = IF Has(tree, SearchOrder, k) THEN Cut(tree, SearchOrder, k) ELSE tree
  /\ count' = count - 1
  /\ UNCHANGED <<op, node, ub, torn>>

\* remove: after the splice the heights of the whole tree are computed again.
Remove(t, k) ==
  /\ owner.removes /\ Free(t)
  /\ IF \/ Falls(tree, SearchOrder, k)
        \/ Has(tree, SearchOrder, k) /\ WalkFalls(tree)
     THEN ub' = TRUE /\ UNCHANGED <<tree, count, node, ret, torn>>
     ELSE /\ Returns(t, Has(tree, SearchOrder, k))
          /\ IF Has(tree, SearchOrder, k)
             THEN /\ tree' = Cut(tree, SearchOrder, k)
                  /\ count' = count - 1
                  /\ LET at == Stop(tree, SearchOrder, k)
                     IN  /\ Frees(Gone(tree, at))
                         /\ torn' = (torn \/ Below(tree, at) # {} \/ Found({at}))
             ELSE UNCHANGED <<tree, count, node, torn>>
          /\ UNCHANGED ub
  /\ UNCHANGED op

\* clear leaves the count.  (It takes no lock: the cache that calls it has one
\* thread.)
Clear(t) ==
  /\ owner.removes /\ Free(t)
  /\ IF WalkFalls(tree) THEN ub' = TRUE /\ UNCHANGED <<tree, node, torn>>
     ELSE /\ tree' = Empty /\ UNCHANGED ub
          /\ Frees(DOMAIN tree) /\ torn' = (torn \/ Found(DOMAIN tree))
  /\ UNCHANGED <<count, op, ret>>

\* lookup, first part: the search.
Lookup(t, k) ==
  /\ Free(t)
  /\ IF Falls(tree, SearchOrder, k) THEN ub' = TRUE /\ UNCHANGED <<node, ret>>
     ELSE IF Has(tree, SearchOrder, k)
          THEN node' = [node EXCEPT ![t] = Stop(tree, SearchOrder, k)] /\ UNCHANGED <<ret, ub>>
     ELSE Returns(t, NULL) /\ UNCHANGED <<node, ub>>
  /\ UNCHANGED <<tree, count, op, torn>>

\* lookup, second part, without the lock.
LookupValue(t) ==
  /\ ~ub /\ node[t] # NULL
  /\ IF node[t] = Dangling THEN ub' = TRUE /\ UNCHANGED <<node, ret>>
     ELSE /\ Returns(t, tree[node[t]].val)
          /\ node' = [node EXCEPT ![t] = NULL] /\ UNCHANGED ub
  /\ UNCHANGED <<tree, count, op, torn>>

Act == \E t \in Threads :
  \/ \E k \in owner.keys : \/ \E v \in owner.vals : InsertContains(t, k, v)
                     \/ Remove(t, k)
                     \/ Lookup(t, k)
  \/ InsertNode(t)
  \/ LookupValue(t)
  \/ Clear(t)

Next == Act /\ UNCHANGED owner

Stopped == ub /\ UNCHANGED vars

Spec == Init /\ [][Next \/ Stopped]_vars

-----------------------------------------------------------------------------
\* What the map holds: the keys the search finds.

dict ==
  [k \in {j \in Keys : ~Falls(tree, SearchOrder, j) /\ Has(tree, SearchOrder, j)} |->
     Value(tree, SearchOrder, k)]

Promise == INSTANCE Dictionary
  WITH Keys <- Keys, Vals <- Vals, Threads <- Threads, NULL <- NULL, dict <- dict, ret <- ret

\* The two orders sort the keys of an owner alike: its map does not fold case,
\* or folding makes no difference to its keys.
Alike(o) ==
  o.fold => \A j, k \in o.keys : FoldedOrder[j] < FoldedOrder[k] <=> CaseOrder[j] < CaseOrder[k]

\* Every operation, with the parts of insert and of lookup apart, is one step of
\* a dictionary or none, where the orders agree and until a node is freed that
\* has children or that a lookup has found: a key is never inserted twice, no
\* insert hides another key and no removal takes one along.
ImplementsDictionary ==
  [][Alike(owner) /\ ~torn' => Promise!Next \/ UNCHANGED <<dict, ret>>]_vars

\* What has been inserted can be found where the orders agree: no node lies off
\* the path of its key, whatever has been removed.
InsertedIsFound ==
  Alike(owner) =>
    \A p \in DOMAIN tree : tree[p] # Dangling => Stop(tree, SearchOrder, tree[p].key) = p

\* No operation reads a freed node, until one is freed that has children or that
\* a lookup has found.
NoFreedNodeRead == ~torn => ~ub
=============================================================================
