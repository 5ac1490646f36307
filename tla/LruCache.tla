------------------------------- MODULE LruCache -------------------------------
(***************************************************************************)
(* The least-recently-used cache of src/lib/lru.c as a value.              *)
(*                                                                         *)
(* A node is a number; 0 is the sentinel.  first and last are the          *)
(* sentinel's next and prev, prev and data those of the nodes; the next of *)
(* a node is followed only to free it and is left out.  map is the set of  *)
(* keys of cache->map.                                                     *)
(***************************************************************************)
EXTENDS Naturals, Sequences

Fresh == [first |-> 0, last |-> 0, prev |-> <<>>, data |-> <<>>, count |-> 0, map |-> {}]

\* contains, and lookup, which would also promote the node it finds.
Cached(cache, key) == key \in cache.map

\* The node evict takes, when there is one.
Oldest(cache) == cache.data[cache.last]
Evicts(cache, capacity) == cache.count = capacity /\ cache.last # 0

\* evict leaves the sentinel's prev at the node it took, so the next eviction
\* takes the same node again, and drops the nodes before it from the list.
Evict(cache) ==
  [cache EXCEPT !.first = cache.prev[cache.last],
                !.count = IF @ > 0 THEN @ - 1 ELSE @]

\* insert, for a key that is not cached: evict if the cache is full, then a
\* new node in front.  Nothing is put into the map.
Insert(cache, capacity, value) ==
  LET c == IF Evicts(cache, capacity) THEN Evict(cache) ELSE cache
      n == Len(c.data) + 1
  IN  [c EXCEPT !.prev  = [i \in 1 .. n |-> IF i = c.first THEN n
                                            ELSE IF i = n THEN 0 ELSE @[i]],
                !.last  = IF c.first = 0 THEN n ELSE @,
                !.first = n,
                !.data  = Append(@, value),
                !.count = @ + 1]

\* clear frees what the list still reaches and leaves the count.
Clear(cache) == [cache EXCEPT !.first = 0, !.last = 0, !.map = {}]
===============================================================================
