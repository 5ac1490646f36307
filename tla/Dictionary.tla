------------------------------ MODULE Dictionary ------------------------------
(***************************************************************************)
(* What a string map promises its callers: a finite map from keys to       *)
(* values, each operation of a thread in one step.                         *)
(***************************************************************************)
CONSTANTS Keys, Vals, Threads, NULL

VARIABLES
  dict,     \* the map
  ret       \* the result of the last call of each thread

vars == <<dict, ret>>

Init == dict = [k \in {} |-> NULL] /\ ret = [t \in Threads |-> NULL]

Returns(t, r) == ret' = [ret EXCEPT ![t] = r]

\* A key that is there keeps its value, and the call fails.
Insert(t, k, v) ==
  IF k \in DOMAIN dict THEN Returns(t, FALSE) /\ UNCHANGED dict
  ELSE /\ dict' = [j \in DOMAIN dict \cup {k} |-> IF j = k THEN v ELSE dict[j]]
       /\ Returns(t, TRUE)

Remove(t, k) ==
  /\ dict' = [j \in DOMAIN dict \ {k} |-> dict[j]]
  /\ Returns(t, k \in DOMAIN dict)

Clear == dict' = [k \in {} |-> NULL] /\ UNCHANGED ret

Lookup(t, k) ==
  Returns(t, IF k \in DOMAIN dict THEN dict[k] ELSE NULL) /\ UNCHANGED dict

Next ==
  \/ Clear
  \/ \E t \in Threads, k \in Keys :
       \/ \E v \in Vals : Insert(t, k, v)
       \/ Remove(t, k)
       \/ Lookup(t, k)

Spec == Init /\ [][Next]_vars
===============================================================================
