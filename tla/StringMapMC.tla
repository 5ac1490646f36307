----------------------------- MODULE StringMapMC -----------------------------
\* Keys for the model checking of StringMap: "B" comes before "a" when case
\* counts and after it when case is folded, where "A" and "a" are one key.
EXTENDS StringMap, TLC

CONSTANTS v, w

Mixed == {"A", "B", "a", "b", "c"}
Case  == "A" :> 1 @@ "B" :> 2 @@ "a" :> 3 @@ "b" :> 4 @@ "c" :> 5
Fold  == "A" :> 1 @@ "B" :> 2 @@ "a" :> 1 @@ "b" :> 2 @@ "c" :> 3

\* The maps of the assembler, which follow case and are only added to, and the
\* maps of the runtime, which fold it and are removed from.
Assemblers == [fold |-> FALSE, removes |-> FALSE, keys |-> {"A", "B", "a"}, vals |-> {v, w}]
Runtimes   == [fold |-> TRUE, removes |-> TRUE, keys |-> {"a", "b", "c"}, vals |-> {v}]
\* One whose names the two orders do not sort alike.
Clashing   == [fold |-> TRUE, removes |-> TRUE, keys |-> {"A", "B", "a"}, vals |-> {v}]
AllOwners == {Assemblers, Runtimes, Clashing}

ThreadsAlike == Permutations(Threads)
=============================================================================
