---------------------------- MODULE ModuleTableMC ----------------------------
\* Names and libraries for the model checking of ModuleTable.
EXTENDS ModuleTable, TLC

Lower == {"a", "b", "c"}
Two   == {"a", "b"}
Order == [n \in Lower |-> CASE n = "a" -> 1 [] n = "b" -> 2 [] n = "c" -> 3]
Order2 == [n \in Two |-> Order[n]]

Multi == [multi |-> "good", plain |-> "none"]
Plain == [multi |-> "none", plain |-> "good"]
Wrong == [multi |-> "bad", plain |-> "good"]    \* a multilib file of another word size

\* Three names, one of them with a multilib file that does not load.
Libs3  == "a" :> Multi @@ "b" :> Plain @@ "c" :> Wrong
Libs2  == "a" :> Multi @@ "b" :> Plain

\* Bound: once an unload has overlapped another opcode every property is
\* silent, and the search stops.
UnloadsApart == overlap # "unloads"

\* Bound: at most two loads, of one name or of two, are not unloaded.
FewLoads == held["a"] + held["b"] + held["c"] <= 2

Symmetry == Permutations(Threads)
=============================================================================
