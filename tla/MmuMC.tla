-------------------------------- MODULE MmuMC --------------------------------
\* Programs and sizes for the model checking of Mmu.
EXTENDS Mmu

Literal(base, size) == [base |-> base, size |-> size, literal |-> TRUE, locked |-> FALSE]
Locked(base, size)  == [Literal(base, size) EXCEPT !.locked = TRUE]
Virtual(base, size) == [Literal(base, size) EXCEPT !.literal = FALSE]

\* What the assembler writes: one locked segment.
OneSegment == {<<Locked(8, 2)>>}

SmallSizes == {1, 3}
TwoUses    == {[addr |-> 0, size |-> 1], [addr |-> 1, size |-> 2]}
OneUse     == {[addr |-> 1, size |-> 2]}

\* Threads and values play the same part.
Alike == Permutations(Threads) \cup Permutations(Vals)

\* Five segments in any order, four that lie apart, and any three; the virtual
\* ones are loaded first.
Anywhere == {Literal(b, n) : b \in {2, 4, 7, 12}, n \in {1, 2}} \cup {Virtual(b, 2) : b \in {4, 12}}
            \cup {Locked(8, 3)}
VirtualFirst(p) == \A i, j \in DOMAIN p : i < j /\ p[i].literal => p[j].literal
Five == {p \in [1 .. 5 -> {Literal(b, 1) : b \in {1, 3, 5, 7, 9}}] : Spread(p, 1)}
ManySegments == Five \cup {p \in [1 .. 4 -> Anywhere] : Spread(p, 1) /\ VirtualFirst(p)}
                \cup {p \in [1 .. 3 -> Anywhere] : VirtualFirst(p)}
=============================================================================
