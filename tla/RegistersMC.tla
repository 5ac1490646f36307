----------------------------- MODULE RegistersMC -----------------------------
\* Programs for the model checking of Registers.  Two threads; M holds the
\* mutex, S a string, a word or a handle.
EXTENDS Registers, TLC

CONSTANTS M, S, t1, t2

On(op, r) == [op |-> op, reg |-> r]
Lock1   == {On("MUTEX_LOCK", M)}
Unlock1 == {On("MUTEX_UNLOCK", M)}
Exit    == On("THREAD_EXIT", M)
Loads(r) == {On(op, r) : op \in {"LOAD_WORD", "LOAD_STR", "MUTEX_INIT", "THREAD_START"}}
AnyOf(r)   == {On(op, r) : op \in Ops}

\* Workers as in examples/threads.s, one of which locks twice, and one that
\* unlocks what it does not own.
Worker  == <<Lock1, Loads(S), {On("PUTS", S)}, Lock1, {On("LOAD_STR", S)}, Unlock1, {On("PUTS", S)}, Unlock1>>
Stray   == <<Unlock1, Lock1, Loads(S), {On("PUTS", S)}, Unlock1, Unlock1>>
\* One that may leave with the mutex, and two that do as they like.
Leaver  == <<Lock1, {On("LOAD_STR", S), Exit}, Unlock1>>
Wild    == <<AnyOf(S) \cup AnyOf(M), AnyOf(S) \cup AnyOf(M)>>
Wild1   == <<AnyOf(S) \cup AnyOf(M)>>
\* One that uses another register, and whatever mutex lies there, under the lock.
Nested  == <<Lock1, AnyOf(S) \ {On("THREAD_EXIT", S)}, {On("MUTEX_LOCK", S)}, Unlock1>>
Careful == <<Loads(S), AnyOf(S)>>

Both(a, b) == t1 :> a @@ t2 :> b
AllPrograms == {Both(Worker, Worker), Both(Worker, Stray), Both(Stray, Leaver),
                Both(Leaver, Leaver), Both(Nested, Nested), Both(Wild, Wild1), Both(Careful, <<AnyOf(M), AnyOf(M)>>)}
==============================================================================
