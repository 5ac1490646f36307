---------------------------- MODULE VmThreadsMC ----------------------------
(***************************************************************************)
(* Programs for the model checking of VmThreads.  A program gives each     *)
(* address the set of instructions that may be found there; a thread       *)
(* chooses one each time it comes by, so one Code stands for many programs *)
(* and for the branches their data would take.                             *)
(***************************************************************************)
EXTENDS VmThreads, TLC

Op(op)       == [op |-> op, reg |-> NULL, dest |-> NULL, val |-> 0]
OnReg(op, r) == [Op(op) EXCEPT !.reg = r]
Halt(v)      == [Op("HALT") EXCEPT !.val = v]
Jmp(a)       == [Op("JMP") EXCEPT !.val = a]
JmpErr(r, a) == [OnReg("JMP_ERR", r) EXCEPT !.val = a]
Start(d, a)  == [Op("THREAD_START") EXCEPT !.dest = d, !.val = a]
Join(d, r)   == [OnReg("THREAD_JOIN", r) EXCEPT !.dest = d]

\* Every instruction over the declared registers, again and again.
AnyInstr ==
  {Op("NOP"), Op("FAULT"), Op("THREAD_EXIT"), Halt(256), Jmp(1)}
    \cup {OnReg(op, r) : r \in Regs, op \in {"ERROR", "LOAD", "HALT_ERR",
                              "ERR_FAULT_ENABLE", "ERR_FAULT_DISABLE"}}
    \cup {JmpErr(r, 1) : r \in Regs}
    \cup {Start(d, 1) : d \in Regs \cup {NULL}}
    \cup {Join(d, r) : d \in Regs \cup {NULL}, r \in Regs}
AnyCode == 1 :> AnyInstr @@ 2 :> {Jmp(1)}

\* Threads that start threads at once, and leave; one runs off the program.
StormCode ==
  1 :> {Start(NULL, 2)} @@ 2 :> {Start(0, 4), Op("THREAD_EXIT")} @@ 3 :> {Start(0, 5)}
    @@ 4 :> {Op("THREAD_EXIT")}

\* main joins its two workers, in one of two ways.
JoinCode ==
  1 :> {Jmp(2), Jmp(12)}
\* It starts both, which end by HALT or a fault, joins both and halts.
    @@ 2 :> {Start(0, 7)} @@ 3 :> {Start(1, 7)} @@ 4 :> {Join(NULL, 0), Join(2, 0)}
    @@ 5 :> {Join(1, 1)} @@ 6 :> {Halt(3)}
    @@ 7 :> {Op("FAULT"), Halt(7)}
\* One after the other, into a register whose errors are faults of the machine.
\* The workers may loop forever, as those of examples/threads.s do, or fault, or
\* set the error of that register.
    @@ 12 :> {OnReg("ERR_FAULT_ENABLE", 1)} @@ 13 :> {Start(0, 18)} @@ 14 :> {Join(1, 0)}
    @@ 15 :> {Start(0, 18)} @@ 16 :> {Join(1, 0)} @@ 17 :> {Halt(0)}
    @@ 18 :> {Op("NOP"), Op("FAULT"), OnReg("ERROR", 1)} @@ 19 :> {Halt(0), Jmp(18)}

Symmetry == Permutations(Objs \ {MainObj}) \cup Permutations(Natives)
=============================================================================
