------------------------------ MODULE Registers ------------------------------
(***************************************************************************)
(* The registers threads share, and what they own: a register holds a      *)
(* string or a handle on the heap, which the next load frees.  No lock     *)
(* protects a register; programs use the mutexes of the machine, whose     *)
(* handles live in registers too (examples/threads.s).                     *)
(*                                                                         *)
(* Threads run straight-line programs.  The main thread has initialised    *)
(* the mutex in MutexReg before it started them, and ends the machine when *)
(* it has joined them all.                                                 *)
(***************************************************************************)
EXTENDS Naturals, Sequences, FiniteSets

CONSTANTS
  NULL,
  Threads,
  Regs,
  MutexReg,     \* where the main thread has put a mutex
  MaxObjs,      \* bound on the allocations of strings and handles
  Programs      \* what the threads may run: [Threads -> Seq(SUBSET Instr)]; a
                \* thread chooses one instruction of each set

Ops == {"LOAD_WORD", "LOAD_STR", "PUTS", "MUTEX_INIT", "MUTEX_LOCK", "MUTEX_UNLOCK",
        "MUTEX_DESTROY", "THREAD_START", "THREAD_EXIT"}
Instr == [op : Ops, reg : Regs]
Objs  == 1 .. MaxObjs
Main  == 1      \* the mutex of the main thread

ASSUME RegistersOK ==
  /\ MaxObjs \in Nat \ {0}
  /\ MutexReg \in Regs
  /\ NULL \notin Threads \cup Objs
  /\ \A p \in Programs : p \in [Threads -> Seq(SUBSET Instr)]

VARIABLES
  prog,         \* the program
  ip,           \* the number of the next instruction of each thread
  ins,          \* the instruction each thread is in
  pc,           \* and how far it has come in it
  str, hnd,     \* value.str and value.hnd of the registers
  kind,         \* what an allocation is: "str", "mutex", "thread" or "none" yet
  life,         \* "live", "destroyed" (a mutex), "freed", or "none" yet
  owner, depth, \* of the recursive mutexes
  new,          \* the handle a thread is about to load
  tgt,          \* the string a thread prints, the mutex it waits for
  machine,      \* "running" or "freed"
  ub,           \* the first undefined behaviour, which ends the run
  race          \* remembers two threads in one register, one of them writing

heap == <<kind, life>>
locks == <<owner, depth>>
vars == <<prog, ip, ins, pc, str, hnd, kind, life, owner, depth, new, tgt, machine, ub, race>>

-----------------------------------------------------------------------------
Nothing == [op |-> "THREAD_EXIT", reg |-> MutexReg]

Init ==
  /\ prog \in Programs
  /\ ip = [t \in Threads |-> 1]
  /\ ins = [t \in Threads |-> Nothing]
  /\ pc = [t \in Threads |-> "ready"]
  /\ str = [r \in Regs |-> NULL]
  /\ hnd = [r \in Regs |-> IF r = MutexReg THEN Main ELSE NULL]
  /\ kind = [o \in Objs |-> IF o = Main THEN "mutex" ELSE "none"]
  /\ life = [o \in Objs |-> IF o = Main THEN "live" ELSE "none"]
  /\ owner = [o \in Objs |-> NULL]
  /\ depth = [o \in Objs |-> 0]
  /\ new = [t \in Threads |-> NULL]
  /\ tgt = [t \in Threads |-> NULL]
  /\ machine = "running"
  /\ ub = "none"
  /\ race = FALSE

At(t, place) == pc[t] = place /\ ub = "none"
Goto(t, place) == pc' = [pc EXCEPT ![t] = place] /\ UNCHANGED ip
Reg(t) == ins[t].reg

\* The instruction is over; its locals go out of scope.
Done(t) ==
  /\ pc' = [pc EXCEPT ![t] = "ready"]
  /\ ip' = [ip EXCEPT ![t] = @ + 1]

Undefined(what) == ub' = what /\ UNCHANGED <<pc, ip>>

\* What reading through a pointer does: NULL and freed memory are undefined.
Usable(o) == o # NULL /\ life[o] # "freed"
Misuse(o) == Undefined(IF o = NULL THEN "null" ELSE "use_after_free")

Fresh(o) == life[o] = "none" /\ \A p \in 1 .. o - 1 : life[p] # "none"
Allocates(o, k) ==
  /\ Fresh(o)
  /\ kind' = [kind EXCEPT ![o] = k]
  /\ life' = [life EXCEPT ![o] = "live"]

\* free, and srsvm_handle_free, which finds no handle open: nothing opens one.
Frees(t, o, place) ==
  IF life[o] = "freed" THEN Undefined("double_free") /\ UNCHANGED heap
  ELSE /\ life' = [life EXCEPT ![o] = "freed"]
       /\ Goto(t, place)
       /\ UNCHANGED <<kind, ub>>

-----------------------------------------------------------------------------
\* Instructions.

Writes(op) == op \in {"LOAD_WORD", "LOAD_STR", "MUTEX_INIT", "THREAD_START", "MUTEX_DESTROY"}
Handles(op) == op \in {"MUTEX_INIT", "THREAD_START"}

Within(t) == pc[t] \notin {"ready", "ended"}

Meets(t, i) ==
  \E u \in Threads \ {t} :
    Within(u) /\ Reg(u) = i.reg /\ (Writes(i.op) \/ Writes(ins[u].op))

FirstStep(op) ==
  CASE op \in {"LOAD_WORD", "LOAD_STR"} -> "clear_str"
    [] Handles(op) -> "alloc"
    [] op = "PUTS" -> "puts"
    [] op = "THREAD_EXIT" -> "ended"
    [] OTHER -> "check"

Dispatch(t) ==
  /\ At(t, "ready") /\ ip[t] <= Len(prog[t])
  /\ \E i \in prog[t][ip[t]] :
       /\ ins' = [ins EXCEPT ![t] = i]
       /\ Goto(t, FirstStep(i.op))
       /\ race' = (race \/ (i.op # "THREAD_EXIT" /\ Meets(t, i)))
  /\ UNCHANGED <<prog, str, hnd, heap, locks, new, tgt, machine, ub>>

Halt(t) ==
  /\ At(t, "ready") /\ ip[t] > Len(prog[t])
  /\ Goto(t, "ended")
  /\ UNCHANGED <<prog, ins, str, hnd, heap, locks, new, tgt, machine, ub, race>>

\* MUTEX_INIT and THREAD_START allocate the handle before they touch the register.
Alloc(t) ==
  /\ At(t, "alloc")
  /\ \E o \in Objs :
       /\ Allocates(o, IF ins[t].op = "MUTEX_INIT" THEN "mutex" ELSE "thread")
       /\ new' = [new EXCEPT ![t] = o]
  /\ Goto(t, "clear_str")
  /\ UNCHANGED <<prog, ins, str, hnd, locks, tgt, machine, ub, race>>

\* clear_reg: free the string, forget it, free the handle, forget it, wipe.
ClearStr(t) ==
  /\ At(t, "clear_str")
  /\ IF str[Reg(t)] = NULL THEN Goto(t, "clear_hnd") /\ UNCHANGED <<heap, ub>>
     ELSE Frees(t, str[Reg(t)], "forget_str")
  /\ UNCHANGED <<prog, ins, str, hnd, locks, new, tgt, machine, race>>

ForgetStr(t) ==
  /\ At(t, "forget_str")
  /\ str' = [str EXCEPT ![Reg(t)] = NULL]
  /\ Goto(t, "clear_hnd")
  /\ UNCHANGED <<prog, ins, hnd, heap, locks, new, tgt, machine, ub, race>>

\* A bug: the handle is left to the wipe.
ClearHndUnfreed(t) ==
  /\ At(t, "clear_hnd")
  /\ Goto(t, "wipe")
  /\ UNCHANGED <<prog, ins, str, hnd, heap, locks, new, tgt, machine, ub, race>>

ClearHnd(t) ==
  /\ At(t, "clear_hnd")
  /\ IF hnd[Reg(t)] = NULL THEN Goto(t, "wipe") /\ UNCHANGED <<heap, ub>>
     ELSE Frees(t, hnd[Reg(t)], "forget_hnd")
  /\ UNCHANGED <<prog, ins, str, hnd, locks, new, tgt, machine, race>>

ForgetHnd(t) ==
  /\ At(t, "forget_hnd")
  /\ hnd' = [hnd EXCEPT ![Reg(t)] = NULL]
  /\ Goto(t, "wipe")
  /\ UNCHANGED <<prog, ins, str, heap, locks, new, tgt, machine, ub, race>>

\* The memset; a word is stored where no pointer lies, MUTEX_DESTROY is done.
Wipe(t) ==
  /\ At(t, "wipe")
  /\ str' = [str EXCEPT ![Reg(t)] = NULL]
  /\ hnd' = [hnd EXCEPT ![Reg(t)] = NULL]
  /\ CASE ins[t].op = "LOAD_STR" -> Goto(t, "load_str")
       [] Handles(ins[t].op) -> Goto(t, "load_handle")
       [] OTHER -> Done(t)
  /\ UNCHANGED <<prog, ins, heap, locks, new, tgt, machine, ub, race>>

\* load_str keeps the new memory in the register, and fills it from there.
LoadStr(t) ==
  /\ At(t, "load_str")
  /\ \E o \in Objs : Allocates(o, "str") /\ str' = [str EXCEPT ![Reg(t)] = o]
  /\ Goto(t, "copy_str")
  /\ UNCHANGED <<prog, ins, hnd, locks, new, tgt, machine, ub, race>>

CopyStr(t) ==
  /\ At(t, "copy_str")
  /\ IF Usable(str[Reg(t)]) THEN Done(t) /\ UNCHANGED ub ELSE Misuse(str[Reg(t)])
  /\ UNCHANGED <<prog, ins, str, hnd, heap, locks, new, tgt, machine, race>>

LoadHandle(t) ==
  /\ At(t, "load_handle")
  /\ hnd' = [hnd EXCEPT ![Reg(t)] = new[t]]
  /\ new' = [new EXCEPT ![t] = NULL]
  /\ Done(t)
  /\ UNCHANGED <<prog, ins, str, heap, locks, tgt, machine, ub, race>>

\* PUTS takes the pointer and prints through it.
Puts(t) ==
  /\ At(t, "puts")
  /\ tgt' = [tgt EXCEPT ![t] = str[Reg(t)]]
  /\ IF str[Reg(t)] = NULL THEN Done(t) ELSE Goto(t, "print")
  /\ UNCHANGED <<prog, ins, str, hnd, heap, locks, new, machine, ub, race>>

PrintStr(t) ==
  /\ At(t, "print")
  /\ IF Usable(tgt[t]) THEN Done(t) /\ UNCHANGED ub ELSE Misuse(tgt[t])
  /\ tgt' = [tgt EXCEPT ![t] = NULL]
  /\ UNCHANGED <<prog, ins, str, hnd, heap, locks, new, machine, race>>

-----------------------------------------------------------------------------
\* Mutexes.  Each opcode reads the register once for the type of the handle,
\* not looking for NULL, and again for the mutex.  The wrong type is a fault.
Check(t) ==
  /\ At(t, "check")
  /\ LET h == hnd[Reg(t)] IN
     IF ~Usable(h) THEN Misuse(h)
     ELSE /\ Goto(t, IF kind[h] # "mutex" THEN "ended" ELSE ins[t].op)
          /\ UNCHANGED ub
  /\ UNCHANGED <<prog, ins, str, hnd, heap, locks, new, tgt, machine, race>>

\* pthread_mutex_lock has the mutex from here on, whatever the register holds.
Lock(t) ==
  /\ At(t, "MUTEX_LOCK")
  /\ LET h == hnd[Reg(t)] IN
     IF ~Usable(h) THEN Misuse(h) /\ UNCHANGED tgt
     ELSE /\ tgt' = [tgt EXCEPT ![t] = h]
          /\ Goto(t, "wait")
          /\ UNCHANGED ub
  /\ UNCHANGED <<prog, ins, str, hnd, heap, locks, new, machine, race>>

\* A bug: a mutex that is not recursive.
GrantedOnce(t) ==
  /\ At(t, "wait")
  /\ owner[tgt[t]] = NULL
  /\ owner' = [owner EXCEPT ![tgt[t]] = t]
  /\ depth' = [depth EXCEPT ![tgt[t]] = @ + 1]
  /\ Done(t)
  /\ tgt' = [tgt EXCEPT ![t] = NULL]
  /\ UNCHANGED <<prog, ins, str, hnd, heap, new, machine, ub, race>>

\* The mutex is free or the thread's own.  A destroyed one is an error nobody
\* looks at; waiting in freed memory is undefined.
Granted(t) ==
  /\ At(t, "wait")
  /\ \/ /\ life[tgt[t]] = "live" /\ owner[tgt[t]] \in {NULL, t}
        /\ owner' = [owner EXCEPT ![tgt[t]] = t]
        /\ depth' = [depth EXCEPT ![tgt[t]] = @ + 1]
        /\ Done(t) /\ UNCHANGED ub
     \/ life[tgt[t]] = "destroyed" /\ Done(t) /\ UNCHANGED <<locks, ub>>
     \/ life[tgt[t]] = "freed" /\ Misuse(tgt[t]) /\ UNCHANGED locks
  /\ tgt' = [tgt EXCEPT ![t] = NULL]
  /\ UNCHANGED <<prog, ins, str, hnd, heap, new, machine, race>>

\* A bug: whoever unlocks opens the mutex, as one that is not recursive would.
UnlockAnyones(t) ==
  /\ At(t, "MUTEX_UNLOCK")
  /\ LET h == hnd[Reg(t)] IN
     IF ~Usable(h) THEN Misuse(h) /\ UNCHANGED locks
     ELSE /\ owner' = [owner EXCEPT ![h] = NULL]
          /\ depth' = [depth EXCEPT ![h] = 0]
          /\ Done(t) /\ UNCHANGED ub
  /\ UNCHANGED <<prog, ins, str, hnd, heap, new, tgt, machine, race>>

\* A bug: the owner is not asked for.
UnlockUncounted(t) ==
  /\ At(t, "MUTEX_UNLOCK")
  /\ LET h == hnd[Reg(t)] IN
     IF ~Usable(h) THEN Misuse(h) /\ UNCHANGED locks
     ELSE /\ depth' = [depth EXCEPT ![h] = @ - 1]
          /\ owner' = [owner EXCEPT ![h] = IF depth[h] = 1 THEN NULL ELSE @]
          /\ Done(t) /\ UNCHANGED ub
  /\ UNCHANGED <<prog, ins, str, hnd, heap, new, tgt, machine, race>>

\* Unlocking the mutex of another, or of nobody, has no effect.
Unlock(t) ==
  /\ At(t, "MUTEX_UNLOCK")
  /\ LET h == hnd[Reg(t)] IN
     IF ~Usable(h) THEN Misuse(h) /\ UNCHANGED locks
     ELSE /\ IF life[h] = "live" /\ owner[h] = t
             THEN /\ depth' = [depth EXCEPT ![h] = @ - 1]
                  /\ owner' = [owner EXCEPT ![h] = IF depth[h] = 1 THEN NULL ELSE t]
             ELSE UNCHANGED locks
          /\ Done(t) /\ UNCHANGED ub
  /\ UNCHANGED <<prog, ins, str, hnd, heap, new, tgt, machine, race>>

\* A locked mutex is not destroyed, but its handle is freed by clear_reg.
Destroy(t) ==
  /\ At(t, "MUTEX_DESTROY")
  /\ LET h == hnd[Reg(t)] IN
     IF ~Usable(h) THEN Misuse(h) /\ UNCHANGED life
     ELSE /\ life' = [life EXCEPT ![h] = IF owner[h] = NULL THEN "destroyed" ELSE @]
          /\ Goto(t, "clear_str") /\ UNCHANGED ub
  /\ UNCHANGED <<prog, ins, str, hnd, kind, locks, new, tgt, machine, race>>

-----------------------------------------------------------------------------
\* srsvm_vm_free, when the main thread has joined the others: the registers, one
\* after the other, with their strings and handles.
Held == {str[r] : r \in Regs} \cup {hnd[r] : r \in Regs}

EndMachine ==
  /\ ub = "none" /\ machine = "running"
  /\ \A t \in Threads : pc[t] = "ended"
  /\ machine' = "freed"
  /\ life' = [o \in Objs |-> IF o \in Held THEN "freed" ELSE life[o]]
  /\ ub' = IF \/ \E o \in Held \ {NULL} : life[o] = "freed"
              \/ \E r, q \in Regs : r # q /\ (({str[r], hnd[r]} \cap {str[q], hnd[q]}) \ {NULL}) # {}
           THEN "double_free" ELSE "none"
  /\ str' = [r \in Regs |-> NULL] /\ hnd' = [r \in Regs |-> NULL]
  /\ UNCHANGED <<prog, ip, ins, pc, kind, locks, new, tgt, race>>

Step(t) ==
  \/ Dispatch(t) \/ Halt(t) \/ Alloc(t)
  \/ ClearStr(t) \/ ForgetStr(t) \/ ClearHnd(t) \/ ForgetHnd(t) \/ Wipe(t)
  \/ LoadStr(t) \/ CopyStr(t) \/ LoadHandle(t) \/ Puts(t) \/ PrintStr(t)
  \/ Check(t) \/ Lock(t) \/ Granted(t) \/ Unlock(t) \/ Destroy(t)

Next == (\E t \in Threads : Step(t)) \/ EndMachine

Spec ==
  /\ Init /\ [][Next]_vars
  /\ \A t \in Threads : WF_vars(Step(t))
  /\ WF_vars(EndMachine)

-----------------------------------------------------------------------------
Places == {"ready", "ended", "alloc", "clear_str", "forget_str", "clear_hnd", "forget_hnd",
           "wipe", "load_str", "copy_str", "load_handle", "puts", "print", "check", "wait",
           "MUTEX_LOCK", "MUTEX_UNLOCK", "MUTEX_DESTROY"}

TypeOK ==
  /\ prog \in Programs
  /\ ip \in [Threads -> Nat \ {0}]
  /\ ins \in [Threads -> Instr]
  /\ pc \in [Threads -> Places]
  /\ str \in [Regs -> Objs \cup {NULL}] /\ hnd \in [Regs -> Objs \cup {NULL}]
  /\ kind \in [Objs -> {"none", "str", "mutex", "thread"}]
  /\ life \in [Objs -> {"none", "live", "destroyed", "freed"}]
  /\ owner \in [Objs -> Threads \cup {NULL}] /\ depth \in [Objs -> Nat]
  /\ new \in [Threads -> Objs \cup {NULL}] /\ tgt \in [Threads -> Objs \cup {NULL}]
  /\ machine \in {"running", "freed"} /\ race \in BOOLEAN
  /\ ub \in {"none", "null", "use_after_free", "double_free"}
  /\ \A o \in Objs : owner[o] = NULL <=> depth[o] = 0

\* The places that hold an allocation: a register, unless its thread has just
\* freed what it holds, or a thread that is about to load it.
Owns(o) ==
  {<<r, "str">> : r \in {q \in Regs : str[q] = o /\ ~\E t \in Threads : pc[t] = "forget_str" /\ Reg(t) = q}}
    \cup {<<r, "hnd">> : r \in {q \in Regs : hnd[q] = o /\ ~\E t \in Threads : pc[t] = "forget_hnd" /\ Reg(t) = q}}
    \cup {<<t, "new">> : t \in {u \in Threads : new[u] = o}}

\* As long as no two threads are in one register, one of them writing it, every
\* string and handle has one owner until it is freed and none afterwards, so
\* that nothing is freed twice, used after its end or leaked, to the end of the
\* machine, whatever loads, mutexes and exits the program mixes.
OneOwner ==
  ~race =>
    /\ ub \notin {"use_after_free", "double_free"}
    /\ \A o \in Objs : Cardinality(Owns(o)) = (IF life[o] \in {"live", "destroyed"} THEN 1 ELSE 0)

\* How often a thread has the mutex after its first k instructions, if nobody
\* else touches the handle; an unlock too many has no effect.
OnMutex(op) == {[op |-> op, reg |-> MutexReg]}
Depth(code) ==
  LET d[k \in 0 .. Len(code)] ==
        IF k = 0 THEN 0
        ELSE CASE code[k] = OnMutex("MUTEX_LOCK") -> d[k - 1] + 1
               [] code[k] = OnMutex("MUTEX_UNLOCK") /\ d[k - 1] > 0 -> d[k - 1] - 1
               [] OTHER -> d[k - 1]
  IN d

\* The discipline of examples/threads.s: the mutex stays in its register, where
\* it is only locked and unlocked, and a thread has it when it uses another.
Guarded(code) ==
  \A k \in DOMAIN code :
    \/ code[k] \in {OnMutex("MUTEX_LOCK"), OnMutex("MUTEX_UNLOCK")}
    \/ \A i \in code[k] : i.op = "THREAD_EXIT" \/ (i.reg # MutexReg /\ Depth(code)[k - 1] > 0)
Disciplined(p) == \A t \in Threads : Guarded(p[t])

\* Programs that lock, unlock and destroy no mutex but the one of MutexReg.
OneMutex(p) ==
  \A t \in Threads : \A k \in DOMAIN p[t] : \A i \in p[t][k] :
    i.op \in {"MUTEX_LOCK", "MUTEX_UNLOCK", "MUTEX_DESTROY"} => i.reg = MutexReg

\* Threads that keep to the discipline never meet in a register, although the
\* mutex itself lies in a register, every opcode reads it twice, and a thread
\* unlocks what it does not own.  Their machine never breaks, unless they take
\* for a mutex a register that holds no handle.
LockedMeansApart ==
  Disciplined(prog) => ~race /\ (ub # "none" => ub = "null" /\ ~OneMutex(prog))

\* Where every thread unlocks as often as it locks, and does not exit in
\* between, and there is no other mutex, nobody waits for ever: all threads end
\* and the machine is freed.
Balanced(code) ==
  /\ \A k \in DOMAIN code : \A i \in code[k] : i.op # "THREAD_EXIT"
  /\ Depth(code)[Len(code)] = 0
EveryThreadEnds ==
  Disciplined(prog) /\ OneMutex(prog) /\ (\A t \in Threads : Balanced(prog[t]))
    => <>(machine = "freed")
==============================================================================
