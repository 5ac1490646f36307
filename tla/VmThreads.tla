------------------------------ MODULE VmThreads ------------------------------
(***************************************************************************)
(* The thread table of a srsVM virtual machine and the life of its         *)
(* threads: srsvm_vm_alloc_thread, srsvm_vm_start_thread, the run loop     *)
(* run_thread, the thread opcodes, the faults of a thread and of the       *)
(* machine, and the tail of main() that starts the main thread, joins it,  *)
(* reads its exit status and frees everything.                             *)
(*                                                                         *)
(* Three kinds of things must not be confused.  A SLOT is an index of      *)
(* vm->threads; a thread OBJECT is a malloc'd srsvm_thread; a NATIVE is a  *)
(* host thread that executes run_thread on one object.  The code shares    *)
(* all of them without a lock.  The loop of run_thread is cut where        *)
(* another native can come between two looks at the same state, and so is  *)
(* THREAD_START, which looks at the table four times; every other opcode   *)
(* is one action, with one more where it may block.                        *)
(*                                                                         *)
(* Freed memory: the first access to a freed thread object or machine, or  *)
(* the first call pthreads leaves undefined, is recorded in ub and nothing *)
(* happens after it.                                                       *)
(***************************************************************************)
EXTENDS Integers, FiniteSets

CONSTANTS
  MaxThreads,  \* SRSVM_THREAD_MAX_COUNT
  MaxRegs,     \* the registers the program declares
  Objs,        \* the thread objects malloc can supply
  Natives,     \* the host threads pthread_create can supply
  MainObj,     \* the object of the main thread
  Code,        \* the instructions an address may hold
  Garbage,     \* what a word that was never written may contain
  FaultStatus, \* the exit status the main thread's fault handler writes: 1 in
               \* srsvm_run; NULL in srsvm, where it only prints
  NULL

Slots == 0 .. MaxThreads - 1
Regs  == 0 .. MaxRegs - 1

(***************************************************************************)
(* Instructions.  Opcodes that do the same to the state modelled here      *)
(* share a class: "NOP" also stands for PUT, SLEEP, FREE and all others    *)
(* that leave no trace, "FAULT" for an opcode that calls thread_set_fault  *)
(* and for an illegal instruction, "ERROR" for one that sets the error bit *)
(* of a register, "LOAD" for one that overwrites a register, "JMP" for the *)
(* jumps whose target is taken.                                            *)
(***************************************************************************)
Ops == {"NOP", "FAULT", "ERROR", "LOAD", "JMP", "JMP_ERR",
        "ERR_FAULT_ENABLE", "ERR_FAULT_DISABLE", "HALT", "HALT_ERR",
        "THREAD_START", "THREAD_JOIN", "THREAD_EXIT"}

\* reg and dest are register operands (NULL: not given), val is a word
\* operand: the address of a jump or a new thread, the status of HALT.
Instr == [op : Ops, reg : Regs \cup {NULL}, dest : Regs \cup {NULL}, val : Nat]

ASSUME ConstantsOK ==
  /\ MaxThreads \in Nat \ {0}
  /\ MaxRegs \in Nat \ {0}
  /\ MainObj \in Objs
  /\ NULL \notin Objs \cup Natives \cup Nat
  /\ Garbage \subseteq Nat /\ Garbage # {}
  /\ FaultStatus \in Nat \cup {NULL}
  /\ DOMAIN Code \subseteq Nat
  /\ \A a \in DOMAIN Code : Code[a] \subseteq Instr
  /\ \A a \in DOMAIN Code : \A i \in Code[a] :
       i.op \in {"ERROR", "LOAD", "JMP_ERR", "ERR_FAULT_ENABLE",
                 "ERR_FAULT_DISABLE", "HALT_ERR", "THREAD_JOIN"} => i.reg # NULL

VARIABLES
  threads,                     \* vm->threads: the object in each slot
  hnd, err, foe,               \* registers: thread handle, error_flag, fault_on_error
  vmFault,                     \* vm->has_fault
  vmLive,                      \* srsvm_vm_free has not run
  life,                        \* objects: "unborn", "live" or "freed"
  id, next_PC, halted, fault,  \* objects: the fields of srsvm_thread
  status,                      \* objects: exit_status, NULL before it is written
  native,                      \* objects: native_handle, NULL before it is written
  pc,                          \* natives: where each one is
  run,                         \* natives: info->thread of run_thread
  ins, slot, new, info, tgt,   \* natives: the locals of the opcode under way
  faulty,                      \* natives: has_fault of the exit info
  joined,                      \* natives: some pthread_join has claimed it
  host, hostTgt,               \* where main() is, and the native it waits for
  exitCode,                    \* the exit code of the process
  ub,                          \* the first undefined behaviour, or "none"
  late,                        \* history: instructions begun after the VM fault
  overlap                      \* history: two THREAD_STARTs were under way at once

regVars  == <<hnd, err, foe>>
objVars  == <<life, id, next_PC, halted, fault, status, native>>
locals   == <<ins, slot, new, info, tgt>>
natVars  == <<run, faulty, joined>>
hostVars == <<host, hostTgt, exitCode>>
history  == <<late, overlap>>
vars == <<threads, regVars, vmFault, vmLive, objVars, pc, locals, natVars,
          hostVars, ub, history>>

-----------------------------------------------------------------------------
\* Types.

Starting == {"st_scan", "st_store", "st_read", "st_create", "st_load"}
PC == {"none", "check", "scan", "gate", "fetch", "leave",
       "join_wait", "join_done", "exit", "dead"} \cup Starting

TypeOK ==
  /\ threads \in [Slots -> Objs \cup {NULL}]
  /\ hnd \in [Regs -> Objs \cup {NULL}]
  /\ err \in [Regs -> BOOLEAN] /\ foe \in [Regs -> BOOLEAN]
  /\ vmFault \in BOOLEAN /\ vmLive \in BOOLEAN
  /\ life \in [Objs -> {"unborn", "live", "freed"}]
  /\ id \in [Objs -> Slots]
  /\ next_PC \in [Objs -> Nat]
  /\ halted \in [Objs -> BOOLEAN] /\ fault \in [Objs -> BOOLEAN]
  /\ status \in [Objs -> Nat \cup {NULL}]
  /\ native \in [Objs -> Natives \cup {NULL}]
  /\ pc \in [Natives -> PC]
  /\ run \in [Natives -> Objs \cup {NULL}]
  /\ ins \in [Natives -> Instr \cup {NULL}]
  /\ slot \in [Natives -> 0 .. MaxThreads]
  /\ new \in [Natives -> Objs \cup {NULL}] /\ info \in [Natives -> Objs \cup {NULL}]
  /\ tgt \in [Natives -> Natives \cup {NULL}]
  /\ faulty \in [Natives -> BOOLEAN] /\ joined \in [Natives -> BOOLEAN]
  /\ host \in {"start", "join", "join_wait", "status", "free_main", "free_vm",
               "exit", "exited"}
  /\ hostTgt \in Natives \cup {NULL}
  /\ exitCode \in 0 .. 255 \cup {NULL}
  /\ ub \in {"none", "use_after_free", "double_free", "join_freed",
             "join_unstarted", "join_twice", "null_thread"}
  /\ late \in [Natives -> 0 .. 2]
  /\ overlap \in BOOLEAN

-----------------------------------------------------------------------------
\* Initial state: srsvm_vm_load_program has allocated the main thread at
\* entry point 1, in the first slot.

Init ==
  /\ threads = [i \in Slots |-> IF i = 0 THEN MainObj ELSE NULL]
  /\ hnd = [r \in Regs |-> NULL]
  /\ err = [r \in Regs |-> FALSE] /\ foe = [r \in Regs |-> FALSE]
  /\ vmFault = FALSE /\ vmLive = TRUE
  /\ life = [o \in Objs |-> IF o = MainObj THEN "live" ELSE "unborn"]
  /\ id = [o \in Objs |-> 0]
  /\ next_PC = [o \in Objs |-> 1]
  /\ halted = [o \in Objs |-> FALSE] /\ fault = [o \in Objs |-> FALSE]
  /\ status = [o \in Objs |-> NULL]
  /\ native = [o \in Objs |-> NULL]
  /\ pc = [t \in Natives |-> "none"]
  /\ run = [t \in Natives |-> NULL]
  /\ ins = [t \in Natives |-> NULL] /\ slot = [t \in Natives |-> 0]
  /\ new = [t \in Natives |-> NULL] /\ info = [t \in Natives |-> NULL]
  /\ tgt = [t \in Natives |-> NULL]
  /\ faulty = [t \in Natives |-> FALSE] /\ joined = [t \in Natives |-> FALSE]
  /\ host = "start" /\ hostTgt = NULL /\ exitCode = NULL
  /\ ub = "none"
  /\ late = [t \in Natives |-> 0] /\ overlap = FALSE

-----------------------------------------------------------------------------
\* Natives.

Running == ub = "none" /\ host # "exited"

\* The memory t touches in its next step is still allocated.  A native inside
\* THREAD_START or after a join works on the machine only; elsewhere in the
\* run loop it also reads its own object.
Valid(t) ==
  /\ vmLive
  /\ pc[t] \notin Starting \cup {"join_done"} => life[run[t]] = "live"
  /\ pc[t] = "st_read" => life[new[t]] = "live"

At(t, p)   == Running /\ pc[t] = p /\ Valid(t)
Goto(t, p) == pc' = [pc EXCEPT ![t] = p]

\* The opcode returns and its local variables are gone.
Done(t) ==
  /\ Goto(t, "check")
  /\ ins' = [ins EXCEPT ![t] = NULL] /\ slot' = [slot EXCEPT ![t] = 0]
  /\ new' = [new EXCEPT ![t] = NULL] /\ info' = [info EXCEPT ![t] = NULL]
  /\ tgt' = [tgt EXCEPT ![t] = NULL]

\* What a step of a native inside its run loop leaves alone.
LoopFrame == UNCHANGED <<threads, vmLive, id, native, life, natVars, hostVars, overlap>>

\* A bug: the handler only prints.
HandlerPrints(t) == UNCHANGED status

\* thread_fault_handler, called at the end of a turn that leaves t with a
\* fault.  Only the main thread has one.
FaultHandler(t) ==
  status' = IF run[t] = MainObj /\ fault[MainObj] /\ FaultStatus # NULL
            THEN [status EXCEPT ![MainObj] = FaultStatus] ELSE status

\* A bug: the loop forgets the fault of the machine.
LoopIgnoresVmFault(t) ==
  /\ At(t, "check")
  /\ FaultHandler(t)
  /\ Goto(t, IF halted[run[t]] \/ fault[run[t]] THEN "leave" ELSE "scan")
  /\ LoopFrame
  /\ UNCHANGED <<regVars, vmFault, next_PC, halted, fault, locals, ub, late>>

\* The end of a turn and the three conjuncts of the loop of run_thread: one
\* read of is_halted, vm->has_fault and has_fault.
LoopCheck(t) ==
  /\ At(t, "check")
  /\ FaultHandler(t)
  /\ Goto(t, IF halted[run[t]] \/ vmFault \/ fault[run[t]] THEN "leave" ELSE "scan")
  /\ LoopFrame
  /\ UNCHANGED <<regVars, vmFault, next_PC, halted, fault, locals, ub, late>>

\* The scan of the registers: an error in a register whose fault_on_error is
\* set becomes a fault of the machine.
ScanRegisters(t) ==
  /\ At(t, "scan")
  /\ vmFault' = (vmFault \/ \E r \in Regs : foe[r] /\ err[r])
  /\ Goto(t, "gate")
  /\ LoopFrame
  /\ UNCHANGED <<regVars, next_PC, halted, fault, status, locals, ub, late>>

\* if(! info->vm->has_fault): the last look at the machine before the fetch.
Gate(t) ==
  /\ At(t, "gate")
  /\ Goto(t, IF vmFault THEN "check" ELSE "fetch")
  /\ LoopFrame
  /\ UNCHANGED <<regVars, vmFault, next_PC, halted, fault, status, locals, ub, late>>

\* t fetches instruction i from its next_PC and begins to execute it.
Fetch(t, i) ==
  /\ At(t, "fetch")
  /\ next_PC[run[t]] \in DOMAIN Code
  /\ i \in Code[next_PC[run[t]]]
  /\ late' = [late EXCEPT ![t] = IF vmFault /\ @ < 2 THEN @ + 1 ELSE @]

\* next_PC moves past the instruction.
Advance(t) == next_PC' = [next_PC EXCEPT ![run[t]] = @ + 1]

\* The address holds no instruction: srsvm_opcode_load_instruction fails.
FetchFails(t) ==
  /\ At(t, "fetch")
  /\ next_PC[run[t]] \notin DOMAIN Code
  /\ fault' = [fault EXCEPT ![run[t]] = TRUE]
  /\ Goto(t, "check")
  /\ LoopFrame
  /\ UNCHANGED <<regVars, vmFault, next_PC, halted, status, locals, ub, late>>

\* A bug: the fault is not recorded and the instruction tried again.
FaultRetried(t, i) ==
  /\ i.op = "FAULT"
  /\ Fetch(t, i)
  /\ Goto(t, "check")
  /\ LoopFrame
  /\ UNCHANGED <<regVars, vmFault, next_PC, halted, fault, status, locals, ub>>

\* An opcode calls thread_set_fault, or is unknown, or has the wrong number
\* of arguments.
ExecFault(t, i) ==
  /\ i.op = "FAULT"
  /\ Fetch(t, i)
  /\ fault' = [fault EXCEPT ![run[t]] = TRUE]
  /\ Advance(t) /\ Goto(t, "check")
  /\ LoopFrame
  /\ UNCHANGED <<regVars, vmFault, halted, status, locals, ub>>

\* Opcodes that move next_PC and leave no other trace here.
ExecJump(t, i) ==
  /\ i.op \in {"NOP", "JMP", "JMP_ERR"}
  /\ Fetch(t, i)
  /\ IF i.op = "JMP" \/ (i.op = "JMP_ERR" /\ err[i.reg])
     THEN next_PC' = [next_PC EXCEPT ![run[t]] = i.val]
     ELSE Advance(t)
  /\ Goto(t, "check")
  /\ LoopFrame
  /\ UNCHANGED <<regVars, vmFault, halted, fault, status, locals, ub>>

\* HALT and HALT_ERR.  The status is the word operand of HALT; for HALT_ERR
\* with one operand it is the index of that register, with two it is 1.
StatusOf(i) ==
  IF i.op = "HALT" THEN i.val ELSE IF i.dest = NULL THEN i.reg ELSE 1

ExecHalt(t, i) ==
  /\ i.op \in {"HALT", "HALT_ERR"}
  /\ Fetch(t, i)
  /\ IF i.op = "HALT" \/ err[i.reg]
     THEN /\ halted' = [halted EXCEPT ![run[t]] = TRUE]
          /\ status' = [status EXCEPT ![run[t]] = StatusOf(i)]
     ELSE UNCHANGED <<halted, status>>
  /\ Advance(t) /\ Goto(t, "check")
  /\ LoopFrame
  /\ UNCHANGED <<regVars, vmFault, fault, locals, ub>>

\* A bug: ERR_FAULT_DISABLE also takes back the fault of the machine.
DisableClearsFault(t, i) ==
  /\ i.op \in {"ERROR", "LOAD", "ERR_FAULT_ENABLE", "ERR_FAULT_DISABLE"}
  /\ Fetch(t, i)
  /\ err' = [err EXCEPT ![i.reg] = i.op = "ERROR" \/ (@ /\ i.op # "LOAD")]
  /\ hnd' = [hnd EXCEPT ![i.reg] = IF i.op = "LOAD" THEN NULL ELSE @]
  /\ foe' = [foe EXCEPT ![i.reg] =
               i.op = "ERR_FAULT_ENABLE" \/ (@ /\ i.op # "ERR_FAULT_DISABLE")]
  /\ vmFault' = (vmFault /\ i.op # "ERR_FAULT_DISABLE")
  /\ Advance(t) /\ Goto(t, "check")
  /\ LoopFrame
  /\ UNCHANGED <<halted, fault, status, locals, ub>>

\* Opcodes that only change a register: set_register_error_bit, clear_reg
\* before a load, and fault_on_error.
ExecRegister(t, i) ==
  /\ i.op \in {"ERROR", "LOAD", "ERR_FAULT_ENABLE", "ERR_FAULT_DISABLE"}
  /\ Fetch(t, i)
  /\ err' = [err EXCEPT ![i.reg] = i.op = "ERROR" \/ (@ /\ i.op # "LOAD")]
  /\ hnd' = [hnd EXCEPT ![i.reg] = IF i.op = "LOAD" THEN NULL ELSE @]
  /\ foe' = [foe EXCEPT ![i.reg] =
               i.op = "ERR_FAULT_ENABLE" \/ (@ /\ i.op # "ERR_FAULT_DISABLE")]
  /\ Advance(t) /\ Goto(t, "check")
  /\ LoopFrame
  /\ UNCHANGED <<vmFault, halted, fault, status, locals, ub>>

\* A bug: the freed object stays in the table.
ThreadExitKeepsSlot(t, i) ==
  /\ i.op = "THREAD_EXIT"
  /\ Fetch(t, i)
  /\ life' = [life EXCEPT ![run[t]] = "freed"]
  /\ Goto(t, "exit")
  /\ UNCHANGED <<threads, regVars, vmFault, vmLive, id, next_PC, halted, fault, status,
                 native, locals, natVars, hostVars, ub, overlap>>

\* builtin_THREAD_EXIT: the object leaves the table and is freed, then the
\* native ends with a fault-free exit info.
ExecThreadExit(t, i) ==
  /\ i.op = "THREAD_EXIT"
  /\ Fetch(t, i)
  /\ threads' = [threads EXCEPT ![id[run[t]]] = NULL]
  /\ life' = [life EXCEPT ![run[t]] = "freed"]
  /\ Goto(t, "exit")
  /\ UNCHANGED <<regVars, vmFault, vmLive, id, next_PC, halted, fault, status,
                 native, locals, natVars, hostVars, ub, overlap>>

PthreadExit(t) ==
  /\ Running /\ pc[t] = "exit"
  /\ Goto(t, "dead")
  /\ UNCHANGED <<threads, regVars, vmFault, vmLive, objVars, locals, natVars,
                 hostVars, ub, history>>

\* A bug: the exit info forgets the fault of the thread.
LeaveForgetsFault(t) ==
  /\ At(t, "leave")
  /\ Goto(t, "dead")
  /\ faulty' = [faulty EXCEPT ![t] = vmFault]
  /\ UNCHANGED <<threads, regVars, vmFault, vmLive, objVars, locals, run, joined,
                 hostVars, ub, history>>

\* After the loop: the exit info says whether the machine or the thread has a
\* fault.  The object stays in the table.
Leave(t) ==
  /\ At(t, "leave")
  /\ Goto(t, "dead")
  /\ faulty' = [faulty EXCEPT ![t] = vmFault \/ fault[run[t]]]
  /\ UNCHANGED <<threads, regVars, vmFault, vmLive, objVars, locals, run, joined,
                 hostVars, ub, history>>

\* The next step of t is an access to freed memory.
UseAfterFree(t) ==
  /\ Running
  /\ pc[t] \notin {"none", "join_wait", "exit", "dead"}
  /\ ~Valid(t)
  /\ ub' = "use_after_free"
  /\ UNCHANGED <<threads, regVars, vmFault, vmLive, objVars, pc, locals, natVars,
                 hostVars, history>>


-----------------------------------------------------------------------------
\* THREAD_START.

\* Two starts overlap when one begins before another has created its native.
Claiming(t) == pc[t] \in Starting \ {"st_load"}

ExecThreadStart(t, i) ==
  /\ i.op = "THREAD_START"
  /\ Fetch(t, i)
  /\ ins' = [ins EXCEPT ![t] = i]
  /\ slot' = [slot EXCEPT ![t] = 0]
  /\ overlap' = (overlap \/ \E u \in Natives \ {t} : Claiming(u))
  /\ Advance(t) /\ Goto(t, "st_scan")
  /\ UNCHANGED <<threads, regVars, vmFault, vmLive, life, id, halted, fault, status,
                 native, new, info, tgt, natVars, hostVars, ub>>

\* A bug: the first slot after the main thread's is taken, free or not.
AllocScanTakesUsed(t) ==
  /\ At(t, "st_scan")
  /\ IF slot[t] = MaxThreads THEN Done(t)
     ELSE IF slot[t] = 0
     THEN slot' = [slot EXCEPT ![t] = 1] /\ UNCHANGED <<pc, ins, new, info, tgt>>
     ELSE Goto(t, "st_store") /\ UNCHANGED locals
  /\ UNCHANGED <<threads, regVars, vmFault, objVars, vmLive, natVars, hostVars, ub, history>>

\* srsvm_vm_alloc_thread looks at one slot; past the last slot it returns
\* NULL and THREAD_START does nothing.
AllocScan(t) ==
  /\ At(t, "st_scan")
  /\ IF slot[t] = MaxThreads THEN Done(t)
     ELSE IF threads[slot[t]] # NULL
     THEN slot' = [slot EXCEPT ![t] = @ + 1] /\ UNCHANGED <<pc, ins, new, info, tgt>>
     ELSE Goto(t, "st_store") /\ UNCHANGED locals
  /\ UNCHANGED <<threads, regVars, vmFault, objVars, vmLive, natVars, hostVars, ub, history>>

\* Bugs: thread->id is never set; it is set to the index after the loop.
ThreadAllocNoId(o, i, addr) ==
  /\ life[o] = "unborn"
  /\ life' = [life EXCEPT ![o] = "live"]
  /\ next_PC' = [next_PC EXCEPT ![o] = addr]
  /\ UNCHANGED <<id, halted, fault, status, native>>

ThreadAllocNextId(o, i, addr) ==
  /\ life[o] = "unborn"
  /\ life' = [life EXCEPT ![o] = "live"]
  /\ id' = [id EXCEPT ![o] = i + 1]
  /\ next_PC' = [next_PC EXCEPT ![o] = addr]
  /\ UNCHANGED <<halted, fault, status, native>>

\* srsvm_thread_alloc makes o live with the id i; exit_status and
\* native_handle are left unwritten.
ThreadAlloc(o, i, addr) ==
  /\ life[o] = "unborn"
  /\ life' = [life EXCEPT ![o] = "live"]
  /\ id' = [id EXCEPT ![o] = i]
  /\ next_PC' = [next_PC EXCEPT ![o] = addr]
  /\ UNCHANGED <<halted, fault, status, native>>

\* The slot was free when it was read: srsvm_thread_alloc, then the store of
\* the new object, whatever the slot holds by now.
AllocStore(t) ==
  /\ At(t, "st_store")
  /\ \E o \in Objs :
       /\ ThreadAlloc(o, slot[t], ins[t].val)
       /\ threads' = [threads EXCEPT ![slot[t]] = o]
       /\ new' = [new EXCEPT ![t] = o]
  /\ Goto(t, "st_read")
  /\ UNCHANGED <<regVars, vmFault, vmLive, ins, slot, info, tgt, natVars, hostVars, ub, history>>

\* malloc fails: NULL is stored in the slot and THREAD_START does nothing.
AllocFails(t) ==
  /\ At(t, "st_store")
  /\ \A o \in Objs : life[o] # "unborn"
  /\ threads' = [threads EXCEPT ![slot[t]] = NULL]
  /\ Done(t)
  /\ UNCHANGED <<regVars, vmFault, objVars, vmLive, natVars, hostVars, ub, history>>

\* srsvm_vm_start_thread(vm, thread->id): the object is read back from the
\* table.
StartRead(t) ==
  /\ At(t, "st_read")
  /\ info' = [info EXCEPT ![t] = threads[id[new[t]]]]
  /\ Goto(t, "st_create")
  /\ UNCHANGED <<threads, regVars, vmFault, objVars, vmLive, ins, slot, new, tgt,
                 natVars, hostVars, ub, history>>

\* pthread_create: native n begins run_thread on o, and its handle is written
\* to the object h that the table holds now.
Spawn(n, o, h) ==
  /\ pc[n] = "none"
  /\ run' = [run EXCEPT ![n] = o]
  /\ native' = [native EXCEPT ![h] = n]

\* The slot is read again, twice: NULL makes the start fail.
StartCreate(t) ==
  /\ At(t, "st_create")
  /\ threads[slot[t]] # NULL
  /\ IF info[t] = NULL
     THEN ub' = "null_thread" /\ UNCHANGED <<pc, run, native>>
     ELSE /\ \E n \in Natives :
               /\ Spawn(n, info[t], threads[slot[t]])
               /\ pc' = [pc EXCEPT ![t] = "st_load", ![n] = "check"]
          /\ UNCHANGED ub
  /\ UNCHANGED <<threads, regVars, vmFault, vmLive, life, id, next_PC, halted, fault,
                 status, locals, faulty, joined, hostVars, history>>

\* The start fails, the slot being empty or pthread_create out of threads:
\* the fault goes to the new thread, which the inner "thread" of
\* builtin_THREAD_START names.
StartFails(t) ==
  /\ At(t, "st_create")
  /\ threads[slot[t]] = NULL \/ \A n \in Natives : pc[n] # "none"
  /\ fault' = [fault EXCEPT ![new[t]] = TRUE]
  /\ ub' = IF life[new[t]] = "live" THEN ub ELSE "use_after_free"
  /\ Done(t)
  /\ UNCHANGED <<threads, regVars, vmFault, vmLive, life, id, next_PC, halted, status,
                 native, natVars, hostVars, history>>

\* The handle of the new thread goes to the destination register, after the
\* thread has been started.
LoadHandle(t) ==
  /\ At(t, "st_load")
  /\ hnd' = [r \in Regs |-> IF r = ins[t].dest THEN new[t] ELSE hnd[r]]
  /\ err' = [r \in Regs |-> err[r] /\ r # ins[t].dest]
  /\ Done(t)
  /\ UNCHANGED <<threads, foe, vmFault, vmLive, objVars, natVars, hostVars, ub, history>>

-----------------------------------------------------------------------------
\* THREAD_JOIN.

\* What pthread_join makes of the handle in object o when native t calls it.
JoinVerdict(o, t) ==
  IF life[o] # "live" THEN "join_freed"
  ELSE IF native[o] = NULL THEN "join_unstarted"
  ELSE IF native[o] = t THEN "fault"           \* EDEADLK
  ELSE IF joined[native[o]] THEN "join_twice"
  ELSE "wait"

Joins(t, i, n) ==
  /\ joined' = [joined EXCEPT ![n] = TRUE]
  /\ ins' = [ins EXCEPT ![t] = i]
  /\ tgt' = [tgt EXCEPT ![t] = n]
  /\ Goto(t, "join_wait")
  /\ UNCHANGED <<fault, ub>>

\* An empty register, or a thread that joins itself, is a fault of t.
ExecThreadJoin(t, i) ==
  LET h       == hnd[i.reg]
      verdict == IF h = NULL THEN "fault" ELSE JoinVerdict(h, t)
  IN
  /\ i.op = "THREAD_JOIN"
  /\ Fetch(t, i)
  /\ IF verdict = "wait" THEN Joins(t, i, native[h])
     ELSE /\ fault' = [fault EXCEPT ![run[t]] = @ \/ verdict = "fault"]
          /\ ub' = IF verdict = "fault" THEN ub ELSE verdict
          /\ Goto(t, "check")
          /\ UNCHANGED <<joined, ins, tgt>>
  /\ Advance(t)
  /\ UNCHANGED <<threads, regVars, vmFault, vmLive, life, id, halted, status, native,
                 slot, new, info, run, faulty, hostVars, overlap>>

\* pthread_join returns when the target has ended.
JoinReturns(t) ==
  /\ Running /\ pc[t] = "join_wait"
  /\ pc[tgt[t]] = "dead"
  /\ Goto(t, "join_done")
  /\ UNCHANGED <<threads, regVars, vmFault, vmLive, objVars, locals, natVars, hostVars,
                 ub, history>>

\* With a destination the exit info becomes its error bit or its value.
JoinResult(t) ==
  /\ At(t, "join_done")
  /\ err' = [r \in Regs |-> IF r = ins[t].dest THEN faulty[tgt[t]] ELSE err[r]]
  /\ hnd' = [r \in Regs |-> IF r = ins[t].dest /\ ~faulty[tgt[t]] THEN NULL ELSE hnd[r]]
  /\ Done(t)
  /\ UNCHANGED <<threads, foe, vmFault, vmLive, objVars, natVars, hostVars, ub, history>>

-----------------------------------------------------------------------------
\* main() of the runtime, from srsvm_vm_start_thread to its return.

HostStart ==
  /\ Running /\ host = "start"
  /\ \E n \in Natives : Spawn(n, MainObj, MainObj) /\ Goto(n, "check")
  /\ host' = "join"
  /\ UNCHANGED <<threads, regVars, vmFault, vmLive, life, id, next_PC, halted, fault,
                 status, locals, faulty, joined, hostTgt, exitCode, ub, history>>

\* A bug: main() does not wait for the main thread.
HostJoinNoWait ==
  /\ Running /\ host = "join"
  /\ host' = "status"
  /\ UNCHANGED <<threads, regVars, vmFault, vmLive, objVars, pc, locals, natVars,
                 hostTgt, exitCode, ub, history>>

\* srsvm_vm_join_thread(vm, main_thread->id): an empty slot is not an error.
HostJoin ==
  LET o       == threads[id[MainObj]]
      verdict == IF life[MainObj] # "live" THEN "use_after_free"
                 ELSE IF o = NULL THEN "skip"
                 ELSE JoinVerdict(o, NULL)
  IN
  /\ Running /\ host = "join"
  /\ IF verdict = "wait"
     THEN /\ host' = "join_wait"
          /\ hostTgt' = native[o]
          /\ joined' = [joined EXCEPT ![native[o]] = TRUE]
          /\ UNCHANGED ub
     ELSE /\ host' = "status"
          /\ ub' = IF verdict = "skip" THEN ub ELSE verdict
          /\ UNCHANGED <<hostTgt, joined>>
  /\ UNCHANGED <<threads, regVars, vmFault, vmLive, objVars, pc, locals, run, faulty,
                 exitCode, history>>

HostJoined ==
  /\ Running /\ host = "join_wait"
  /\ pc[hostTgt] = "dead"
  /\ host' = "status"
  /\ UNCHANGED <<threads, regVars, vmFault, vmLive, objVars, pc, locals, natVars,
                 hostTgt, exitCode, ub, history>>

\* The exit code is the low byte of the main thread's exit status; a status
\* no HALT has written is whatever malloc returned.
HostStatus ==
  /\ Running /\ host = "status"
  /\ IF life[MainObj] # "live"
     THEN ub' = "use_after_free" /\ UNCHANGED <<host, exitCode>>
     ELSE /\ \E v \in IF status[MainObj] = NULL THEN Garbage ELSE {status[MainObj]} :
               exitCode' = v % 256
          /\ host' = "free_main"
          /\ UNCHANGED ub
  /\ UNCHANGED <<threads, regVars, vmFault, vmLive, objVars, pc, locals, natVars,
                 hostTgt, history>>

\* srsvm_thread_free(vm, main_thread).
HostFreeMain ==
  /\ Running /\ host = "free_main"
  /\ threads' = [threads EXCEPT ![id[MainObj]] = NULL]
  /\ life' = [life EXCEPT ![MainObj] = "freed"]
  /\ ub' = IF life[MainObj] = "live" THEN ub ELSE "double_free"
  /\ host' = "free_vm"
  /\ UNCHANGED <<regVars, vmFault, vmLive, id, next_PC, halted, fault, status, native,
                 pc, locals, natVars, hostTgt, exitCode, history>>

\* srsvm_vm_free: every object in the table is freed with the machine.
HostFreeVm ==
  /\ Running /\ host = "free_vm"
  /\ threads' = [i \in Slots |-> NULL]
  /\ life' = [o \in Objs |-> IF \E i \in Slots : threads[i] = o THEN "freed" ELSE life[o]]
  /\ ub' = IF \A o \in Objs : (\E i \in Slots : threads[i] = o) => life[o] = "live"
           THEN ub ELSE "double_free"
  /\ vmLive' = FALSE
  /\ host' = "exit"
  /\ UNCHANGED <<regVars, vmFault, id, next_PC, halted, fault, status, native, pc,
                 locals, natVars, hostTgt, exitCode, history>>

\* main() returns and the process ends, with whatever still runs in it.
HostExit ==
  /\ Running /\ host = "exit"
  /\ host' = "exited"
  /\ UNCHANGED <<threads, regVars, vmFault, vmLive, objVars, pc, locals, natVars,
                 hostTgt, exitCode, ub, history>>

\* The process has ended, or is past its first undefined behaviour.
Stopped == ~Running /\ UNCHANGED vars

-----------------------------------------------------------------------------
Program == UNION {Code[a] : a \in DOMAIN Code}

NatStep(t) ==
  \/ LoopCheck(t) \/ ScanRegisters(t) \/ Gate(t) \/ FetchFails(t)
  \/ \E i \in Program :
       \/ ExecFault(t, i) \/ ExecJump(t, i) \/ ExecHalt(t, i) \/ ExecRegister(t, i)
       \/ ExecThreadExit(t, i) \/ ExecThreadStart(t, i) \/ ExecThreadJoin(t, i)
  \/ AllocScan(t) \/ AllocStore(t) \/ AllocFails(t)
  \/ StartRead(t) \/ StartCreate(t) \/ StartFails(t) \/ LoadHandle(t)
  \/ JoinReturns(t) \/ JoinResult(t)
  \/ PthreadExit(t) \/ Leave(t) \/ UseAfterFree(t)

HostStep ==
  \/ HostStart \/ HostJoin \/ HostJoined \/ HostStatus
  \/ HostFreeMain \/ HostFreeVm \/ HostExit

Next == (\E t \in Natives : NatStep(t)) \/ HostStep \/ Stopped

Spec == Init /\ [][Next]_vars

\* The host schedules every thread that can run.
Fairness == WF_vars(HostStep) /\ \A t \in Natives : WF_vars(NatStep(t))

FairSpec == Spec /\ Fairness

-----------------------------------------------------------------------------
\* Safety.

\* A slot of vm->threads is empty or holds an object that is still allocated
\* and that knows its slot, however allocation, THREAD_EXIT and the clean-up
\* of main() interleave: nobody who looks an object up finds freed memory.
SlotsNeverDangle ==
  \A i \in Slots : threads[i] # NULL => life[threads[i]] = "live" /\ id[threads[i]] = i

\* Once the machine has a fault every thread begins at most one more
\* instruction, the one it had passed the gate for.
OneInstructionAfterVmFault == \A t \in Natives : late[t] <= 1

\* Natives between their creation and their last use of their object.
Executing(t) == pc[t] \notin {"none", "exit", "dead"}

\* While starts do not overlap, no two natives run the same object.
OneNativePerObject ==
  ~overlap => \A t, u \in Natives :
    Executing(t) /\ Executing(u) /\ run[t] = run[u] => t = u

\* While starts do not overlap, and until main() frees the machine, the thread
\* a native runs is the one the table holds under its id.
RunningThreadsRegistered ==
  ~overlap /\ vmLive /\ ub = "none" =>
    \A t \in Natives : Executing(t) => threads[id[run[t]]] = run[t]

\* The exit code of the process is the low byte of the operand of the main
\* thread's HALT, whatever the other threads did.
HaltStatusReported ==
  host = "exited" /\ halted[MainObj] => exitCode = status[MainObj] % 256

\* When the main thread has ended by a fault, the exit code is the low byte of
\* what its handler wrote: the handler has run before main() reads the status,
\* and neither a HALT nor another thread writes it again.
FaultStatusReported ==
  host = "exited" /\ fault[MainObj] /\ FaultStatus # NULL => exitCode = FaultStatus % 256

\* In a program that joins its workers no freed memory is touched, no object
\* freed twice, and every pthread_join is on a thread that exists and has not been
\* joined, unless the machine has a fault: main() then waits for nobody.
NoUndefinedBehaviour == ~vmFault => ub = "none"

\* A program that joins its workers into a register with ERR_FAULT_ENABLE
\* does not reach its HALT when one of them ended with a fault.
JoinedFaultStopsMain ==
  halted[MainObj] /\ (\E r \in Regs : foe[r]) => \A o \in Objs : ~fault[o]

-----------------------------------------------------------------------------
\* Liveness.

\* The process of a program that joins its workers ends, unless they jump for
\* ever or the machine has a fault.
Jumps == \E t \in Natives, i \in Program : ExecJump(t, i)
ProcessEnds == <>(host = "exited" \/ vmFault) \/ []<><<Jumps>>_vars

\* A fault of the machine ends the process, though its threads loop forever.
VmFaultEndsProcess == vmFault ~> (host = "exited" \/ ub # "none")
=============================================================================
