--------------------------- MODULE VmThreads_proofs ---------------------------
(***************************************************************************)
(* What is proved of VmThreads for every number of slots, registers,       *)
(* objects and natives, and for every program.                             *)
(***************************************************************************)
EXTENDS VmThreads, TLAPS

\* The locals an opcode reads have been written by the time it reads them.
LocalsOK ==
  /\ \A t \in Natives :
       /\ pc[t] \notin {"none", "exit", "dead"} => run[t] \in Objs
       /\ pc[t] \in Starting => ins[t] \in Instr
       /\ pc[t] = "st_store" => slot[t] \in Slots
       /\ pc[t] \in {"st_read", "st_create", "st_load"} => new[t] \in Objs
       /\ pc[t] \in {"join_wait", "join_done"} => tgt[t] \in Natives
  /\ host = "join_wait" => hostTgt \in Natives

TypeInv == TypeOK /\ LocalsOK

USE DEF regVars, objVars, locals, natVars, hostVars, history, vars

-----------------------------------------------------------------------------
\* The type invariant.

LEMMA InitType == Init => TypeInv
<1> SUFFICES ASSUME Init PROVE TypeInv
  OBVIOUS
<1>1. 0 \in Slots /\ 0 \in 0 .. MaxThreads /\ 0 \in 0 .. 2
  BY ConstantsOK DEF Slots
<1>2. threads \in [Slots -> Objs \cup {NULL}]
  BY ConstantsOK DEF Init
<1>3. TypeOK
  BY <1>1, <1>2, ConstantsOK DEF Init, TypeOK, PC
<1>4. LocalsOK
  BY DEF Init, LocalsOK, Starting
<1> QED
  BY <1>3, <1>4 DEF TypeInv

\* An instruction of the program is an instruction, with the register it needs.
LEMMA ProgramInstr ==
  ASSUME NEW i \in Program
  PROVE  /\ i \in Instr
         /\ i.op = "HALT_ERR" => i.reg \in Regs
         /\ i.op = "THREAD_JOIN" => i.reg \in Regs
  BY ConstantsOK DEF Program, Instr

LEMMA StatusType ==
  ASSUME NEW i \in Program, i.op \in {"HALT", "HALT_ERR"}
  PROVE  StatusOf(i) \in Nat
  BY ProgramInstr, ConstantsOK DEF StatusOf, Instr, Regs

\* The slot after one that is not the last.
LEMMA NextSlot ==
  ASSUME NEW n \in Nat, NEW s \in 0 .. n, s # n
  PROVE  s + 1 \in 0 .. n
  OBVIOUS

\* The end of an opcode keeps the types of its locals.
LEMMA DoneType ==
  ASSUME TypeOK, NEW t \in Natives, Done(t)
  PROVE  /\ pc' \in [Natives -> PC]
         /\ ins' \in [Natives -> Instr \cup {NULL}]
         /\ slot' \in [Natives -> 0 .. MaxThreads]
         /\ new' \in [Natives -> Objs \cup {NULL}] /\ info' \in [Natives -> Objs \cup {NULL}]
         /\ tgt' \in [Natives -> Natives \cup {NULL}]
  BY ConstantsOK DEF TypeOK, Done, Goto, PC

LEMMA DoneLocals ==
  ASSUME TypeOK, LocalsOK, NEW t \in Natives, Done(t), run[t] \in Objs,
         UNCHANGED <<run, host, hostTgt>>
  PROVE  LocalsOK'
<1>1. pc'[t] = "check"
  BY DEF TypeOK, Done, Goto
<1>2. \A u \in Natives \ {t} : /\ pc'[u] = pc[u] /\ ins'[u] = ins[u] /\ slot'[u] = slot[u]
                             /\ new'[u] = new[u] /\ tgt'[u] = tgt[u]
  BY DEF TypeOK, Done, Goto
<1> QED
  BY <1>1, <1>2 DEF LocalsOK, Starting

\* Every step of a native keeps the types.
LEMMA NatStepType ==
  ASSUME TypeInv, NEW t \in Natives, NatStep(t)
  PROVE  TypeInv'
<1> USE ConstantsOK DEF TypeInv, TypeOK, LocalsOK, At, Goto, PC, Starting
<1>1. CASE LoopCheck(t)
  BY <1>1 DEF LoopCheck, FaultHandler, LoopFrame
<1>2. CASE ScanRegisters(t)
  BY <1>2 DEF ScanRegisters, LoopFrame
<1>3. CASE Gate(t)
  BY <1>3 DEF Gate, LoopFrame
<1>4. CASE FetchFails(t)
  BY <1>4 DEF FetchFails, LoopFrame
<1>5. ASSUME NEW i \in Program, ExecFault(t, i) PROVE TypeInv'
  BY <1>5 DEF ExecFault, Fetch, Advance, LoopFrame
<1>6. ASSUME NEW i \in Program, ExecJump(t, i) PROVE TypeInv'
  BY SMTT(60), <1>6, ProgramInstr DEF ExecJump, Fetch, Advance, LoopFrame, Instr
<1>7. ASSUME NEW i \in Program, ExecHalt(t, i) PROVE TypeInv'
  <2>1. StatusOf(i) \in Nat
    BY <1>7, StatusType DEF ExecHalt
  <2>2. CASE i.op = "HALT" \/ err[i.reg]
    <3>1. /\ halted' = [halted EXCEPT ![run[t]] = TRUE]
          /\ status' = [status EXCEPT ![run[t]] = StatusOf(i)]
      BY <1>7, <2>2 DEF ExecHalt
    <3>2. halted' \in [Objs -> BOOLEAN] /\ status' \in [Objs -> Nat \cup {NULL}]
      BY <2>1, <3>1
    <3>3. /\ Fetch(t, i) /\ Advance(t) /\ Goto(t, "check") /\ LoopFrame
          /\ UNCHANGED <<regVars, vmFault, fault, locals, ub>>
      BY <1>7 DEF ExecHalt
    <3> QED
      BY <3>2, <3>3 DEF Fetch, Advance, LoopFrame
  <2>3. CASE ~ (i.op = "HALT" \/ err[i.reg])
    <3>1. UNCHANGED <<halted, status>>
      BY <1>7, <2>3 DEF ExecHalt
    <3> QED
      BY <1>7, <3>1 DEF ExecHalt, Fetch, Advance, LoopFrame
  <2> QED
    BY <2>2, <2>3
<1>8. ASSUME NEW i \in Program, ExecRegister(t, i) PROVE TypeInv'
  <2> DEFINE e == i.op = "ERROR" \/ (err[i.reg] /\ i.op # "LOAD")
             f == i.op = "ERR_FAULT_ENABLE" \/ (foe[i.reg] /\ i.op # "ERR_FAULT_DISABLE")
  <2>1. /\ e \in BOOLEAN /\ err' = [err EXCEPT ![i.reg] = e]
        /\ f \in BOOLEAN /\ foe' = [foe EXCEPT ![i.reg] = f]
        /\ hnd' = [hnd EXCEPT ![i.reg] = IF i.op = "LOAD" THEN NULL ELSE @]
    BY <1>8, Zenon DEF ExecRegister
  <2> HIDE DEF e, f
  <2>2. /\ err' \in [Regs -> BOOLEAN] /\ foe' \in [Regs -> BOOLEAN]
        /\ hnd' \in [Regs -> Objs \cup {NULL}]
    BY <2>1
  <2>3. /\ Fetch(t, i) /\ Advance(t) /\ Goto(t, "check") /\ LoopFrame
        /\ UNCHANGED <<vmFault, halted, fault, status, locals, ub>>
    BY <1>8 DEF ExecRegister
  <2> QED
    BY <2>2, <2>3 DEF Fetch, Advance, LoopFrame
<1>9. ASSUME NEW i \in Program, ExecThreadExit(t, i) PROVE TypeInv'
  BY <1>9 DEF ExecThreadExit, Fetch
<1>10. ASSUME NEW i \in Program, ExecThreadStart(t, i) PROVE TypeInv'
  BY <1>10, ProgramInstr DEF ExecThreadStart, Fetch, Advance
<1>11. ASSUME NEW i \in Program, ExecThreadJoin(t, i) PROVE TypeInv'
  <2> DEFINE h == hnd[i.reg]
             verdict == IF h = NULL THEN "fault" ELSE JoinVerdict(h, t)
  <2>1. /\ late' \in [Natives -> 0 .. 2] /\ pc[t] = "fetch"
        /\ next_PC' \in [Objs -> Nat]
        /\ UNCHANGED <<threads, regVars, vmFault, vmLive, life, id, halted, status, native,
                      slot, new, info, run, faulty, hostVars, overlap>>
    BY <1>11 DEF ExecThreadJoin, Fetch, Advance
  <2>2. h \in Objs \cup {NULL}
    BY <1>11, ProgramInstr DEF ExecThreadJoin
  <2>3. CASE verdict = "wait"
    <3>1. Joins(t, i, native[h])
      BY <1>11, <2>3 DEF ExecThreadJoin
    <3>2. native[h] \in Natives
      BY <2>2, <2>3 DEF JoinVerdict
    <3>3. joined' \in [Natives -> BOOLEAN] /\ ins' \in [Natives -> Instr \cup {NULL}]
      BY <3>1, ProgramInstr DEF Joins
    <3> HIDE DEF h, verdict
    <3> QED
      BY <2>1, <3>1, <3>2, <3>3 DEF Joins
  <2>4. CASE verdict # "wait"
    <3>1. /\ fault' = [fault EXCEPT ![run[t]] = @ \/ verdict = "fault"]
          /\ ub' = IF verdict = "fault" THEN ub ELSE verdict
          /\ Goto(t, "check")
          /\ UNCHANGED <<joined, ins, tgt>>
      BY <1>11, <2>4 DEF ExecThreadJoin
    <3>2. verdict \in {"fault", "join_freed", "join_unstarted", "join_twice"}
      BY <2>4 DEF JoinVerdict
    <3> HIDE DEF h, verdict
    <3>3. fault' \in [Objs -> BOOLEAN]
      BY <3>1, Zenon
    <3> QED
      BY <2>1, <3>1, <3>2, <3>3
  <2> QED
    BY <2>3, <2>4
<1>12. CASE AllocScan(t)
  <2>1. CASE slot[t] = MaxThreads
    <3>1. /\ Done(t)
          /\ UNCHANGED <<threads, regVars, vmFault, objVars, vmLive, natVars, hostVars, ub,
                        history>>
      BY <1>12, <2>1 DEF AllocScan
    <3>2. TypeOK'
      BY <3>1, DoneType
    <3>3. LocalsOK'
      BY <1>12, <3>1, DoneLocals DEF AllocScan
    <3> QED
      BY <3>2, <3>3
  <2>2. CASE slot[t] # MaxThreads /\ threads[slot[t]] # NULL
    <3>1. slot[t] + 1 \in 0 .. MaxThreads
      BY <2>2, NextSlot
    <3> QED
      BY <1>12, <2>2, <3>1 DEF AllocScan
  <2>3. CASE slot[t] # MaxThreads /\ threads[slot[t]] = NULL
    <3>1. slot[t] \in Slots
      BY <2>3 DEF Slots
    <3> QED
      BY SMTT(60), <1>12, <2>3, <3>1 DEF AllocScan
  <2> QED
    BY <2>1, <2>2, <2>3
<1>13. CASE AllocStore(t)
  <2> PICK o \in Objs : /\ ThreadAlloc(o, slot[t], ins[t].val)
                        /\ threads' = [threads EXCEPT ![slot[t]] = o]
                        /\ new' = [new EXCEPT ![t] = o]
    BY <1>13 DEF AllocStore
  <2> QED
    BY <1>13 DEF AllocStore, ThreadAlloc, Instr
<1>14. CASE AllocFails(t)
  BY <1>14 DEF AllocFails, Done
<1>15. CASE StartRead(t)
  BY <1>15 DEF StartRead
<1>16. CASE StartCreate(t)
  <2>1. CASE info[t] = NULL
    BY <1>16, <2>1 DEF StartCreate
  <2>2. CASE info[t] # NULL
    <3>1. PICK n \in Natives : /\ Spawn(n, info[t], threads[slot[t]])
                               /\ pc' = [pc EXCEPT ![t] = "st_load", ![n] = "check"]
      BY <1>16, <2>2 DEF StartCreate
    <3>2. n # t /\ pc' = [x \in Natives |-> IF x = n THEN "check"
                                             ELSE IF x = t THEN "st_load" ELSE pc[x]]
      BY <1>16, <3>1 DEF StartCreate, Spawn
    <3>3. run' = [run EXCEPT ![n] = info[t]] /\ info[t] \in Objs
      BY <2>2, <3>1 DEF Spawn
    <3>4. /\ run' \in [Natives -> Objs \cup {NULL}]
          /\ native' \in [Objs -> Natives \cup {NULL}]
          /\ pc' \in [Natives -> PC]
      <4>1. native' = [native EXCEPT ![threads[slot[t]]] = n]
        BY <3>1 DEF Spawn
      <4>2. native' \in [Objs -> Natives \cup {NULL}]
        BY <4>1
      <4>3. run' \in [Natives -> Objs \cup {NULL}]
        BY <3>3
      <4>4. pc' \in [Natives -> PC]
        BY <3>2
      <4> QED
        BY <4>2, <4>3, <4>4
    <3>5. /\ pc[t] = "st_create"
          /\ UNCHANGED <<threads, regVars, vmFault, vmLive, life, id, next_PC, halted, fault,
                        status, locals, faulty, joined, hostVars, history, ub>>
      BY <1>16, <2>2 DEF StartCreate
    <3>6. TypeOK'
      BY <3>4, <3>5
    <3>7. ASSUME NEW x \in Natives, pc'[x] \notin {"none", "exit", "dead"}
          PROVE  run'[x] \in Objs
      BY <3>2, <3>3, <3>5, <3>7
    <3>8. ASSUME NEW x \in Natives
          PROVE  /\ pc'[x] \in Starting => ins'[x] \in Instr
                 /\ pc'[x] = "st_store" => slot'[x] \in Slots
                 /\ pc'[x] \in {"st_read", "st_create", "st_load"} => new'[x] \in Objs
                 /\ pc'[x] \in {"join_wait", "join_done"} => tgt'[x] \in Natives
      BY <3>2, <3>5
    <3> QED
      BY <3>5, <3>6, <3>7, <3>8
  <2> QED
    BY <2>1, <2>2
<1>17. CASE StartFails(t)
  BY <1>17 DEF StartFails, Done
<1>18. CASE LoadHandle(t)
  BY <1>18 DEF LoadHandle, Done
<1>19. CASE JoinReturns(t)
  BY <1>19 DEF JoinReturns
<1>20. CASE JoinResult(t)
  BY <1>20 DEF JoinResult, Done
<1>21. CASE PthreadExit(t)
  BY <1>21 DEF PthreadExit
<1>22. CASE Leave(t)
  BY <1>22 DEF Leave
<1>23. CASE UseAfterFree(t)
  BY <1>23 DEF UseAfterFree
<1> QED
  BY <1>1, <1>2, <1>3, <1>4, <1>5, <1>6, <1>7, <1>8, <1>9, <1>10, <1>11, <1>12,
     <1>13, <1>14, <1>15, <1>16, <1>17, <1>18, <1>19, <1>20, <1>21, <1>22, <1>23
     DEF NatStep

LEMMA HostStepType == TypeInv /\ HostStep => TypeInv'
<1> SUFFICES ASSUME TypeInv, HostStep PROVE TypeInv'
  OBVIOUS
<1> USE ConstantsOK DEF TypeInv, TypeOK, LocalsOK, Goto, PC, Starting
<1>1. CASE HostStart
  BY <1>1 DEF HostStart, Spawn
<1>2. CASE HostJoin
  <2> DEFINE o == threads[id[MainObj]]
             verdict == IF life[MainObj] # "live" THEN "use_after_free"
                        ELSE IF o = NULL THEN "skip" ELSE JoinVerdict(o, NULL)
  <2>1. CASE verdict = "wait"
    <3>1. native[o] \in Natives
      BY <2>1 DEF JoinVerdict, Slots
    <3>2. /\ host' = "join_wait" /\ hostTgt' = native[o]
          /\ joined' = [joined EXCEPT ![native[o]] = TRUE]
          /\ UNCHANGED ub
      BY <1>2, <2>1 DEF HostJoin
    <3> QED
      BY <1>2, <3>1, <3>2 DEF HostJoin
  <2>2. CASE verdict # "wait"
    <3>1. verdict \in {"use_after_free", "skip", "fault", "join_freed", "join_unstarted",
                       "join_twice"}
      BY <2>2 DEF JoinVerdict
    <3>2. verdict # "fault"
      BY DEF JoinVerdict
    <3>3. /\ host' = "status" /\ UNCHANGED <<hostTgt, joined>>
          /\ ub' = IF verdict = "skip" THEN ub ELSE verdict
      BY <1>2, <2>2 DEF HostJoin
    <3> QED
      BY <1>2, <3>1, <3>2, <3>3 DEF HostJoin
  <2> QED
    BY <2>1, <2>2
<1>3. CASE HostJoined
  BY <1>3 DEF HostJoined
<1>4. CASE HostStatus
  <2>1. exitCode' \in 0 .. 255 \cup {NULL}
    <3>1. ASSUME NEW v \in Nat PROVE v % 256 \in 0 .. 255
      OBVIOUS
    <3>2. CASE life[MainObj] # "live"
      BY <1>4, <3>2 DEF HostStatus
    <3>3. CASE life[MainObj] = "live"
      <4>1. PICK v \in IF status[MainObj] = NULL THEN Garbage ELSE {status[MainObj]} :
                    exitCode' = v % 256
        BY <1>4, <3>3 DEF HostStatus
      <4>2. v \in Nat
        OBVIOUS
      <4> QED
        BY <3>1, <4>1, <4>2
    <3> QED
      BY <3>2, <3>3
  <2> QED
    BY <1>4, <2>1 DEF HostStatus
<1>5. CASE HostFreeMain
  BY <1>5 DEF HostFreeMain
<1>6. CASE HostFreeVm
  BY <1>6 DEF HostFreeVm
<1>7. CASE HostExit
  BY <1>7 DEF HostExit
<1> QED
  BY <1>1, <1>2, <1>3, <1>4, <1>5, <1>6, <1>7 DEF HostStep

LEMMA StepType == TypeInv /\ [Next]_vars => TypeInv'
<1>1. ASSUME TypeInv, UNCHANGED vars PROVE TypeInv'
  BY <1>1 DEF TypeInv, TypeOK, LocalsOK
<1> QED
  BY <1>1, NatStepType, HostStepType DEF Next, Stopped

\* The type invariant holds in every reachable state.
THEOREM TypeCorrect == Spec => []TypeOK
<1>1. TypeInv => TypeOK
  BY DEF TypeInv
<1> QED
  BY <1>1, InitType, StepType, PTL DEF Spec

-----------------------------------------------------------------------------
\* The thread table holds live objects only.

\* Three steps write the table or free an object; every other step keeps both.
LEMMA TableWriters ==
  ASSUME Next
  PROVE  \/ UNCHANGED <<threads, life, id>>
         \/ \E t \in Natives, i \in Program : ExecThreadExit(t, i)
         \/ \E t \in Natives : AllocStore(t) \/ AllocFails(t)
         \/ HostFreeMain \/ HostFreeVm
<1>1. ASSUME NEW t \in Natives, NatStep(t)
      PROVE  \/ UNCHANGED <<threads, life, id>>
             \/ \E i \in Program : ExecThreadExit(t, i)
             \/ AllocStore(t) \/ AllocFails(t)
  BY <1>1, Zenon DEF NatStep, LoopFrame, LoopCheck, ScanRegisters, Gate, FetchFails, ExecFault,
     ExecJump, ExecHalt, ExecRegister, ExecThreadStart, ExecThreadJoin, AllocScan,
     StartRead, StartCreate, StartFails, LoadHandle, JoinReturns, JoinResult,
     PthreadExit, Leave, UseAfterFree
<1>2. ASSUME HostStep
      PROVE  UNCHANGED <<threads, life, id>> \/ HostFreeMain \/ HostFreeVm
  BY <1>2 DEF HostStep, HostStart, HostJoin, HostJoined, HostStatus, HostExit
<1> QED
  BY <1>1, <1>2 DEF Next, Stopped

\* A slot of the table is empty or holds a live object that knows the slot, so
\* whoever looks a thread up by its id never finds freed memory.
THEOREM TableNeverDangles == Spec => []SlotsNeverDangle
<1>1. Init => SlotsNeverDangle
  BY ConstantsOK DEF Init, SlotsNeverDangle
<1>2. TypeInv /\ SlotsNeverDangle /\ [Next]_vars => SlotsNeverDangle'
  <2> SUFFICES ASSUME TypeInv, SlotsNeverDangle, Next PROVE SlotsNeverDangle'
    BY DEF SlotsNeverDangle
  <2> USE ConstantsOK DEF TypeInv, TypeOK, LocalsOK, SlotsNeverDangle
  <2>1. CASE UNCHANGED <<threads, life, id>>
    BY <2>1
  <2>2. ASSUME NEW t \in Natives, NEW i \in Program, ExecThreadExit(t, i)
        PROVE  SlotsNeverDangle'
    BY <2>2 DEF ExecThreadExit, Fetch, At
  <2>3. ASSUME NEW t \in Natives, AllocStore(t) PROVE SlotsNeverDangle'
    BY <2>3 DEF AllocStore, ThreadAlloc, At
  <2>4. ASSUME NEW t \in Natives, AllocFails(t) PROVE SlotsNeverDangle'
    BY <2>4 DEF AllocFails
  <2>5. CASE HostFreeMain
    BY <2>5 DEF HostFreeMain
  <2>6. CASE HostFreeVm
    BY <2>6 DEF HostFreeVm
  <2> QED
    BY <2>1, <2>2, <2>3, <2>4, <2>5, <2>6, TableWriters
<1> QED
  BY <1>1, <1>2, InitType, StepType, PTL DEF Spec

-----------------------------------------------------------------------------
\* At most one instruction after a fault of the machine.

\* Nobody is late before the fault, and a native that has just passed the gate
\* has not been late yet: the gate is shut once the fault is raised.
LateInv ==
  /\ ~vmFault => \A t \in Natives : late[t] = 0
  /\ \A t \in Natives : late[t] <= 1 /\ (pc[t] = "fetch" => late[t] = 0)

\* A step that does not fetch keeps late and passes the gate only before the fault.
LEMMA NoFetchKeepsLate ==
  ASSUME TypeInv, LateInv, UNCHANGED late, vmFault => vmFault',
         \A u \in Natives : pc'[u] = "fetch" => pc[u] = "fetch" \/ ~vmFault
  PROVE  LateInv'
  BY DEF LateInv, TypeInv, TypeOK

LEMMA FetchOnce ==
  ASSUME TypeInv, LateInv, NEW t \in Natives, NEW i \in Program, Fetch(t, i),
         UNCHANGED vmFault,
         \A u \in Natives : pc'[u] = "fetch" => u # t /\ pc[u] = "fetch"
  PROVE  LateInv'
  BY DEF LateInv, TypeInv, TypeOK, Fetch, At

LEMMA NatStepLate ==
  ASSUME TypeInv, LateInv, NEW t \in Natives, NatStep(t)
  PROVE  LateInv'
<1> USE DEF Goto, At
<1>1. ASSUME NEW i \in Program,
             \/ ExecFault(t, i) \/ ExecJump(t, i) \/ ExecHalt(t, i) \/ ExecRegister(t, i)
             \/ ExecThreadExit(t, i) \/ ExecThreadStart(t, i) \/ ExecThreadJoin(t, i)
      PROVE  LateInv'
  <2>1. Fetch(t, i) /\ UNCHANGED vmFault
    BY <1>1, Zenon DEF ExecFault, ExecJump, ExecHalt, ExecRegister, ExecThreadExit,
       ExecThreadStart, ExecThreadJoin
  <2>2. \E p \in {"check", "exit", "st_scan", "join_wait"} : Goto(t, p)
    BY <1>1 DEF ExecFault, ExecJump, ExecHalt, ExecRegister, ExecThreadExit,
       ExecThreadStart, ExecThreadJoin, Joins
  <2>3. \A u \in Natives : pc'[u] = "fetch" => u # t /\ pc[u] = "fetch"
    BY <2>2 DEF TypeInv, TypeOK
  <2> QED
    BY <2>1, <2>3, FetchOnce
<1>2. CASE Gate(t)
  BY <1>2, NoFetchKeepsLate DEF Gate, LoopFrame, TypeInv, TypeOK
<1>3. CASE ScanRegisters(t)
  BY <1>3, NoFetchKeepsLate DEF ScanRegisters, LoopFrame, TypeInv, TypeOK
<1>4. CASE LoopCheck(t) \/ FetchFails(t)
  BY <1>4, NoFetchKeepsLate DEF LoopCheck, FetchFails, LoopFrame, TypeInv, TypeOK
<1>5. CASE \/ AllocScan(t) \/ AllocStore(t) \/ AllocFails(t) \/ StartRead(t)
           \/ StartFails(t) \/ LoadHandle(t)
  BY <1>5, NoFetchKeepsLate DEF AllocScan, AllocStore, AllocFails, StartRead, StartFails,
     LoadHandle, Done, TypeInv, TypeOK
<1>6. CASE StartCreate(t)
  BY <1>6, NoFetchKeepsLate DEF StartCreate, TypeInv, TypeOK
<1>7. CASE \/ JoinReturns(t) \/ JoinResult(t) \/ PthreadExit(t) \/ Leave(t)
           \/ UseAfterFree(t)
  BY <1>7, NoFetchKeepsLate DEF JoinReturns, JoinResult, PthreadExit, Leave,
     UseAfterFree, Done, TypeInv, TypeOK
<1> QED
  BY <1>1, <1>2, <1>3, <1>4, <1>5, <1>6, <1>7 DEF NatStep

LEMMA HostStepLate == TypeInv /\ LateInv /\ HostStep => LateInv'
  BY NoFetchKeepsLate DEF HostStep, HostStart, HostJoin, HostJoined, HostStatus,
     HostFreeMain, HostFreeVm, HostExit, Goto, TypeInv, TypeOK

\* However the natives interleave, none of them begins a second instruction
\* once vm->has_fault is set.
THEOREM OneInstructionLate == Spec => []OneInstructionAfterVmFault
<1>1. Init => LateInv
  BY DEF Init, LateInv
<1>2. TypeInv /\ LateInv /\ [Next]_vars => LateInv'
  BY NatStepLate, HostStepLate DEF Next, Stopped, LateInv
<1>3. LateInv => OneInstructionAfterVmFault
  BY DEF LateInv, OneInstructionAfterVmFault
<1> QED
  BY <1>1, <1>2, <1>3, InitType, StepType, PTL DEF Spec

-----------------------------------------------------------------------------
\* Which object a native runs, and whose exit status the process returns.

-----------------------------------------------------------------------------
\* The kinds of steps.

\* t stays in its loop or ends; no thread is started, allocated or freed.
Quiet(t) ==
  /\ UNCHANGED <<threads, life, id, native, vmLive, run, hostVars, overlap>>
  /\ pc[t] \notin {"none", "dead"}
  /\ pc'[t] \notin {"none", "exit"} \cup Starting
  /\ pc'[t] = "dead" \/ Executing(t)
  /\ \A u \in Natives \ {t} : /\ pc'[u] = pc[u] /\ slot'[u] = slot[u]
                              /\ new'[u] = new[u] /\ info'[u] = info[u]

\* Only the record of undefined behaviour changes.
Frozen ==
  /\ ub' # "none"
  /\ UNCHANGED <<threads, life, id, native, vmLive, run, hostVars, overlap, pc, slot,
                 new, info, halted, status>>

\* A step of a native is one of these.
LEMMA NatStepKinds ==
  ASSUME TypeInv, NEW t \in Natives, NatStep(t)
  PROVE  /\ Running
         /\ \/ Quiet(t) \/ Frozen
            \/ \E i \in Program : ExecThreadExit(t, i) \/ ExecThreadStart(t, i)
            \/ AllocScan(t) /\ slot[t] # MaxThreads
            \/ AllocStore(t) \/ AllocFails(t) \/ StartRead(t)
            \/ StartCreate(t) /\ info[t] # NULL
<1> USE ConstantsOK DEF TypeInv, TypeOK, At, Goto, PC, Starting, Executing
<1>1. ASSUME LoopCheck(t) \/ ScanRegisters(t) \/ Gate(t) \/ FetchFails(t)
      PROVE  Running /\ Quiet(t)
  BY <1>1 DEF LoopCheck, ScanRegisters, Gate, FetchFails, LoopFrame, Quiet
<1>2. ASSUME NEW i \in Program,
             ExecFault(t, i) \/ ExecJump(t, i) \/ ExecHalt(t, i) \/ ExecRegister(t, i)
      PROVE  Quiet(t) /\ Running
  <2>1. /\ Running /\ pc[t] = "fetch" /\ pc' = [pc EXCEPT ![t] = "check"] /\ LoopFrame
        /\ UNCHANGED locals
    BY <1>2, Zenon DEF ExecFault, ExecJump, ExecHalt, ExecRegister, Fetch
  <2> QED
    BY <2>1 DEF LoopFrame, Quiet
<1>3. ASSUME NEW i \in Program, ExecThreadJoin(t, i) PROVE Quiet(t) /\ Running
  <2>1. /\ Running /\ pc[t] = "fetch"
        /\ UNCHANGED <<threads, vmLive, life, id, native, slot, new, info, run, hostVars,
                      overlap>>
    BY <1>3 DEF ExecThreadJoin, Fetch
  <2>2. pc' = [pc EXCEPT ![t] = "check"] \/ pc' = [pc EXCEPT ![t] = "join_wait"]
    BY <1>3, Zenon DEF ExecThreadJoin, Joins
  <2> QED
    BY <2>1, <2>2 DEF Quiet
<1>4. ASSUME AllocScan(t) /\ slot[t] = MaxThreads PROVE Running /\ Quiet(t)
  BY <1>4 DEF AllocScan, Done, Quiet
<1>5. ASSUME StartFails(t) PROVE Running /\ Quiet(t)
  BY <1>5 DEF StartFails, Done, Quiet
<1>6. ASSUME LoadHandle(t) \/ JoinResult(t) PROVE Running /\ Quiet(t)
  BY <1>6 DEF LoadHandle, JoinResult, Done, Quiet
<1>7. ASSUME JoinReturns(t) \/ PthreadExit(t) \/ Leave(t) PROVE Running /\ Quiet(t)
  BY <1>7 DEF JoinReturns, PthreadExit, Leave, Quiet
<1>8. ASSUME UseAfterFree(t) \/ (StartCreate(t) /\ info[t] = NULL)
      PROVE  Running /\ Frozen
  BY <1>8 DEF UseAfterFree, StartCreate, Frozen
<1>9. ASSUME NEW i \in Program, ExecThreadExit(t, i) \/ ExecThreadStart(t, i)
      PROVE  Running
  BY <1>9 DEF ExecThreadExit, ExecThreadStart, Fetch
<1>10. \/ AllocScan(t) \/ AllocStore(t) \/ AllocFails(t) \/ StartRead(t) \/ StartCreate(t)
       => Running
  BY DEF AllocScan, AllocStore, AllocFails, StartRead, StartCreate
<1> QED
  BY <1>1, <1>2, <1>3, <1>4, <1>5, <1>6, <1>7, <1>8, <1>9, <1>10, Zenon DEF NatStep

-----------------------------------------------------------------------------
\* The main thread.

AfterMain == {"free_main", "free_vm", "exit", "exited"}

\* While the main thread is allocated it holds slot 0, which no other live
\* object has as its id, so no THREAD_START ever claims it.
MainHolds ==
  /\ id[MainObj] = 0 /\ life[MainObj] # "unborn"
  /\ life[MainObj] = "live" =>
       /\ threads[0] = MainObj
       /\ \A o \in Objs : life[o] = "live" /\ id[o] = 0 => o = MainObj

\* What a native inside THREAD_START knows of its slot, its new thread and the
\* main thread, which only one native ever runs.
StartersOK ==
  \A t \in Natives :
    /\ pc[t] \in {"st_store", "st_read", "st_create"} /\ life[MainObj] = "live"
         => slot[t] # 0
    /\ pc[t] \in {"st_read", "st_create"} => id[new[t]] = slot[t] /\ life[new[t]] # "unborn"
    /\ pc[t] = "st_create" => info[t] # MainObj
    /\ run[t] = MainObj => native[MainObj] = t

\* main() waits for the native of the main thread, and goes on when it is dead.
HostWaits ==
  /\ host = "start" => life[MainObj] = "live" /\ \A t \in Natives : run[t] = NULL
  /\ host # "start" => native[MainObj] \in Natives
  /\ host = "join_wait" => hostTgt = native[MainObj]
  /\ (host = "status" /\ ub = "none") \/ host \in AfterMain => pc[native[MainObj]] = "dead"

MainInv ==
  /\ MainHolds /\ StartersOK /\ HostWaits
  /\ \A t \in Natives : pc[t] = "none" <=> run[t] = NULL

LEMMA InitMain == Init => MainInv
  BY ConstantsOK DEF Init, MainInv, MainHolds, StartersOK, HostWaits, AfterMain, Slots

\* The main thread's object is found in its slot only.
LEMMA OnlyInSlot0 ==
  ASSUME TypeInv, SlotsNeverDangle, MainInv, NEW s \in Slots, s # 0 \/ life[MainObj] # "live"
  PROVE  threads[s] # MainObj
  BY ConstantsOK DEF SlotsNeverDangle, MainInv, MainHolds

LEMMA QuietMain ==
  ASSUME TypeInv, MainInv, Running, NEW t \in Natives, Quiet(t) \/ Frozen
  PROVE  MainInv'
<1>1. \A u \in Natives : pc'[u] = "none" <=> pc[u] = "none"
  BY DEF Quiet, Frozen
<1>2. \A u \in Natives : pc[u] = "dead" => pc'[u] = "dead"
  BY DEF Quiet, Frozen
<1>3. MainHolds'
  BY DEF MainInv, MainHolds, Quiet, Frozen
<1>4. StartersOK'
  BY DEF MainInv, StartersOK, Quiet, Frozen, Starting
<1>5. HostWaits'
  BY <1>2 DEF MainInv, HostWaits, Quiet, Frozen, Running, AfterMain
<1> QED
  BY <1>1, <1>3, <1>4, <1>5 DEF MainInv, Quiet, Frozen

LEMMA NatStepMain ==
  ASSUME TypeInv, SlotsNeverDangle, MainInv, NEW t \in Natives, NatStep(t)
  PROVE  MainInv'
<1> USE ConstantsOK DEF TypeInv, TypeOK, LocalsOK, At, Goto, Starting, AfterMain, Running,
        MainInv, MainHolds, StartersOK, HostWaits
<1>1. ASSUME NEW i \in Program, ExecThreadExit(t, i) PROVE MainInv'
  <2>1. /\ pc[t] = "fetch" /\ run[t] \in Objs /\ life[run[t]] = "live" /\ Running
        /\ threads' = [threads EXCEPT ![id[run[t]]] = NULL]
        /\ life' = [life EXCEPT ![run[t]] = "freed"]
        /\ pc' = [pc EXCEPT ![t] = "exit"]
        /\ UNCHANGED <<id, native, locals, natVars, hostVars, ub>>
    BY <1>1 DEF ExecThreadExit, Fetch, Valid
  <2>2. life[MainObj] = "live" /\ run[t] # MainObj => id[run[t]] # 0
    BY <2>1
  <2>3. MainHolds'
    BY <2>1, <2>2 DEF Slots
  <2>4. StartersOK' /\ HostWaits'
    BY <2>1
  <2> QED
    BY <2>1, <2>3, <2>4
<1>2. ASSUME NEW i \in Program, ExecThreadStart(t, i) PROVE MainInv'
  BY <1>2 DEF ExecThreadStart, Fetch, Valid
<1>3. CASE AllocScan(t) /\ slot[t] # MaxThreads
  BY <1>3 DEF AllocScan, Valid, Slots
<1>4. CASE AllocStore(t)
  <2> PICK o \in Objs : /\ ThreadAlloc(o, slot[t], ins[t].val)
                        /\ threads' = [threads EXCEPT ![slot[t]] = o]
                        /\ new' = [new EXCEPT ![t] = o]
    BY <1>4 DEF AllocStore
  <2> QED
    BY <1>4 DEF AllocStore, ThreadAlloc
<1>5. CASE AllocFails(t)
  BY <1>5 DEF AllocFails, Done
<1>6. CASE StartRead(t)
  <2>1. info'[t] # MainObj
    BY <1>6, OnlyInSlot0 DEF StartRead, Valid
  <2> QED
    BY <1>6, <2>1 DEF StartRead
<1>7. CASE StartCreate(t) /\ info[t] # NULL
  <2>1. PICK n \in Natives : /\ Spawn(n, info[t], threads[slot[t]])
                             /\ pc' = [pc EXCEPT ![t] = "st_load", ![n] = "check"]
    BY <1>7 DEF StartCreate
  <2>2. /\ pc[t] = "st_create" /\ pc[n] = "none" /\ n # t /\ Running
        /\ run' = [run EXCEPT ![n] = info[t]]
        /\ native' = [native EXCEPT ![threads[slot[t]]] = n]
        /\ UNCHANGED <<threads, life, id, locals, hostVars, ub>>
    BY <1>7, <2>1 DEF StartCreate, Spawn
  <2>3. pc' = [x \in Natives |-> IF x = n THEN "check" ELSE IF x = t THEN "st_load" ELSE pc[x]]
    BY <2>1, <2>2
  <2>4. native'[MainObj] = native[MainObj]
    BY <1>7, <2>2, OnlyInSlot0 DEF StartCreate
  <2>5. run'[n] # MainObj /\ run'[n] # NULL
    BY <1>7, <2>2
  <2>6. StartersOK'
    BY <2>2, <2>3, <2>4, <2>5
  <2>7. HostWaits'
    BY <2>2, <2>3, <2>4
  <2> QED
    BY <2>2, <2>3, <2>5, <2>6, <2>7
<1> QED
  BY SMTT(60), <1>1, <1>2, <1>3, <1>4, <1>5, <1>6, <1>7, NatStepKinds, QuietMain

LEMMA HostStepMain ==
  ASSUME TypeInv, SlotsNeverDangle, MainInv, HostStep
  PROVE  MainInv'
<1> USE ConstantsOK DEF TypeInv, TypeOK, LocalsOK, Goto, Starting, AfterMain, Running,
        MainInv, MainHolds, StartersOK, HostWaits
<1>1. CASE HostStart
  BY <1>1 DEF HostStart, Spawn
<1>2. CASE HostJoin
  <2>1. life[MainObj] = "live" => threads[id[MainObj]] = MainObj
    OBVIOUS
  <2>2. CASE life[MainObj] = "live" /\ JoinVerdict(MainObj, NULL) = "wait"
    BY <1>2, <2>1, <2>2 DEF HostJoin
  <2>3. CASE ~ (life[MainObj] = "live" /\ JoinVerdict(MainObj, NULL) = "wait")
    <3>1. ub' # "none" /\ host' = "status"
      BY <1>2, <2>1, <2>3 DEF HostJoin, JoinVerdict
    <3> QED
      BY <1>2, <3>1 DEF HostJoin
  <2> QED
    BY <2>2, <2>3
<1>3. CASE HostJoined
  BY <1>3 DEF HostJoined
<1>4. CASE HostStatus
  BY <1>4 DEF HostStatus
<1>5. CASE HostFreeMain
  BY <1>5 DEF HostFreeMain
<1>6. CASE HostFreeVm
  BY <1>6 DEF HostFreeVm, Slots
<1>7. CASE HostExit
  BY <1>7 DEF HostExit
<1> QED
  BY <1>1, <1>2, <1>3, <1>4, <1>5, <1>6, <1>7 DEF HostStep

LEMMA StepMain == TypeInv /\ SlotsNeverDangle /\ MainInv /\ [Next]_vars => MainInv'
<1>1. ASSUME MainInv, UNCHANGED vars PROVE MainInv'
  BY <1>1 DEF MainInv, MainHolds, StartersOK, HostWaits
<1> QED
  BY <1>1, NatStepMain, HostStepMain DEF Next, Stopped

LEMMA MainAlways == Spec => [](TypeInv /\ SlotsNeverDangle /\ MainInv)
  BY InitType, StepType, TableNeverDangles, InitMain, StepMain, PTL DEF Spec

-----------------------------------------------------------------------------
\* The exit status of the process.

\* A halted object has a status; the main thread's is in the exit code from
\* the moment main() has read it, for its native is dead by then.
StatusInv ==
  /\ \A o \in Objs : halted[o] => status[o] # NULL
  /\ host \in AfterMain /\ status[MainObj] # NULL => exitCode = status[MainObj] % 256

\* Three steps touch halted, status, or the exit code.
LEMMA StatusWriters ==
  ASSUME Next
  PROVE  \/ UNCHANGED <<halted, status, exitCode>>
            /\ (host' \in AfterMain => host \in AfterMain)
         \/ \E t \in Natives : LoopCheck(t)
         \/ \E t \in Natives, i \in Program : ExecHalt(t, i)
         \/ HostStatus
<1>1. ASSUME NEW t \in Natives, NatStep(t)
      PROVE  \/ UNCHANGED <<halted, status, exitCode, host>>
             \/ LoopCheck(t) \/ \E i \in Program : ExecHalt(t, i)
  BY <1>1, ZenonT(60) DEF NatStep, LoopFrame, ScanRegisters, Gate, FetchFails,
     ExecFault, ExecJump, ExecRegister, ExecThreadExit, ExecThreadStart, ExecThreadJoin, AllocScan,
     AllocStore, AllocFails, ThreadAlloc, StartRead, StartCreate, StartFails, LoadHandle,
     JoinReturns, JoinResult, PthreadExit, Leave, UseAfterFree
<1>2. ASSUME HostStep
      PROVE  \/ UNCHANGED <<halted, status, exitCode>>
                /\ (host' \in AfterMain => host \in AfterMain)
             \/ HostStatus
  BY <1>2 DEF HostStep, HostStart, HostJoin, HostJoined, HostFreeMain, HostFreeVm,
     HostExit, AfterMain
<1> QED
  BY <1>1, <1>2 DEF Next, Stopped

LEMMA StepStatus == TypeInv /\ MainInv /\ StatusInv /\ [Next]_vars => StatusInv'
<1> SUFFICES ASSUME TypeInv, MainInv, StatusInv, Next PROVE StatusInv'
  BY DEF StatusInv
<1> USE ConstantsOK DEF TypeInv, TypeOK, LocalsOK, StatusInv
<1>1. CASE UNCHANGED <<halted, status, exitCode>> /\ (host' \in AfterMain => host \in AfterMain)
  BY <1>1
<1>2. ASSUME NEW t \in Natives, NEW i \in Program, ExecHalt(t, i) PROVE StatusInv'
  <2>1. /\ pc[t] = "fetch" /\ run[t] \in Objs /\ UNCHANGED hostVars
        /\ i.op \in {"HALT", "HALT_ERR"}
    BY <1>2 DEF ExecHalt, Fetch, At, LoopFrame
  <2>2. \/ UNCHANGED <<halted, status>>
        \/ /\ halted' = [halted EXCEPT ![run[t]] = TRUE]
           /\ status' = [status EXCEPT ![run[t]] = StatusOf(i)]
    BY <1>2 DEF ExecHalt
  <2>3. StatusOf(i) # NULL
    BY <2>1, StatusType
  <2>4. host \in AfterMain => run[t] # MainObj
    BY <2>1 DEF MainInv, StartersOK, HostWaits
  <2> QED
    BY <2>1, <2>2, <2>3, <2>4
<1>3. CASE HostStatus
  <2>1. UNCHANGED <<halted, status>>
    BY <1>3 DEF HostStatus
  <2>2. CASE life[MainObj] # "live"
    BY <1>3, <2>1, <2>2 DEF HostStatus, AfterMain
  <2>3. CASE life[MainObj] = "live" /\ status[MainObj] # NULL
    <3>1. exitCode' = status[MainObj] % 256
      BY <1>3, <2>3 DEF HostStatus
    <3> QED
      BY <2>1, <3>1
  <2>4. CASE status[MainObj] = NULL
    BY <2>1, <2>4
  <2> QED
    BY <2>2, <2>3, <2>4
<1>4. ASSUME NEW t \in Natives, LoopCheck(t) PROVE StatusInv'
  <2>1. /\ pc[t] = "check" /\ UNCHANGED <<halted, hostVars>>
        /\ \/ UNCHANGED status
           \/ /\ run[t] = MainObj /\ FaultStatus # NULL
              /\ status' = [status EXCEPT ![MainObj] = FaultStatus]
    BY <1>4 DEF LoopCheck, FaultHandler, LoopFrame, At
  <2>2. host \in AfterMain => run[t] # MainObj
    BY <2>1 DEF MainInv, StartersOK, HostWaits
  <2> QED
    BY <2>1, <2>2
<1> QED
  BY <1>1, <1>2, <1>3, <1>4, StatusWriters

\* Once the main thread has executed HALT the exit code of the process is the
\* low byte of its operand: no other thread can overwrite the status main()
\* reads, nor make main() read it before the main thread has ended.
THEOREM ExitCodeIsStatus == Spec => []HaltStatusReported
<1>1. Init => StatusInv
  BY ConstantsOK DEF Init, StatusInv, AfterMain
<1>2. TypeInv /\ StatusInv => HaltStatusReported
  BY ConstantsOK DEF StatusInv, HaltStatusReported, AfterMain
<1> QED
  BY <1>1, <1>2, StepStatus, MainAlways, PTL DEF Spec

-----------------------------------------------------------------------------
\* The exit status of a main thread that ends by a fault.

\* Past the end of its turn the native of a faulty main thread has run the
\* handler; main() reads what that wrote.
HandlerInv ==
  /\ \A t \in Natives : pc[t] \in {"st_read", "st_create"} => new[t] # MainObj
  /\ \A t \in Natives : run[t] = MainObj /\ pc[t] # "check" /\ fault[MainObj]
                      => status[MainObj] = FaultStatus
  /\ host # "start" => run[native[MainObj]] = MainObj
  /\ host \in AfterMain /\ fault[MainObj] => exitCode = FaultStatus % 256

HandlerOK == FaultStatus # NULL => HandlerInv

\* Who writes the fault and the status of a thread: the native that runs it, at
\* the two ends of a turn, and a THREAD_START that fails.
LEMMA FaultWriters ==
  ASSUME TypeInv, NEW t \in Natives, NatStep(t)
  PROVE  /\ UNCHANGED <<host, exitCode>>
         /\ \/ UNCHANGED <<fault, status>>
            \/ LoopCheck(t)
            \/ /\ pc[t] = "fetch" /\ pc' = [pc EXCEPT ![t] = "check"]
               /\ UNCHANGED <<run, native, new>>
               /\ \A o \in Objs \ {run[t]} : fault'[o] = fault[o] /\ status'[o] = status[o]
            \/ /\ pc[t] = "st_create" /\ UNCHANGED <<run, native, status>>
               /\ pc' = [pc EXCEPT ![t] = "check"] /\ new' = [new EXCEPT ![t] = NULL]
               /\ \A o \in Objs \ {new[t]} : fault'[o] = fault[o]
<1> USE DEF TypeInv, TypeOK, LocalsOK, At, Goto, Starting
<1>1. ASSUME NEW i \in Program, ExecFault(t, i) \/ ExecHalt(t, i)
      PROVE  /\ pc[t] = "fetch" /\ pc' = [pc EXCEPT ![t] = "check"]
             /\ UNCHANGED <<run, native, new, host, exitCode>>
             /\ \A o \in Objs \ {run[t]} : fault'[o] = fault[o] /\ status'[o] = status[o]
  BY <1>1 DEF ExecFault, ExecHalt, Fetch, LoopFrame
<1>2. ASSUME NEW i \in Program, ExecThreadJoin(t, i)
      PROVE  /\ UNCHANGED <<host, exitCode>>
             /\ \/ UNCHANGED <<fault, status>>
                \/ /\ pc[t] = "fetch" /\ pc' = [pc EXCEPT ![t] = "check"]
                   /\ UNCHANGED <<run, native, new>>
                   /\ \A o \in Objs \ {run[t]} : fault'[o] = fault[o] /\ status'[o] = status[o]
  <2>1. /\ pc[t] = "fetch" /\ UNCHANGED <<host, exitCode, status, run, native, new>>
    BY <1>2 DEF ExecThreadJoin, Fetch
  <2>2. \/ UNCHANGED fault
        \/ /\ pc' = [pc EXCEPT ![t] = "check"]
           /\ \E b \in BOOLEAN : fault' = [fault EXCEPT ![run[t]] = b]
    BY <1>2 DEF ExecThreadJoin, Joins
  <2> QED
    BY <2>1, <2>2
<1>3. ASSUME FetchFails(t)
      PROVE  /\ pc[t] = "fetch" /\ pc' = [pc EXCEPT ![t] = "check"]
             /\ UNCHANGED <<run, native, new, host, exitCode>>
             /\ \A o \in Objs \ {run[t]} : fault'[o] = fault[o] /\ status'[o] = status[o]
  BY <1>3 DEF FetchFails, LoopFrame
<1>4. ASSUME StartFails(t)
      PROVE  /\ UNCHANGED <<host, exitCode>>
             /\ pc[t] = "st_create" /\ UNCHANGED <<run, native, status>>
             /\ pc' = [pc EXCEPT ![t] = "check"] /\ new' = [new EXCEPT ![t] = NULL]
             /\ \A o \in Objs \ {new[t]} : fault'[o] = fault[o]
  BY <1>4 DEF StartFails, Done
<1>5. ASSUME NEW i \in Program,
             \/ ExecJump(t, i) \/ ExecRegister(t, i) \/ ExecThreadExit(t, i)
             \/ ExecThreadStart(t, i)
      PROVE  UNCHANGED <<fault, status, host, exitCode>>
  BY <1>5, Zenon DEF ExecJump, ExecRegister, ExecThreadExit, ExecThreadStart, LoopFrame
<1>6. ASSUME \/ ScanRegisters(t) \/ Gate(t) \/ AllocScan(t) \/ AllocStore(t) \/ AllocFails(t)
             \/ StartRead(t) \/ StartCreate(t) \/ LoadHandle(t) \/ JoinReturns(t)
             \/ JoinResult(t) \/ PthreadExit(t) \/ Leave(t) \/ UseAfterFree(t)
      PROVE  UNCHANGED <<fault, status, host, exitCode>>
  BY <1>6, Zenon DEF ScanRegisters, Gate, AllocScan, AllocStore, AllocFails, ThreadAlloc,
     StartRead, StartCreate, LoadHandle, JoinReturns, JoinResult, PthreadExit, Leave,
     UseAfterFree, LoopFrame
<1>7. LoopCheck(t) => UNCHANGED <<host, exitCode>>
  BY DEF LoopCheck, LoopFrame
<1> QED
  BY <1>1, <1>2, <1>3, <1>4, <1>5, <1>6, <1>7, Zenon DEF NatStep

\* A turn ends in LoopCheck only.
LEMMA CheckedNext ==
  ASSUME NEW t \in Natives, NatStep(t), pc[t] = "check"
  PROVE  LoopCheck(t) \/ UNCHANGED <<pc, run, native, new, fault, status>>
<1>1. ~ \E i \in Program : Fetch(t, i)
  BY DEF Fetch, At
<1>2. ~ \E i \in Program : \/ ExecFault(t, i) \/ ExecJump(t, i) \/ ExecHalt(t, i)
                          \/ ExecRegister(t, i) \/ ExecThreadExit(t, i)
                          \/ ExecThreadStart(t, i) \/ ExecThreadJoin(t, i)
  BY <1>1, Zenon DEF ExecFault, ExecJump, ExecHalt, ExecRegister, ExecThreadExit,
     ExecThreadStart, ExecThreadJoin
<1>3. ~ \/ ScanRegisters(t) \/ Gate(t) \/ FetchFails(t) \/ AllocScan(t) \/ AllocStore(t)
        \/ AllocFails(t) \/ StartRead(t) \/ StartCreate(t) \/ StartFails(t)
        \/ LoadHandle(t) \/ JoinReturns(t) \/ JoinResult(t) \/ PthreadExit(t)
        \/ Leave(t)
  BY DEF At, ScanRegisters, Gate, FetchFails, AllocScan, AllocStore, AllocFails, StartRead,
     StartCreate, StartFails, LoadHandle, JoinReturns, JoinResult, PthreadExit, Leave
<1>4. UseAfterFree(t) => UNCHANGED <<pc, run, native, new, fault, status>>
  BY DEF UseAfterFree
<1> QED
  BY <1>2, <1>3, <1>4, Zenon DEF NatStep

\* No step makes a native run the main thread, or takes it for a new thread.
LEMMA MainRunner ==
  ASSUME TypeInv, SlotsNeverDangle, MainInv, HandlerInv, NEW t \in Natives, NatStep(t)
  PROVE  /\ \A u \in Natives : run'[u] = MainObj <=> run[u] = MainObj
         /\ \A u \in Natives \ {t} : pc'[u] = pc[u] \/ run'[u] # MainObj
         /\ native'[MainObj] = native[MainObj]
         /\ \A u \in Natives : pc'[u] \in {"st_read", "st_create"} => new'[u] # MainObj
<1> USE ConstantsOK DEF TypeInv, TypeOK, LocalsOK, At, Goto, Starting, MainInv, MainHolds,
        StartersOK, HandlerInv
<1>1. CASE Quiet(t) \/ Frozen
  BY <1>1 DEF Quiet, Frozen
<1>2. ASSUME NEW i \in Program, ExecThreadExit(t, i) \/ ExecThreadStart(t, i)
      PROVE  /\ UNCHANGED <<run, native, new>>
             /\ \E p \in {"exit", "st_scan"} : pc' = [pc EXCEPT ![t] = p]
  BY <1>2, Zenon DEF ExecThreadExit, ExecThreadStart
<1>3. CASE AllocScan(t) \/ AllocFails(t)
  BY <1>3 DEF AllocScan, AllocFails, Done
<1>4. CASE AllocStore(t)
  <2>1. PICK o \in Objs : life[o] = "unborn" /\ new' = [new EXCEPT ![t] = o]
                         /\ native' = native
    BY <1>4 DEF AllocStore, ThreadAlloc
  <2> QED
    BY <1>4, <2>1 DEF AllocStore
<1>5. CASE StartRead(t)
  BY <1>5 DEF StartRead
<1>6. CASE StartCreate(t) /\ info[t] # NULL
  <2>1. PICK n \in Natives : /\ Spawn(n, info[t], threads[slot[t]])
                             /\ pc' = [pc EXCEPT ![t] = "st_load", ![n] = "check"]
    BY <1>6 DEF StartCreate
  <2>2. threads[slot[t]] # MainObj
    BY <1>6, OnlyInSlot0 DEF StartCreate
  <2>3. UNCHANGED new
    BY <1>6 DEF StartCreate
  <2>4. info[t] # MainObj /\ run[n] = NULL
    BY <1>6, <2>1 DEF StartCreate, Spawn
  <2> QED
    BY <2>1, <2>2, <2>3, <2>4 DEF Spawn
<1>7. CASE \E i \in Program : ExecThreadExit(t, i) \/ ExecThreadStart(t, i)
  BY <1>2, <1>7
<1> QED
  BY <1>1, <1>3, <1>4, <1>5, <1>6, <1>7, NatStepKinds

LEMMA NatStepHandler ==
  ASSUME TypeInv, SlotsNeverDangle, MainInv, FaultStatus # NULL, HandlerInv,
         NEW t \in Natives, NatStep(t)
  PROVE  HandlerInv'
<1> USE ConstantsOK DEF TypeInv, TypeOK, LocalsOK, HandlerInv
<1>1. UNCHANGED <<host, exitCode>>
  BY FaultWriters, Zenon
<1>2. \A u \in Natives : run[u] = MainObj => native[MainObj] = u
  BY DEF MainInv, StartersOK
<1>3. LoopCheck(t) =>
        /\ pc[t] = "check" /\ UNCHANGED fault
        /\ run[t] # MainObj => status'[MainObj] = status[MainObj]
        /\ run[t] = MainObj /\ fault[MainObj] => status'[MainObj] = FaultStatus
  BY DEF LoopCheck, FaultHandler, At
<1>4. run[t] # MainObj => fault'[MainObj] = fault[MainObj] /\ status'[MainObj] = status[MainObj]
  BY <1>3, FaultWriters
<1>5. ASSUME NEW u \in Natives, run'[u] = MainObj, pc'[u] # "check", fault'[MainObj]
      PROVE  status'[MainObj] = FaultStatus
  <2>1. run[u] = MainObj
    BY <1>5, MainRunner
  <2>2. CASE u # t
    <3>1. pc'[u] = pc[u]
      BY <1>5, <2>2, MainRunner
    <3>2. run[t] # MainObj
      BY <1>2, <2>1, <2>2
    <3> QED
      BY <1>4, <1>5, <2>1, <3>1, <3>2
  <2>3. CASE u = t /\ pc[t] = "check"
    BY <1>3, <1>5, <2>1, <2>3, CheckedNext
  <2>4. CASE u = t /\ pc[t] # "check"
    <3>1. UNCHANGED <<fault, status>>
      BY <1>3, <1>5, <2>4, FaultWriters
    <3> QED
      BY <1>5, <2>1, <2>4, <3>1
  <2> QED
    BY <2>2, <2>3, <2>4
<1>6. host \in AfterMain => fault'[MainObj] = fault[MainObj]
  <2> SUFFICES ASSUME host \in AfterMain, run[t] = MainObj PROVE fault'[MainObj] = fault[MainObj]
    BY <1>4
  <2>1. pc[t] = "dead"
    BY <1>2 DEF MainInv, HostWaits
  <2> QED
    BY <1>3, <2>1, FaultWriters
<1>7. host # "start" => run'[native'[MainObj]] = MainObj
  BY MainRunner DEF MainInv, HostWaits
<1> QED
  BY <1>1, <1>5, <1>6, <1>7, MainRunner

LEMMA HostStepHandler ==
  ASSUME TypeInv, MainInv, FaultStatus # NULL, HandlerInv, HostStep
  PROVE  HandlerInv'
<1> USE ConstantsOK DEF TypeInv, TypeOK, LocalsOK, HandlerInv, AfterMain, Running, Goto
<1>1. CASE HostStart
  <2>1. PICK n \in Natives : /\ run' = [run EXCEPT ![n] = MainObj]
                            /\ native' = [native EXCEPT ![MainObj] = n]
                            /\ pc' = [pc EXCEPT ![n] = "check"] /\ pc[n] = "none"
    BY <1>1 DEF HostStart, Spawn
  <2>2. \A u \in Natives : run[u] = NULL
    BY <1>1 DEF HostStart, MainInv, HostWaits
  <2>3. UNCHANGED <<fault, status, new>> /\ host' = "join"
    BY <1>1 DEF HostStart
  <2> QED
    BY <2>1, <2>2, <2>3
<1>2. CASE HostJoin \/ HostJoined
  BY <1>2 DEF HostJoin, HostJoined
<1>3. CASE HostStatus
  <2>1. UNCHANGED <<pc, run, native, new, fault, status>>
    BY <1>3 DEF HostStatus
  <2>2. CASE ub' # "none" /\ host' = host
    BY <1>3, <2>1, <2>2 DEF HostStatus
  <2>3. CASE ~(ub' # "none" /\ host' = host)
    <3>1. /\ host' = "free_main" /\ host = "status" /\ ub = "none"
          /\ status[MainObj] # NULL => exitCode' = status[MainObj] % 256
      BY <1>3, <2>3 DEF HostStatus
    <3>2. run[native[MainObj]] = MainObj /\ pc[native[MainObj]] = "dead"
          /\ native[MainObj] \in Natives
      BY <3>1 DEF MainInv, HostWaits
    <3>3. fault[MainObj] => status[MainObj] = FaultStatus
      BY <3>2
    <3> QED
      BY <2>1, <3>1, <3>3
  <2> QED
    BY <2>2, <2>3
<1>4. CASE HostFreeMain \/ HostFreeVm \/ HostExit
  BY <1>4 DEF HostFreeMain, HostFreeVm, HostExit
<1> QED
  BY <1>1, <1>2, <1>3, <1>4 DEF HostStep

\* The exit code of a process whose main thread ended by a fault is what its
\* handler wrote: the handler runs on the main thread's own native before that
\* ends, and main() reads the status after.
THEOREM FaultCodeIsStatus == Spec => []FaultStatusReported
<1>1. Init => HandlerOK
  BY ConstantsOK DEF Init, HandlerOK, HandlerInv, AfterMain
<1>2. TypeInv /\ SlotsNeverDangle /\ MainInv /\ HandlerOK /\ [Next]_vars => HandlerOK'
  <2> SUFFICES ASSUME TypeInv, SlotsNeverDangle, MainInv, FaultStatus # NULL, HandlerInv,
                      [Next]_vars
               PROVE  HandlerInv'
    BY DEF HandlerOK
  <2>1. CASE UNCHANGED vars
    BY <2>1 DEF HandlerInv
  <2> QED
    BY <2>1, NatStepHandler, HostStepHandler DEF Next, Stopped
<1>3. HandlerOK => FaultStatusReported
  BY DEF HandlerOK, HandlerInv, FaultStatusReported, AfterMain
<1> QED
  BY <1>1, <1>2, <1>3, MainAlways, PTL DEF Spec

-----------------------------------------------------------------------------
\* Who runs which object, while THREAD_STARTs do not overlap.

MachineUp == vmLive /\ ub = "none"

OneStarter == \A t, u \in Natives : Claiming(t) /\ Claiming(u) => t = u

OneRunner == \A t, u \in Natives : Executing(t) /\ Executing(u) /\ run[t] = run[u] => t = u

\* The one starter has its slot to itself, from the moment it saw it free, and
\* nobody runs its new thread before it does.
StarterOwnsSlot ==
  \A t \in Natives :
    /\ pc[t] = "st_store" => threads[slot[t]] = NULL
    /\ pc[t] \in {"st_read", "st_create"} =>
         /\ threads[slot[t]] = new[t]
         /\ \A u \in Natives : Executing(u) => run[u] # new[t]
    /\ pc[t] = "st_create" => info[t] = new[t]

AllRegistered == \A t \in Natives : Executing(t) => threads[id[run[t]]] = run[t]

OwnInv ==
  /\ vmLive <=> host \notin {"exit", "exited"}
  /\ ~overlap =>
       /\ OneStarter /\ OneRunner
       /\ MachineUp => StarterOwnsSlot /\ AllRegistered

LEMMA InitOwn == Init => OwnInv
  BY DEF Init, OwnInv, OneStarter, OneRunner, StarterOwnsSlot, AllRegistered, Claiming,
     Executing, Starting

\* A registered object is allocated.
LEMMA RunsLiveObject ==
  ASSUME TypeInv, SlotsNeverDangle, AllRegistered, NEW t \in Natives, Executing(t)
  PROVE  life[run[t]] = "live" /\ run[t] \in Objs
  BY ConstantsOK DEF TypeInv, TypeOK, LocalsOK, SlotsNeverDangle, AllRegistered, Executing

LEMMA QuietOwn ==
  ASSUME TypeInv, OwnInv, Running, NEW t \in Natives, Quiet(t) \/ Frozen
  PROVE  OwnInv'
<1>1. CASE Frozen
  BY <1>1 DEF Frozen, OwnInv, OneStarter, OneRunner, MachineUp, Claiming, Executing
<1>2. CASE Quiet(t)
  <2>1. \A u \in Natives : (Executing(u)' => Executing(u)) /\ (Claiming(u)' => Claiming(u))
    BY <1>2 DEF Quiet, Executing, Claiming, Starting
  <2>2. \A u \in Natives : pc'[u] \in {"st_store", "st_read", "st_create"} =>
          pc'[u] = pc[u] /\ slot'[u] = slot[u] /\ new'[u] = new[u] /\ info'[u] = info[u]
    BY <1>2 DEF Quiet, Starting
  <2>3. UNCHANGED <<threads, id, run, vmLive, host, overlap>> /\ ub = "none"
    BY <1>2 DEF Quiet, Running
  <2>4. ASSUME ~overlap, MachineUp PROVE StarterOwnsSlot' /\ AllRegistered'
    BY <2>1, <2>2, <2>3, <2>4 DEF OwnInv, StarterOwnsSlot, AllRegistered
  <2>5. ASSUME ~overlap PROVE OneStarter' /\ OneRunner'
    BY <2>1, <2>3, <2>5 DEF OwnInv, OneStarter, OneRunner
  <2> QED
    BY <2>3, <2>4, <2>5 DEF OwnInv, MachineUp
<1> QED
  BY <1>1, <1>2

\* The step of a native is taken while the machine is up, so that a step that
\* keeps overlap FALSE need only keep the four parts.
LEMMA NatStepOwn ==
  ASSUME TypeInv, SlotsNeverDangle, MainInv, OwnInv, NEW t \in Natives, NatStep(t)
  PROVE  OwnInv'
<1> USE ConstantsOK DEF TypeInv, TypeOK, LocalsOK, At, Goto, Valid, Starting, Claiming,
        Executing, Running, MachineUp
<1>1. ASSUME NEW i \in Program, ExecThreadExit(t, i) PROVE OwnInv'
  <2>1. /\ pc[t] = "fetch" /\ run[t] \in Objs /\ MachineUp
        /\ threads' = [threads EXCEPT ![id[run[t]]] = NULL]
        /\ pc' = [pc EXCEPT ![t] = "exit"]
        /\ UNCHANGED <<id, vmLive, run, locals, hostVars, overlap>>
    BY <1>1 DEF ExecThreadExit, Fetch
  <2> SUFFICES ASSUME ~overlap, OneStarter, OneRunner, StarterOwnsSlot, AllRegistered
               PROVE  OneStarter' /\ OneRunner' /\ StarterOwnsSlot' /\ AllRegistered'
    BY <2>1 DEF OwnInv
  <2>2. OneStarter' /\ OneRunner'
    BY <2>1 DEF OneStarter, OneRunner
  <2>3. ASSUME NEW u \in Natives, Executing(u)' PROVE threads'[id'[run'[u]]] = run'[u]
    <3>1. u # t /\ Executing(u) /\ Executing(t)
      BY <2>1, <2>3
    <3>2. run[u] # run[t] /\ threads[id[run[u]]] = run[u] /\ threads[id[run[t]]] = run[t]
      BY <3>1 DEF OneRunner, AllRegistered
    <3> QED
      BY <2>1, <3>2
  <2>4. StarterOwnsSlot'
    BY <2>1 DEF StarterOwnsSlot, AllRegistered
  <2> QED
    BY <2>2, <2>3, <2>4 DEF AllRegistered
<1>2. ASSUME NEW i \in Program, ExecThreadStart(t, i) PROVE OwnInv'
  <2>1. /\ pc[t] = "fetch" /\ MachineUp
        /\ pc' = [pc EXCEPT ![t] = "st_scan"] /\ slot' = [slot EXCEPT ![t] = 0]
        /\ overlap' = (overlap \/ \E u \in Natives \ {t} : Claiming(u))
        /\ UNCHANGED <<threads, id, vmLive, run, new, info, host>>
    BY <1>2, Zenon DEF ExecThreadStart, Fetch
  <2> SUFFICES ASSUME ~overlap', OneStarter, OneRunner, StarterOwnsSlot, AllRegistered
               PROVE  OneStarter' /\ OneRunner' /\ StarterOwnsSlot' /\ AllRegistered'
    BY <2>1 DEF OwnInv
  <2>2. \A u \in Natives \ {t} : ~Claiming(u)
    BY <2>1
  <2>3. OneStarter' /\ OneRunner'
    BY <2>1, <2>2 DEF OneStarter, OneRunner
  <2>4. StarterOwnsSlot' /\ AllRegistered'
    BY <2>1, <2>2 DEF StarterOwnsSlot, AllRegistered
  <2> QED
    BY <2>3, <2>4
<1>3. CASE AllocScan(t) /\ slot[t] # MaxThreads
  <2>1. /\ pc[t] = "st_scan" /\ MachineUp
        /\ \/ slot' = [slot EXCEPT ![t] = @ + 1] /\ pc' = pc
           \/ threads[slot[t]] = NULL /\ pc' = [pc EXCEPT ![t] = "st_store"] /\ slot' = slot
        /\ UNCHANGED <<threads, id, vmLive, run, new, info, host, overlap>>
    BY <1>3 DEF AllocScan
  <2> SUFFICES ASSUME ~overlap, OneStarter, OneRunner, StarterOwnsSlot, AllRegistered
               PROVE  OneStarter' /\ OneRunner' /\ StarterOwnsSlot' /\ AllRegistered'
    BY <2>1 DEF OwnInv
  <2>2. \A u \in Natives : (Executing(u)' => Executing(u)) /\ (Claiming(u)' => Claiming(u))
    BY <2>1
  <2>3. OneStarter' /\ OneRunner' /\ AllRegistered'
    <3> HIDE DEF Executing, Claiming
    <3> QED
      BY <2>1, <2>2 DEF OneStarter, OneRunner, AllRegistered
  <2>4. StarterOwnsSlot'
    BY <2>1 DEF StarterOwnsSlot
  <2> QED
    BY <2>3, <2>4
<1>4. CASE AllocStore(t)
  <2>1. PICK o \in Objs : /\ ThreadAlloc(o, slot[t], ins[t].val)
                          /\ threads' = [threads EXCEPT ![slot[t]] = o]
                          /\ new' = [new EXCEPT ![t] = o]
    BY <1>4 DEF AllocStore
  <2>2. /\ pc[t] = "st_store" /\ MachineUp /\ slot[t] \in Slots
        /\ pc' = [pc EXCEPT ![t] = "st_read"]
        /\ life[o] = "unborn" /\ id' = [id EXCEPT ![o] = slot[t]]
        /\ UNCHANGED <<vmLive, run, slot, info, host, overlap>>
    BY <1>4, <2>1 DEF AllocStore, ThreadAlloc
  <2> SUFFICES ASSUME ~overlap, OneStarter, OneRunner, StarterOwnsSlot, AllRegistered
               PROVE  OneStarter' /\ OneRunner' /\ StarterOwnsSlot' /\ AllRegistered'
    BY <2>2 DEF OwnInv
  <2>3. \A u \in Natives : Executing(u) => run[u] # o /\ threads[id[run[u]]] # NULL
    BY <2>2, RunsLiveObject DEF AllRegistered
  <2>4. OneStarter' /\ OneRunner'
    BY <2>2 DEF OneStarter, OneRunner
  <2>5. AllRegistered'
    BY <2>1, <2>2, <2>3 DEF StarterOwnsSlot, AllRegistered
  <2>6. StarterOwnsSlot'
    BY <2>1, <2>2, <2>3 DEF StarterOwnsSlot, OneStarter
  <2> QED
    BY <2>4, <2>5, <2>6
<1>5. CASE AllocFails(t)
  <2>1. /\ pc[t] = "st_store" /\ MachineUp /\ slot[t] \in Slots
        /\ threads' = [threads EXCEPT ![slot[t]] = NULL]
        /\ pc' = [pc EXCEPT ![t] = "check"]
        /\ \A u \in Natives \ {t} : slot'[u] = slot[u] /\ new'[u] = new[u] /\ info'[u] = info[u]
        /\ UNCHANGED <<id, vmLive, run, host, overlap>>
    BY <1>5 DEF AllocFails, Done
  <2> SUFFICES ASSUME ~overlap, OneStarter, OneRunner, StarterOwnsSlot, AllRegistered
               PROVE  OneStarter' /\ OneRunner' /\ StarterOwnsSlot' /\ AllRegistered'
    BY <2>1 DEF OwnInv
  <2>2. threads' = threads
    BY <2>1 DEF StarterOwnsSlot
  <2> QED
    BY <2>1, <2>2 DEF OneStarter, OneRunner, StarterOwnsSlot, AllRegistered
<1>6. CASE StartRead(t)
  <2>1. /\ pc[t] = "st_read" /\ MachineUp
        /\ pc' = [pc EXCEPT ![t] = "st_create"]
        /\ info' = [info EXCEPT ![t] = threads[id[new[t]]]]
        /\ UNCHANGED <<threads, id, vmLive, run, slot, new, host, overlap>>
    BY <1>6 DEF StartRead
  <2>2. id[new[t]] = slot[t]
    BY <2>1 DEF MainInv, StartersOK
  <2> SUFFICES ASSUME ~overlap, OneStarter, OneRunner, StarterOwnsSlot, AllRegistered
               PROVE  OneStarter' /\ OneRunner' /\ StarterOwnsSlot' /\ AllRegistered'
    BY <2>1 DEF OwnInv
  <2>3. OneStarter' /\ OneRunner' /\ AllRegistered'
    BY <2>1 DEF OneStarter, OneRunner, AllRegistered
  <2>4. info'[t] = new[t]
    BY <2>1, <2>2 DEF StarterOwnsSlot
  <2>5. StarterOwnsSlot'
    BY <2>1, <2>4 DEF StarterOwnsSlot
  <2> QED
    BY <2>3, <2>5
<1>7. CASE StartCreate(t) /\ info[t] # NULL
  <2>1. PICK n \in Natives : /\ Spawn(n, info[t], threads[slot[t]])
                             /\ pc' = [pc EXCEPT ![t] = "st_load", ![n] = "check"]
    BY <1>7 DEF StartCreate
  <2>2. /\ pc[t] = "st_create" /\ pc[n] = "none" /\ n # t /\ MachineUp
        /\ run' = [run EXCEPT ![n] = info[t]]
        /\ UNCHANGED <<threads, id, vmLive, locals, host, overlap>>
    BY <1>7, <2>1 DEF StartCreate, Spawn
  <2>3. pc' = [x \in Natives |-> IF x = n THEN "check" ELSE IF x = t THEN "st_load" ELSE pc[x]]
    BY <2>1, <2>2
  <2> SUFFICES ASSUME ~overlap, OneStarter, OneRunner, StarterOwnsSlot, AllRegistered
               PROVE  OneStarter' /\ OneRunner' /\ StarterOwnsSlot' /\ AllRegistered'
    BY <2>2 DEF OwnInv
  <2>4. /\ info[t] = new[t] /\ id[new[t]] = slot[t] /\ threads[slot[t]] = new[t]
        /\ \A u \in Natives : Executing(u) => run[u] # new[t]
    BY <2>2 DEF StarterOwnsSlot, MainInv, StartersOK
  <2>5. OneStarter' /\ OneRunner'
    BY <2>2, <2>3, <2>4 DEF OneStarter, OneRunner
  <2>6. AllRegistered'
    BY <2>2, <2>3, <2>4 DEF AllRegistered
  <2>7. StarterOwnsSlot'
    BY <2>2, <2>3, <2>4 DEF StarterOwnsSlot, OneStarter
  <2> QED
    BY <2>5, <2>6, <2>7
<1> QED
  BY <1>1, <1>2, <1>3, <1>4, <1>5, <1>6, <1>7, NatStepKinds, QuietOwn

LEMMA HostStepOwn ==
  ASSUME TypeInv, SlotsNeverDangle, MainInv, OwnInv, HostStep
  PROVE  OwnInv'
<1> USE ConstantsOK DEF TypeInv, TypeOK, LocalsOK, Goto, Running, MachineUp
<1>1. CASE HostStart
  <2>1. PICK n \in Natives : Spawn(n, MainObj, MainObj) /\ Goto(n, "check")
    BY <1>1 DEF HostStart
  <2>2. /\ pc' = [pc EXCEPT ![n] = "check"] /\ run' = [run EXCEPT ![n] = MainObj]
        /\ host = "start" /\ host' = "join"
        /\ UNCHANGED <<threads, id, vmLive, locals, overlap>>
    BY <1>1, <2>1 DEF HostStart, Spawn
  <2>3. threads[id[MainObj]] = MainObj /\ \A u \in Natives : pc[u] = "none"
    BY <2>2 DEF MainInv, MainHolds, HostWaits
  <2>4. \A u \in Natives : Executing(u)' => u = n
    BY <2>2, <2>3 DEF Executing
  <2>5. \A u \in Natives : pc'[u] \in {"none", "check"}
    BY <2>2, <2>3
  <2>6. StarterOwnsSlot' /\ OneStarter'
    BY <2>5 DEF StarterOwnsSlot, OneStarter, Claiming, Starting
  <2>7. OneRunner' /\ AllRegistered'
    BY <2>2, <2>3, <2>4 DEF OneRunner, AllRegistered
  <2> QED
    BY <2>2, <2>6, <2>7 DEF OwnInv
<1>2. CASE HostFreeMain
  <2>1. /\ host = "free_main" /\ host' = "free_vm"
        /\ threads' = [threads EXCEPT ![id[MainObj]] = NULL]
        /\ ub' = IF life[MainObj] = "live" THEN ub ELSE "double_free"
        /\ UNCHANGED <<id, vmLive, pc, run, locals, overlap>>
    BY <1>2 DEF HostFreeMain
  <2>2. /\ id[MainObj] = 0
        /\ \A t \in Natives : Executing(t) => run[t] # MainObj
        /\ life[MainObj] = "live" =>
             \A t \in Natives : pc[t] \in {"st_store", "st_read", "st_create"} => slot[t] # 0
    BY <2>1 DEF MainInv, MainHolds, StartersOK, HostWaits, AfterMain, Executing
  <2>3. OneStarter => OneStarter'
    BY <2>1 DEF OneStarter, Claiming
  <2>4. OneRunner => OneRunner'
    BY <2>1 DEF OneRunner, Executing
  <2>5. ASSUME MachineUp', StarterOwnsSlot, AllRegistered
        PROVE  StarterOwnsSlot' /\ AllRegistered'
    <3>1. life[MainObj] = "live" /\ threads[0] = MainObj
      BY <2>1, <2>5 DEF MainInv, MainHolds
    <3>2. ASSUME NEW t \in Natives, Executing(t) PROVE threads'[id[run[t]]] = run[t]
      BY <2>1, <2>2, <2>5, <3>1, <3>2 DEF AllRegistered
    <3>3. StarterOwnsSlot'
      BY <2>1, <2>2, <2>5 DEF StarterOwnsSlot, Executing
    <3> QED
      BY <2>1, <3>2, <3>3 DEF AllRegistered, Executing
  <2> QED
    BY <1>2, <2>1, <2>3, <2>4, <2>5 DEF OwnInv, HostFreeMain
<1>3. ASSUME HostJoin \/ HostJoined \/ HostStatus \/ HostFreeVm \/ HostExit PROVE OwnInv'
  <2>1. UNCHANGED <<pc, run, locals, id, overlap>> /\ ub = "none"
    BY <1>3 DEF HostJoin, HostJoined, HostStatus, HostFreeVm, HostExit
  <2>2. vmLive' => vmLive /\ threads' = threads
    BY <1>3 DEF HostJoin, HostJoined, HostStatus, HostFreeVm, HostExit
  <2>3. vmLive' <=> host' \notin {"exit", "exited"}
    BY <1>3 DEF OwnInv, HostJoin, HostJoined, HostStatus, HostFreeVm, HostExit
  <2> QED
    BY <2>1, <2>2, <2>3 DEF OwnInv, OneStarter, OneRunner, StarterOwnsSlot, AllRegistered,
       Claiming, Executing
<1> QED
  BY <1>1, <1>2, <1>3 DEF HostStep

LEMMA StepOwn == TypeInv /\ SlotsNeverDangle /\ MainInv /\ OwnInv /\ [Next]_vars => OwnInv'
<1>1. ASSUME OwnInv, UNCHANGED vars PROVE OwnInv'
  BY <1>1 DEF OwnInv, OneStarter, OneRunner, StarterOwnsSlot, AllRegistered, MachineUp,
     Claiming, Executing
<1> QED
  BY <1>1, NatStepOwn, HostStepOwn DEF Next, Stopped

LEMMA OwnAlways == Spec => []OwnInv
  BY InitOwn, StepOwn, MainAlways, PTL DEF Spec

\* No thread object is ever run by two natives at once, as long as no two
\* THREAD_STARTs were under way at once.
THEOREM OneNative == Spec => []OneNativePerObject
<1>1. OwnInv => OneNativePerObject
  BY DEF OwnInv, OneRunner, OneNativePerObject
<1> QED
  BY <1>1, OwnAlways, PTL

\* As long as starts did not overlap, a running thread can be found in the
\* table under its id, until main() frees the machine.
THEOREM Registered == Spec => []RunningThreadsRegistered
<1>1. OwnInv => RunningThreadsRegistered
  BY DEF OwnInv, MachineUp, AllRegistered, RunningThreadsRegistered
<1> QED
  BY <1>1, OwnAlways, PTL
=============================================================================
