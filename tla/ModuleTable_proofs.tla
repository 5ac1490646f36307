------------------------- MODULE ModuleTable_proofs --------------------------
(***************************************************************************)
(* What is proved of ModuleTable for every number of slots, objects and    *)
(* threads and for all libraries: the map, the slots, the objects and the  *)
(* counts of the modules of a machine agree, and no opcode reads a freed   *)
(* module.                                                                 *)
(***************************************************************************)
EXTENDS ModuleTable, SharedLemmas

USE DEF objects, ghosts, vars

-----------------------------------------------------------------------------
\* The types.

\* The places of a thread that has a module in its hands, or a name to load.
HoldsMod ==
  {"hit", "hitWrite", "contains", "insert", "store", "resolved", "count", "countWrite",
   "clear", "remove", "free", "call"}

LocalsOK ==
  \A t \in Threads :
    /\ op[t].pc \in HoldsMod <=> op[t].mod # NULL
    /\ op[t].pc \in Loading => op[t].name \in Names

TypeInv == TypeOK /\ LocalsOK /\ Shape(tree)

OpType == [pc : {"idle", "ended"} \cup Loading \cup Unloading \cup Calling,
           name : Names \cup {NULL}, mod : Mods \cup {NULL}, n : Nat,
           multi : BOOLEAN, all : BOOLEAN]
LocalOK(r) == (r.pc \in HoldsMod <=> r.mod # NULL) /\ (r.pc \in Loading => r.name \in Names)

\* A thread goes on with a record of its type.
LEMMA OpKept ==
  ASSUME TypeInv, NEW t \in Threads, NEW r \in OpType, LocalOK(r), Goto(t, r)
  PROVE  op' \in [Threads -> OpType] /\ LocalsOK'
<1>1. op \in [Threads -> OpType]
  BY DEF TypeInv, TypeOK, OpType
<1>2. op' \in [Threads -> OpType] /\ \A u \in Threads : op'[u] = IF u = t THEN r ELSE op[u]
  BY <1>1 DEF Goto
<1> QED
  BY <1>2 DEF TypeInv, LocalsOK, LocalOK

\* The record of a thread, field by field.
LEMMA OpIs ==
  ASSUME TypeInv, NEW t \in Threads
  PROVE  /\ op[t] \in OpType /\ LocalOK(op[t])
         /\ op[t].pc \in HoldsMod => op[t].mod \in Mods
         /\ op[t].n \in Nat
  BY DEF TypeInv, TypeOK, LocalsOK, LocalOK, OpType

LEMMA IdleType == Idle \in OpType /\ LocalOK(Idle) /\ [Idle EXCEPT !.pc = "ended"] \in OpType
                  /\ LocalOK([Idle EXCEPT !.pc = "ended"])
  BY DEF Idle, OpType, LocalOK, HoldsMod, Loading

LEMMA FinishType ==
  ASSUME TypeInv, NEW t \in Threads, NEW r \in {"ok", "error", "fault"}, Finish(t, r)
  PROVE  op' \in [Threads -> OpType] /\ LocalsOK' /\ ret' \in [Threads -> {"none", "ok", "error", "fault"}]
<1>1. ret' \in [Threads -> {"none", "ok", "error", "fault"}]
  BY DEF Finish, TypeInv, TypeOK
<1>2. op' \in [Threads -> OpType] /\ LocalsOK'
  BY OpKept, IdleType DEF Finish
<1> QED
  BY <1>1, <1>2

\* What a search returns is a module.
LEMMA FoundType ==
  ASSUME TypeInv, NEW n, Found(n)
  PROVE  Value(tree, CaseOrder, n) \in Mods
<1>1. /\ Stop(tree, CaseOrder, n) \in DOMAIN tree
      /\ tree[Stop(tree, CaseOrder, n)] # Dangling
  BY HasIs DEF TypeInv, Found
<1> QED
  BY <1>1 DEF TypeInv, TypeOK, Value

\* The ghosts and flags.
LEMMA BeginsType ==
  ASSUME TypeInv, NEW t, NEW kind, Begins(t, kind)
  PROVE  overlap' \in {"none", "loads", "unloads"}
  BY DEF Begins, TypeInv, TypeOK

LEMMA InitType == Init => TypeInv
<1> SUFFICES ASSUME Init PROVE TypeInv
  OBVIOUS
<1>1. TypeOK
  <2>1. 0 \in Ids
    BY ModuleTableOK DEF Ids
  <2> QED
    BY <2>1, IdleType DEF Init, TypeOK, OpType, Empty
<1>2. LocalsOK
  BY DEF Init, LocalsOK, Idle, HoldsMod, Loading
<1> QED
  BY <1>1, <1>2, EmptyShape DEF Init, TypeInv

\* Only the opcodes of the threads change: a step that leaves the rest.
LEMMA ThreadStepType ==
  ASSUME TypeInv, UNCHANGED <<tree, table, objects, ended, held>>,
         op' \in [Threads -> OpType], LocalsOK', ret' \in [Threads -> {"none", "ok", "error", "fault"}],
         ub' \in {"none", "use_after_free", "uninitialized", "out_of_bounds"},
         overlap' \in {"none", "loads", "unloads"}, torn' \in BOOLEAN, lost' \in BOOLEAN
  PROVE  TypeInv'
  BY DEF TypeInv, TypeOK, OpType

LEMMA UndefinedType ==
  ASSUME TypeInv, NEW what \in {"use_after_free", "uninitialized", "out_of_bounds"}, Undefined(what)
  PROVE  TypeInv'
  BY DEF Undefined, TypeInv, TypeOK, LocalsOK

\* A step that goes on with r, or ends the opcode.
Goes1(t, r) == r \in OpType /\ LocalOK(r) /\ Goto(t, r) /\ ret' = ret
Ends1(t) == \E r \in {"ok", "error", "fault"} : Finish(t, r)

LEMMA GoesType ==
  ASSUME TypeInv, NEW t \in Threads, (\E r : Goes1(t, r)) \/ Ends1(t)
  PROVE  op' \in [Threads -> OpType] /\ LocalsOK' /\ ret' \in [Threads -> {"none", "ok", "error", "fault"}]
<1>1. CASE Ends1(t)
  BY <1>1, FinishType DEF Ends1
<1>2. ASSUME NEW r, Goes1(t, r)
      PROVE  op' \in [Threads -> OpType] /\ LocalsOK' /\ ret' \in [Threads -> {"none", "ok", "error", "fault"}]
  <2>1. ret' \in [Threads -> {"none", "ok", "error", "fault"}]
    BY <1>2 DEF Goes1, TypeInv, TypeOK
  <2> QED
    BY <1>2, <2>1, OpKept DEF Goes1
<1> QED
  BY <1>1, <1>2

LEMMA RetryGoes ==
  ASSUME TypeInv, NEW t \in Threads, Retry(t), op[t].pc \in Loading
  PROVE  (\E r : Goes1(t, r)) \/ Ends1(t)
<1>1. CASE op[t].multi
  <2> DEFINE r == [op[t] EXCEPT !.pc = "find", !.multi = FALSE, !.mod = NULL]
  <2>1. r \in OpType /\ LocalOK(r)
    BY <1>1, OpIs DEF OpType, LocalOK, HoldsMod, Loading
  <2>2. Goes1(t, r)
    BY <1>1, <2>1 DEF Retry, Goes1
  <2> QED
    BY <2>2
<1>2. CASE ~op[t].multi
  BY <1>2 DEF Retry, Ends1
<1> QED
  BY <1>1, <1>2

LEMMA AfterGoes ==
  ASSUME TypeInv, NEW t \in Threads, After(t), op[t].pc \in HoldsMod
  PROVE  (\E r : Goes1(t, r)) \/ Ends1(t)
<1>1. CASE op[t].all
  <2> DEFINE r == [op[t] EXCEPT !.pc = "next", !.n = id[op[t].mod] + 1, !.mod = NULL]
  <2>1. id[op[t].mod] + 1 \in Nat
    BY OpIs DEF TypeInv, TypeOK, Ids
  <2>2. r \in OpType /\ LocalOK(r)
    BY <1>1, <2>1, OpIs DEF OpType, LocalOK, HoldsMod, Loading, Unloading
  <2>3. Goes1(t, r)
    BY <1>1, <2>2 DEF After, Goes1
  <2> QED
    BY <2>3
<1>2. CASE ~op[t].all
  BY <1>2 DEF After, Ends1
<1> QED
  BY <1>1, <1>2


\* The kinds of steps of a thread.
Moves(t) == (\E r : Goes1(t, r)) \/ Ends1(t)
Flags ==
  /\ ub' \in {"none", "use_after_free", "uninitialized", "out_of_bounds"}
  /\ overlap' \in {"none", "loads", "unloads"} /\ torn' \in BOOLEAN /\ lost' \in BOOLEAN

LEMMA MovesType ==
  ASSUME TypeInv, NEW t \in Threads, Moves(t), Flags, ended' = ended,
         Shape(tree'), \A p \in DOMAIN tree' : tree'[p] \in [key : Names, val : Mods] \cup {Dangling},
         table' \in [Ids -> Mods \cup {NULL}],
         name' \in [Mods -> Names \cup {NULL}], id' \in [Mods -> Ids], refs' \in [Mods -> Nat],
         life' \in [Mods -> {"unborn", "live", "freed"}], held' \in [Names -> Nat]
  PROVE  TypeInv'
<1>1. op' \in [Threads -> OpType] /\ LocalsOK' /\ ret' \in [Threads -> {"none", "ok", "error", "fault"}]
  BY GoesType DEF Moves
<1> QED
  BY <1>1 DEF TypeInv, TypeOK, Flags, OpType

LEMMA StillTyped ==
  ASSUME TypeInv
  PROVE  /\ Shape(tree) /\ \A p \in DOMAIN tree : tree[p] \in [key : Names, val : Mods] \cup {Dangling}
         /\ table \in [Ids -> Mods \cup {NULL}]
         /\ name \in [Mods -> Names \cup {NULL}] /\ id \in [Mods -> Ids] /\ refs \in [Mods -> Nat]
         /\ life \in [Mods -> {"unborn", "live", "freed"}] /\ held \in [Names -> Nat]
         /\ ub \in {"none", "use_after_free", "uninitialized", "out_of_bounds"}
         /\ overlap \in {"none", "loads", "unloads"} /\ torn \in BOOLEAN /\ lost \in BOOLEAN
  BY DEF TypeInv, TypeOK

\* The steps that leave all but the opcode of their thread and the histories.
Private(t) ==
  \/ \E n \in Names : LoadLookup(t, n) \/ UnloadLookup(t, n) \/ OpByName(t, n)
  \/ \E i \in 0 .. Slots + 1 : UnloadId(t, i) \/ OpById(t, i)
  \/ UnloadAll(t) \/ HitRead(t) \/ LoadFails(t) \/ AllocBad(t) \/ AllocFails(t)
  \/ UnloadReadId(t) \/ ReadSlot(t) \/ CountRead(t) \/ Call(t)

LEMMA PrivateMoves ==
  ASSUME TypeInv, NEW t \in Threads, Private(t), ~ \E what \in {"use_after_free", "out_of_bounds"} : Undefined(what)
  PROVE  UNCHANGED <<tree, table, objects, ended, held, torn>> /\ Flags
         /\ (Moves(t) \/ (op' = op /\ ret' = ret))
<1> USE DEF Moves, Goes1, Flags, LocalOK
<1>0. /\ op[t] \in OpType /\ LocalOK(op[t]) /\ op[t].n \in Nat
      /\ op[t].pc \in HoldsMod => op[t].mod \in Mods
      /\ ub \in {"none", "use_after_free", "uninitialized", "out_of_bounds"}
      /\ overlap \in {"none", "loads", "unloads"} /\ torn \in BOOLEAN /\ lost \in BOOLEAN
  BY OpIs, StillTyped
<1>1. ASSUME NEW n \in Names, LoadLookup(t, n)
      PROVE  UNCHANGED <<tree, table, objects, ended, held, torn>> /\ Flags /\ Moves(t)
  <2> DEFINE r1 == [Idle EXCEPT !.pc = "hit", !.name = n, !.mod = Value(tree, CaseOrder, n)]
             r2 == [Idle EXCEPT !.pc = "find", !.name = n, !.multi = TRUE]
  <2>1. /\ Goto(t, IF Found(n) THEN r1 ELSE r2) /\ Begins(t, "load") /\ ret' = ret
        /\ UNCHANGED <<tree, table, objects, ended, ub, held, torn, lost>>
    BY <1>1 DEF LoadLookup
  <2>2. Found(n) => r1 \in OpType /\ LocalOK(r1)
    <3>1. Found(n) => Value(tree, CaseOrder, n) \in Mods /\ Value(tree, CaseOrder, n) # NULL
      BY FoundType, ModuleTableOK
    <3> QED
      BY <3>1 DEF Idle, OpType, HoldsMod, Loading
  <2>3. r2 \in OpType /\ LocalOK(r2)
    BY DEF Idle, OpType, HoldsMod, Loading
  <2> HIDE DEF r1, r2
  <2>4. Moves(t)
    BY <2>1, <2>2, <2>3
  <2> QED
    BY <1>0, <2>1, <2>4, BeginsType
<1>2. ASSUME NEW n \in Names, UnloadLookup(t, n)
      PROVE  UNCHANGED <<tree, table, objects, ended, held, torn>> /\ Flags /\ Moves(t)
  <2> DEFINE r == [Idle EXCEPT !.pc = "resolved", !.mod = Value(tree, CaseOrder, n)]
  <2>1. /\ Found(n) => Goto(t, r) /\ ret' = ret
        /\ ~Found(n) => Finish(t, "ok")
        /\ Begins(t, "unload")
        /\ UNCHANGED <<tree, table, objects, ended, ub, held, torn, lost>>
    BY <1>2 DEF UnloadLookup
  <2>2. Found(n) => r \in OpType /\ LocalOK(r)
    <3>1. Found(n) => Value(tree, CaseOrder, n) \in Mods /\ Value(tree, CaseOrder, n) # NULL
      BY FoundType, ModuleTableOK
    <3> QED
      BY <3>1 DEF Idle, OpType, HoldsMod, Loading, Unloading
  <2> HIDE DEF r
  <2>3. Moves(t)
    BY <2>1, <2>2 DEF Ends1
  <2> QED
    BY <1>0, <2>1, <2>3, BeginsType
<1>3. ASSUME NEW n \in Names, OpByName(t, n)
      PROVE  UNCHANGED <<tree, table, objects, ended, held, torn>> /\ Flags /\ Moves(t)
  <2> DEFINE r == [Idle EXCEPT !.pc = "call", !.mod = Value(tree, CaseOrder, n)]
  <2>1. /\ Found(n) => Goto(t, r) /\ ret' = ret /\ lost' = lost
        /\ ~Found(n) => Finish(t, "fault") /\ lost' \in BOOLEAN
        /\ Begins(t, "call")
        /\ UNCHANGED <<tree, table, objects, ended, ub, held, torn>>
    BY <1>3 DEF OpByName, OpUnloaded
  <2>2. Found(n) => r \in OpType /\ LocalOK(r)
    <3>1. Found(n) => Value(tree, CaseOrder, n) \in Mods /\ Value(tree, CaseOrder, n) # NULL
      BY FoundType, ModuleTableOK
    <3> QED
      BY <3>1 DEF Idle, OpType, HoldsMod, Loading, Calling
  <2> HIDE DEF r
  <2>3. Moves(t)
    BY <2>1, <2>2 DEF Ends1
  <2> QED
    BY <1>0, <2>1, <2>3, BeginsType
<1>4. ASSUME NEW i \in 0 .. Slots + 1, UnloadId(t, i)
      PROVE  UNCHANGED <<tree, table, objects, ended, held, torn>> /\ Flags /\ Moves(t)
  <2> DEFINE r == [Idle EXCEPT !.pc = "next", !.n = i]
  <2>1. /\ ((Goto(t, r) /\ ret' = ret) \/ Finish(t, "fault"))
        /\ Begins(t, "unload")
        /\ UNCHANGED <<tree, table, objects, ended, ub, held, torn, lost>>
    BY <1>4 DEF UnloadId
  <2>2. r \in OpType /\ LocalOK(r)
    <3>1. i \in Nat
      BY ModuleTableOK
    <3> QED
      BY <3>1 DEF Idle, OpType, HoldsMod, Loading, Unloading
  <2> HIDE DEF r
  <2>3. Moves(t)
    BY <2>1, <2>2 DEF Ends1
  <2> QED
    BY <1>0, <2>1, <2>3, BeginsType
<1>5. ASSUME NEW i \in 0 .. Slots + 1, OpById(t, i)
      PROVE  UNCHANGED <<tree, table, objects, ended, held, torn>> /\ Flags /\ Moves(t)
  <2> DEFINE r == [Idle EXCEPT !.pc = "call", !.mod = table[i]]
  <2>1. /\ \/ Finish(t, "fault") /\ lost' \in BOOLEAN
           \/ i < Slots /\ table[i] # NULL /\ Goto(t, r) /\ ret' = ret /\ lost' = lost
        /\ Begins(t, "call")
        /\ UNCHANGED <<tree, table, objects, ended, ub, held, torn>>
    <3>1. i # Slots
      BY <1>5 DEF OpById
    <3>2. OpUnloaded(t, NULL) => Finish(t, "fault") /\ lost' \in BOOLEAN
      BY DEF OpUnloaded
    <3>3. i \in Nat /\ Slots \in Nat
      BY ModuleTableOK
    <3>4. i < Slots \/ i > Slots
      BY <3>1, <3>3
    <3> QED
      BY <1>5, <3>1, <3>2, <3>4, Zenon DEF OpById
  <2>2. i < Slots /\ table[i] # NULL => r \in OpType /\ LocalOK(r)
    <3>1. i < Slots => i \in Ids
      BY ModuleTableOK DEF Ids
    <3> QED
      BY <3>1, StillTyped, ModuleTableOK DEF Idle, OpType, HoldsMod, Loading, Calling
  <2> HIDE DEF r
  <2>3. Moves(t)
    BY <2>1, <2>2 DEF Ends1
  <2> QED
    BY <1>0, <2>1, <2>3, BeginsType
<1>6. ASSUME UnloadAll(t)
      PROVE  UNCHANGED <<tree, table, objects, ended, held, torn>> /\ Flags /\ Moves(t)
  <2> DEFINE r == [Idle EXCEPT !.pc = "next", !.all = TRUE]
  <2>1. /\ Goto(t, r) /\ ret' = ret /\ Begins(t, "unload")
        /\ UNCHANGED <<tree, table, objects, ended, ub, held, torn, lost>>
    BY <1>6 DEF UnloadAll
  <2>2. r \in OpType /\ LocalOK(r)
    BY DEF Idle, OpType, HoldsMod, Loading, Unloading
  <2> HIDE DEF r
  <2>3. Moves(t)
    BY <2>1, <2>2
  <2> QED
    BY <1>0, <2>1, <2>3, BeginsType
<1>7. ASSUME HitRead(t)
      PROVE  UNCHANGED <<tree, table, objects, ended, held, torn>> /\ Flags /\ Moves(t)
  <2> DEFINE r == [op[t] EXCEPT !.pc = "hitWrite", !.n = refs[op[t].mod] + 1]
  <2>1. /\ Goto(t, r) /\ op[t].pc = "hit"
        /\ UNCHANGED <<tree, table, objects, ret, ended, ub, ghosts>>
    BY <1>7 DEF HitRead, At
  <2>2. r \in OpType /\ LocalOK(r)
    <3>1. refs[op[t].mod] + 1 \in Nat
      BY <1>0, <2>1, StillTyped DEF HoldsMod
    <3> QED
      BY <1>0, <2>1, <3>1 DEF OpType, HoldsMod, Loading
  <2> HIDE DEF r
  <2>3. Moves(t)
    BY <2>1, <2>2
  <2> QED
    BY <1>0, <2>1, <2>3
<1>8. ASSUME LoadFails(t)
      PROVE  UNCHANGED <<tree, table, objects, ended, held, torn>> /\ Flags /\ Moves(t)
  BY <1>0, <1>8 DEF LoadFails, Ends1
<1>9. ASSUME AllocBad(t)
      PROVE  /\ UNCHANGED <<tree, table, objects, ended, held, torn>> /\ Flags
             /\ (Moves(t) \/ (op' = op /\ ret' = ret))
  <2>1. /\ UNCHANGED <<tree, table, objects, ended, ghosts>> /\ op[t].pc \in Loading
        /\ ((ub' = "uninitialized" /\ op' = op /\ ret' = ret) \/ (Retry(t) /\ ub' = ub))
    BY <1>9 DEF AllocBad, At, Loading
  <2>2. Retry(t) => Moves(t)
    BY <2>1, RetryGoes
  <2> QED
    BY <1>0, <2>1, <2>2
<1>10. ASSUME AllocFails(t)
       PROVE  UNCHANGED <<tree, table, objects, ended, held, torn>> /\ Flags /\ Moves(t)
  <2>1. UNCHANGED <<tree, table, objects, ended, ub, ghosts>> /\ op[t].pc \in Loading /\ Retry(t)
    BY <1>10 DEF AllocFails, At, Loading
  <2>2. Moves(t)
    BY <2>1, RetryGoes
  <2> QED
    BY <1>0, <2>1, <2>2
<1>11. ASSUME UnloadReadId(t)
       PROVE  UNCHANGED <<tree, table, objects, ended, held, torn>> /\ Flags /\ Moves(t)
  <2> DEFINE r == [Idle EXCEPT !.pc = "next", !.n = id[op[t].mod]]
  <2>1. /\ Goto(t, r) /\ op[t].pc = "resolved"
        /\ UNCHANGED <<tree, table, objects, ret, ended, ub, ghosts>>
    BY <1>11 DEF UnloadReadId, At
  <2>2. r \in OpType /\ LocalOK(r)
    <3>1. id[op[t].mod] \in Nat
      BY <1>0, <2>1, StillTyped, ModuleTableOK DEF HoldsMod, Ids
    <3> QED
      BY <3>1 DEF OpType, HoldsMod, Loading, Idle, Unloading
  <2> HIDE DEF r
  <2>3. Moves(t)
    BY <2>1, <2>2
  <2> QED
    BY <1>0, <2>1, <2>3
<1>12. ASSUME ReadSlot(t)
       PROVE  UNCHANGED <<tree, table, objects, ended, held, torn>> /\ Flags /\ Moves(t)
  <2> DEFINE i  == op[t].n
             r1 == [op[t] EXCEPT !.n = i + 1]
             r2 == [op[t] EXCEPT !.pc = "count", !.mod = table[i]]
  <2>1. /\ \/ Finish(t, "ok")
           \/ i < Slots /\ ret' = ret /\ Goto(t, IF table[i] = NULL THEN r1 ELSE r2)
        /\ op[t].pc = "next"
        /\ UNCHANGED <<tree, table, objects, ended, ub, ghosts>>
    BY <1>0, <1>12, ModuleTableOK DEF ReadSlot, At
  <2>2. r1 \in OpType /\ LocalOK(r1)
    BY <1>0 DEF OpType, HoldsMod, Loading
  <2>3. i < Slots /\ table[i] # NULL => r2 \in OpType /\ LocalOK(r2)
    <3>1. i < Slots => i \in Ids
      BY <1>0, ModuleTableOK DEF Ids
    <3> QED
      BY <1>0, <3>1, StillTyped, ModuleTableOK DEF OpType, HoldsMod, Loading, Unloading
  <2> HIDE DEF r1, r2, i
  <2>4. Moves(t)
    BY <2>1, <2>2, <2>3 DEF Ends1
  <2> QED
    BY <1>0, <2>1, <2>4
<1>13. ASSUME CountRead(t)
       PROVE  UNCHANGED <<tree, table, objects, ended, held, torn>> /\ Flags /\ Moves(t)
  <2> DEFINE m == op[t].mod
             r == [op[t] EXCEPT !.pc = "countWrite", !.name = name[m], !.n = refs[m]]
  <2>1. /\ Goto(t, r) /\ op[t].pc = "count"
        /\ UNCHANGED <<tree, table, objects, ret, ended, ub, ghosts>>
    BY <1>13 DEF CountRead, At
  <2>2. r \in OpType /\ LocalOK(r)
    BY <1>0, <2>1, StillTyped DEF OpType, HoldsMod, Loading, Unloading
  <2> HIDE DEF r
  <2>3. Moves(t)
    BY <2>1, <2>2
  <2> QED
    BY <1>0, <2>1, <2>3
<1>14. ASSUME Call(t)
       PROVE  UNCHANGED <<tree, table, objects, ended, held, torn>> /\ Flags /\ Moves(t)
  BY <1>0, <1>14 DEF Call, Ends1
<1> QED
  BY <1>1, <1>2, <1>3, <1>4, <1>5, <1>6, <1>7, <1>8, <1>9, <1>10, <1>11, <1>12, <1>13, <1>14, Zenon DEF Private


LEMMA PrivateType ==
  ASSUME TypeInv, NEW t \in Threads, Private(t)
  PROVE  TypeInv'
<1>1. CASE \E what \in {"use_after_free", "out_of_bounds"} : Undefined(what)
  BY <1>1, UndefinedType
<1>2. CASE ~ \E what \in {"use_after_free", "out_of_bounds"} : Undefined(what)
  <2>1. /\ UNCHANGED <<tree, table, objects, ended, held, torn>> /\ Flags
        /\ (Moves(t) \/ (op' = op /\ ret' = ret))
    BY <1>2, PrivateMoves
  <2>2. CASE Moves(t)
    BY <2>1, <2>2, MovesType, StillTyped
  <2>3. CASE op' = op /\ ret' = ret
    BY <2>1, <2>3 DEF TypeInv, TypeOK, LocalsOK, Flags
  <2> QED
    BY <2>1, <2>2, <2>3
<1> QED
  BY <1>1, <1>2

\* The counts of loads, after one more and after one less.
LEMMA HeldIs ==
  ASSUME TypeInv, NEW n \in Names \cup {NULL}
  PROVE  /\ n \in Names => [held EXCEPT ![n] = @ + 1] \in [Names -> Nat]
         /\ [held EXCEPT ![n] = IF @ = 0 THEN 0 ELSE @ - 1] \in [Names -> Nat]
<1>1. held \in [Names -> Nat]
  BY StillTyped
<1>2. \A k \in Names : held[k] + 1 \in Nat /\ (IF held[k] = 0 THEN 0 ELSE held[k] - 1) \in Nat
  BY <1>1
<1> QED
  BY <1>1, <1>2

LEMMA HitWriteType ==
  ASSUME TypeInv, NEW t \in Threads, HitWrite(t)
  PROVE  TypeInv'
<1>1. CASE life[op[t].mod] = "freed"
  BY <1>1, UndefinedType DEF HitWrite
<1>2. CASE life[op[t].mod] # "freed"
  <2>1. /\ op[t].pc = "hitWrite" /\ refs' = [refs EXCEPT ![op[t].mod] = op[t].n]
        /\ held' = [held EXCEPT ![op[t].name] = @ + 1] /\ Finish(t, "ok")
        /\ UNCHANGED <<tree, table, name, id, life, ended, ub, overlap, torn, lost>>
    BY <1>2 DEF HitWrite, At
  <2>2. op[t].n \in Nat /\ op[t].name \in Names
    BY <2>1, OpIs DEF LocalOK, Loading
  <2>3. refs' \in [Mods -> Nat] /\ held' \in [Names -> Nat]
    BY <2>1, <2>2, HeldIs, StillTyped
  <2>4. Moves(t) /\ Flags
    BY <2>1, StillTyped DEF Moves, Ends1, Flags
  <2> QED
    BY <2>1, <2>3, <2>4, StillTyped, MovesType
<1> QED
  BY <1>1, <1>2

LEMMA AllocType ==
  ASSUME TypeInv, NEW t \in Threads, Alloc(t)
  PROVE  /\ TypeInv'
         /\ \E m \in Mods, i \in Ids :
              /\ life[m] = "unborn" /\ table[i] = NULL
              /\ name' = [name EXCEPT ![m] = op[t].name] /\ id' = [id EXCEPT ![m] = i]
              /\ refs' = [refs EXCEPT ![m] = 1] /\ life' = [life EXCEPT ![m] = "live"]
              /\ Goto(t, [op[t] EXCEPT !.pc = "contains", !.mod = m])
<1> DEFINE A == CHOOSE a \in Mods : a \in Unborn
           I == CHOOSE i \in FreeIds : \A j \in FreeIds : i <= j
<1>1. A \in Mods /\ life[A] = "unborn"
  BY DEF Alloc, Unborn
<1>2. I \in Ids /\ table[I] = NULL
  <2>1. FreeIds \subseteq Nat /\ FreeIds # {}
    BY ModuleTableOK DEF Alloc, FreeIds, Ids
  <2>2. \E i \in FreeIds : \A j \in FreeIds : i <= j
    BY <2>1, LeastElement
  <2>3. I \in FreeIds
    BY <2>2
  <2> QED
    BY <2>3 DEF FreeIds
<1> DEFINE r == [op[t] EXCEPT !.pc = "contains", !.mod = A]
<1>3. /\ op[t].pc = "find"
      /\ name' = [name EXCEPT ![A] = op[t].name] /\ id' = [id EXCEPT ![A] = I]
      /\ refs' = [refs EXCEPT ![A] = 1] /\ life' = [life EXCEPT ![A] = "live"]
      /\ Goto(t, r)
      /\ UNCHANGED <<tree, table, ret, ended, ub, ghosts>>
  BY DEF Alloc, At
<1> HIDE DEF A, I
<1>4. r \in OpType /\ LocalOK(r)
  <2>1. op[t] \in OpType /\ op[t].name \in Names
    BY <1>3, OpIs DEF LocalOK, Loading
  <2>2. A # NULL /\ A \in Mods
    BY <1>1, ModuleTableOK
  <2> QED
    BY <2>1, <2>2 DEF OpType, LocalOK, HoldsMod, Loading
<1>5. op[t].name \in Names
  BY <1>3, OpIs DEF LocalOK, Loading
<1>6. /\ name' \in [Mods -> Names \cup {NULL}] /\ id' \in [Mods -> Ids] /\ refs' \in [Mods -> Nat]
      /\ life' \in [Mods -> {"unborn", "live", "freed"}]
  BY <1>1, <1>2, <1>3, <1>5, StillTyped
<1>7. Moves(t) /\ Flags
  BY <1>3, <1>4, StillTyped DEF Moves, Goes1, Flags
<1>8. TypeInv'
  BY <1>3, <1>6, <1>7, StillTyped, MovesType
<1> QED
  BY <1>1, <1>2, <1>3, <1>8

\* An insertion that fails.
LEMMA InsertFailsGoes ==
  ASSUME TypeInv, NEW t \in Threads, InsertFails(t), op[t].pc \in Loading
  PROVE  Moves(t) /\ life' \in [Mods -> {"unborn", "live", "freed"}]
<1>1. Moves(t)
  BY RetryGoes DEF InsertFails, Moves
<1>2. life' \in [Mods -> {"unborn", "live", "freed"}]
  BY StillTyped DEF InsertFails
<1> QED
  BY <1>1, <1>2

LEMMA InsertContainsType ==
  ASSUME TypeInv, NEW t \in Threads, InsertContains(t)
  PROVE  TypeInv'
<1> DEFINE n == op[t].name
<1>1. CASE Falls(tree, CaseOrder, n)
  BY <1>1, UndefinedType DEF InsertContains
<1>2. CASE ~Falls(tree, CaseOrder, n)
  <2> DEFINE r == [op[t] EXCEPT !.pc = "insert"]
  <2>1. /\ op[t].pc = "contains"
        /\ InsertFails(t) \/ (Goto(t, r) /\ ret' = ret /\ life' = life)
        /\ UNCHANGED <<tree, table, name, id, refs, ended, ub, ghosts>>
    BY <1>2 DEF InsertContains, At
  <2>2. r \in OpType /\ LocalOK(r)
    BY <2>1, OpIs DEF OpType, LocalOK, HoldsMod, Loading
  <2> HIDE DEF r
  <2>3. Moves(t) /\ life' \in [Mods -> {"unborn", "live", "freed"}]
    <3>1. CASE InsertFails(t)
      BY <2>1, <3>1, InsertFailsGoes DEF Loading
    <3>2. CASE Goto(t, r) /\ ret' = ret /\ life' = life
      BY <2>2, <3>2, StillTyped DEF Moves, Goes1
    <3> QED
      BY <2>1, <3>1, <3>2
  <2>4. Flags
    BY <2>1, StillTyped DEF Flags
  <2> QED
    BY <2>1, <2>3, <2>4, StillTyped, MovesType
<1> QED
  BY <1>1, <1>2

LEMMA InsertNodeType ==
  ASSUME TypeInv, NEW t \in Threads, InsertNode(t)
  PROVE  TypeInv'
<1> DEFINE n == op[t].name
<1>1. CASE Falls(tree, FoldedOrder, n)
  BY <1>1, UndefinedType DEF InsertNode
<1>2. CASE ~Falls(tree, FoldedOrder, n)
  <2> DEFINE r == [op[t] EXCEPT !.pc = "store"]
  <2>1. /\ op[t].pc = "insert"
        /\ \/ InsertFails(t) /\ tree' = tree
           \/ /\ ~Has(tree, FoldedOrder, n) /\ tree' = Grow(tree, FoldedOrder, n, op[t].mod)
              /\ Goto(t, r) /\ ret' = ret /\ life' = life
        /\ UNCHANGED <<table, name, id, refs, ended, ub, ghosts>>
    BY <1>2, Zenon DEF InsertNode, At
  <2>2. r \in OpType /\ LocalOK(r) /\ n \in Names /\ op[t].mod \in Mods
    BY <2>1, OpIs DEF OpType, LocalOK, HoldsMod, Loading
  <2> HIDE DEF r
  <2>3. Moves(t) /\ life' \in [Mods -> {"unborn", "live", "freed"}]
    <3>1. CASE InsertFails(t)
      BY <2>1, <3>1, InsertFailsGoes DEF Loading
    <3>2. CASE Goto(t, r) /\ ret' = ret /\ life' = life
      BY <2>2, <3>2, StillTyped DEF Moves, Goes1
    <3> QED
      BY <2>1, <3>1, <3>2
  <2>4. Shape(tree') /\ \A p \in DOMAIN tree' : tree'[p] \in [key : Names, val : Mods] \cup {Dangling}
    <3>1. CASE tree' = tree
      BY <3>1, StillTyped
    <3>2. CASE ~Has(tree, FoldedOrder, n) /\ tree' = Grow(tree, FoldedOrder, n, op[t].mod)
      <4>1. Stop(tree, FoldedOrder, n) \notin DOMAIN tree
        BY <1>2, <3>2 DEF Has, Falls
      <4>2. Shape(tree')
        BY <3>2, <4>1, GrowShape, StillTyped
      <4>3. \A p \in DOMAIN tree' : tree'[p] \in [key : Names, val : Mods] \cup {Dangling}
        BY <2>2, <3>2, StillTyped DEF Grow
      <4> QED
        BY <4>2, <4>3
    <3> QED
      BY <2>1, <3>1, <3>2
  <2>5. Flags
    BY <2>1, StillTyped DEF Flags
  <2> QED
    BY <2>1, <2>3, <2>4, <2>5, StillTyped, MovesType
<1> QED
  BY <1>1, <1>2

LEMMA StoreType ==
  ASSUME TypeInv, NEW t \in Threads, Store(t)
  PROVE  TypeInv'
<1> DEFINE m == op[t].mod
<1>1. CASE life[m] = "freed"
  BY <1>1, UndefinedType DEF Store
<1>2. CASE life[m] # "freed"
  <2>1. /\ op[t].pc = "store" /\ table' = [table EXCEPT ![id[m]] = m]
        /\ held' = [held EXCEPT ![op[t].name] = @ + 1] /\ Finish(t, "ok")
        /\ UNCHANGED <<tree, objects, ended, ub, overlap, torn, lost>>
    BY <1>2 DEF Store, At
  <2>2. m \in Mods /\ op[t].name \in Names
    BY <2>1, OpIs DEF HoldsMod, LocalOK, Loading
  <2>3. table' \in [Ids -> Mods \cup {NULL}] /\ held' \in [Names -> Nat]
    BY <2>1, <2>2, HeldIs, StillTyped
  <2>4. Moves(t) /\ Flags
    BY <2>1, StillTyped DEF Moves, Ends1, Flags
  <2> QED
    BY <2>1, <2>3, <2>4, StillTyped, MovesType
<1> QED
  BY <1>1, <1>2

LEMMA CountWriteType ==
  ASSUME TypeInv, NEW t \in Threads, CountWrite(t)
  PROVE  TypeInv'
<1> DEFINE m == op[t].mod
<1>1. CASE life[m] = "freed"
  BY <1>1, UndefinedType DEF CountWrite
<1>2. CASE life[m] # "freed"
  <2> DEFINE r == [op[t] EXCEPT !.pc = "clear"]
  <2>1. /\ op[t].pc = "countWrite"
        /\ refs' = [refs EXCEPT ![m] = IF op[t].n = 0 THEN 0 ELSE op[t].n - 1]
        /\ held' = [held EXCEPT ![op[t].name] = IF @ = 0 THEN 0 ELSE @ - 1]
        /\ (Goto(t, r) /\ ret' = ret) \/ After(t)
        /\ UNCHANGED <<tree, table, name, id, life, ended, ub, overlap, torn, lost>>
    BY <1>2 DEF CountWrite, At
  <2>2. r \in OpType /\ LocalOK(r) /\ op[t].n \in Nat
    BY <2>1, OpIs DEF OpType, LocalOK, HoldsMod, Loading, Unloading
  <2> HIDE DEF r
  <2>3. refs' \in [Mods -> Nat] /\ held' \in [Names -> Nat]
    <3>1. op[t].name \in Names \cup {NULL}
      BY OpIs DEF OpType
    <3>2. held' \in [Names -> Nat]
      BY <2>1, <3>1, HeldIs
    <3>3. (IF op[t].n = 0 THEN 0 ELSE op[t].n - 1) \in Nat
      BY <2>2
    <3>4. refs' \in [Mods -> Nat]
      BY <2>1, <3>3, StillTyped
    <3> QED
      BY <3>2, <3>4
  <2>4. Moves(t)
    <3>1. CASE Goto(t, r) /\ ret' = ret
      BY <2>2, <3>1 DEF Moves, Goes1
    <3>2. CASE After(t)
      BY <2>1, <3>2, AfterGoes DEF Moves, HoldsMod
    <3> QED
      BY <2>1, <3>1, <3>2
  <2>5. Flags
    BY <2>1, StillTyped DEF Flags
  <2> QED
    BY <2>1, <2>3, <2>4, <2>5, StillTyped, MovesType
<1> QED
  BY <1>1, <1>2

LEMMA ClearSlotType ==
  ASSUME TypeInv, NEW t \in Threads, ClearSlot(t)
  PROVE  TypeInv'
<1>1. CASE life[op[t].mod] = "freed"
  BY <1>1, UndefinedType DEF ClearSlot
<1>2. CASE life[op[t].mod] # "freed"
  <2> DEFINE r == [op[t] EXCEPT !.pc = "remove"]
  <2>1. /\ op[t].pc = "clear" /\ table' = [table EXCEPT ![id[op[t].mod]] = NULL]
        /\ Goto(t, r) /\ UNCHANGED <<tree, objects, ret, ended, ub, ghosts>>
    BY <1>2 DEF ClearSlot, At
  <2>2. r \in OpType /\ LocalOK(r)
    BY <2>1, OpIs DEF OpType, LocalOK, HoldsMod, Loading, Unloading
  <2> HIDE DEF r
  <2>3. table' \in [Ids -> Mods \cup {NULL}]
    BY <2>1, StillTyped
  <2>4. Moves(t) /\ Flags
    BY <2>1, <2>2, StillTyped DEF Moves, Goes1, Flags
  <2> QED
    BY <2>1, <2>3, <2>4, StillTyped, MovesType
<1> QED
  BY <1>1, <1>2

LEMMA RemoveNameType ==
  ASSUME TypeInv, NEW t \in Threads, RemoveName(t)
  PROVE  TypeInv'
<1> DEFINE n == op[t].name
           F == \/ life[op[t].mod] = "freed" \/ Falls(tree, CaseOrder, n)
                \/ Found(n) /\ WalkFalls(tree)
<1>1. CASE F
  BY <1>1, UndefinedType DEF RemoveName
<1>2. CASE ~F
  <2> DEFINE r == [op[t] EXCEPT !.pc = "free"]
  <2>1. /\ op[t].pc = "remove"
        /\ \/ /\ Found(n) /\ tree' = Cut(tree, CaseOrder, n)
              /\ torn' = (torn \/ Below(tree, Stop(tree, CaseOrder, n)) # {})
           \/ tree' = tree /\ torn' = torn
        /\ Goto(t, r) /\ UNCHANGED <<table, objects, ret, ended, ub, held, overlap, lost>>
    BY <1>2, Zenon DEF RemoveName, At
  <2>2. r \in OpType /\ LocalOK(r)
    BY <2>1, OpIs DEF OpType, LocalOK, HoldsMod, Loading, Unloading
  <2> HIDE DEF r
  <2>3. Shape(tree') /\ \A p \in DOMAIN tree' : tree'[p] \in [key : Names, val : Mods] \cup {Dangling}
    <3>1. CASE tree' = tree
      BY <3>1, StillTyped
    <3>2. CASE Found(n) /\ tree' = Cut(tree, CaseOrder, n)
      <4> DEFINE at == Stop(tree, CaseOrder, n)
      <4>1. at \in DOMAIN tree
        BY <3>2 DEF Found, Has
      <4>2. Shape(tree')
        BY <3>2, <4>1, CutShape, StillTyped
      <4>3. /\ DOMAIN tree' \subseteq (DOMAIN tree \ Gone(tree, at)) \cup {at}
            /\ \A p \in DOMAIN tree \ Gone(tree, at) : tree'[p] = tree[p]
            /\ at \in DOMAIN tree' => tree'[at] = Dangling
        BY <3>2, <4>1, CutIs
      <4>4. \A p \in DOMAIN tree' : tree'[p] \in [key : Names, val : Mods] \cup {Dangling}
        BY <4>3, StillTyped
      <4> QED
        BY <4>2, <4>4
    <3> QED
      BY <2>1, <3>1, <3>2
  <2>4. Moves(t) /\ Flags
    <3>1. Moves(t)
      BY <2>1, <2>2 DEF Moves, Goes1
    <3>2. torn' \in BOOLEAN
      BY <2>1, StillTyped
    <3> QED
      BY <2>1, <3>1, <3>2, StillTyped DEF Flags
  <2> QED
    BY <2>1, <2>3, <2>4, StillTyped, MovesType
<1> QED
  BY <1>1, <1>2

LEMMA FreeModuleType ==
  ASSUME TypeInv, NEW t \in Threads, FreeModule(t)
  PROVE  TypeInv'
<1>1. CASE life[op[t].mod] = "freed"
  BY <1>1, UndefinedType DEF FreeModule
<1>2. CASE life[op[t].mod] # "freed"
  <2>1. /\ op[t].pc = "free" /\ life' = [life EXCEPT ![op[t].mod] = "freed"] /\ After(t)
        /\ UNCHANGED <<tree, table, name, id, refs, ended, ub, ghosts>>
    BY <1>2 DEF FreeModule, At
  <2>2. life' \in [Mods -> {"unborn", "live", "freed"}]
    BY <2>1, StillTyped
  <2>3. Moves(t) /\ Flags
    <3>1. Moves(t)
      BY <2>1, AfterGoes DEF Moves, HoldsMod
    <3> QED
      BY <2>1, <3>1, StillTyped DEF Flags
  <2> QED
    BY <2>1, <2>2, <2>3, StillTyped, MovesType
<1> QED
  BY <1>1, <1>2

\* What the modules of the map are.
MappedMods == {tree[p].val : p \in {q \in DOMAIN tree : tree[q] # Dangling}}

LEMMA VmFreeType ==
  ASSUME TypeInv, VmFree
  PROVE  TypeInv'
<1>1. CASE WalkFalls(tree) \/ \E m \in MappedMods : life[m] = "freed"
  BY <1>1, UndefinedType DEF VmFree, MappedMods
<1>2. CASE ~(WalkFalls(tree) \/ \E m \in MappedMods : life[m] = "freed")
  <2>1. /\ life' = [m \in Mods |-> IF m \in MappedMods THEN "freed" ELSE life[m]]
        /\ ended' = TRUE /\ UNCHANGED <<tree, table, name, id, refs, op, ret, ub, ghosts>>
    BY <1>2 DEF VmFree, MappedMods
  <2>2. life' \in [Mods -> {"unborn", "live", "freed"}]
    BY <2>1, StillTyped
  <2> QED
    BY <2>1, <2>2 DEF TypeInv, TypeOK, LocalsOK
<1> QED
  BY <1>1, <1>2

LEMMA NextType == TypeInv /\ [Next]_vars => TypeInv'
<1> SUFFICES ASSUME TypeInv, [Next]_vars PROVE TypeInv'
  OBVIOUS
<1>1. ASSUME NEW t \in Threads, Step(t) PROVE TypeInv'
  <2>1. Step(t) => \/ Private(t) \/ HitWrite(t) \/ Alloc(t) \/ InsertContains(t) \/ InsertNode(t)
                   \/ Store(t) \/ CountWrite(t) \/ ClearSlot(t) \/ RemoveName(t) \/ FreeModule(t)
    BY Zenon DEF Step, Private
  <2> QED
    BY <1>1, <2>1, PrivateType, HitWriteType, AllocType, InsertContainsType, InsertNodeType,
       StoreType, CountWriteType, ClearSlotType, RemoveNameType, FreeModuleType
<1>2. CASE UNCHANGED vars
  BY <1>2 DEF TypeInv, TypeOK, LocalsOK
<1> QED
  BY <1>1, <1>2, VmFreeType DEF Next, Stopped

\* Every value stays of its type: a thread that has a module in its hands has
\* one, an opcode that loads has a name, and the map is a search tree.
THEOREM TypeCorrect == Spec => []TypeOK
<1>1. Spec => []TypeInv
  BY InitType, NextType, PTL DEF Spec
<1>2. TypeInv => TypeOK
  BY DEF TypeInv
<1> QED
  BY <1>1, <1>2, PTL


-----------------------------------------------------------------------------
\* The map, seen as a set of nodes.

\* strcmp, which searches the map, and strcasecmp, which inserts into it, put
\* the names in one order.
SameOrder == \A m, n \in Names : FoldedOrder[m] < FoldedOrder[n] <=> CaseOrder[m] < CaseOrder[n]

Nodes == {tree[p] : p \in DOMAIN tree}
Mapped(m) == \E x \in Nodes : x.val = m
InMap(n)  == \E x \in Nodes : x.key = n
Node(n, m) == [key |-> n, val |-> m]

\* Every node is where a search for its name stops, and none is freed.
Whole == Sorted(tree, CaseOrder) /\ ~WalkFalls(tree)

LEMMA NodeType ==
  ASSUME TypeInv, Whole, NEW x \in Nodes
  PROVE  x \in [key : Names, val : Mods] /\ x = Node(x.key, x.val)
<1>1. x \in [key : Names, val : Mods]
  BY StillTyped DEF Nodes, Whole, WalkFalls
<1> QED
  BY <1>1 DEF Node

LEMMA OneStop ==
  ASSUME TypeInv, SameOrder, NEW n \in Names
  PROVE  Stop(tree, FoldedOrder, n) = Stop(tree, CaseOrder, n)
<1>1. \A j \in Names : CaseOrder[j] \in Nat /\ FoldedOrder[j] \in Nat
  BY ModuleTableOK
<1>2. \A p \in DOMAIN tree : tree[p] # Dangling => tree[p].key \in Names
  BY StillTyped
<1>3. /\ \A j \in Names : CaseOrder[n] < CaseOrder[j] <=> FoldedOrder[n] < FoldedOrder[j]
      /\ \A j \in Names : CaseOrder[j] < CaseOrder[n] <=> FoldedOrder[j] < FoldedOrder[n]
  BY DEF SameOrder
<1> QED
  BY <1>1, <1>2, <1>3, SameStop, StillTyped

\* What a search of a whole map finds.
LEMMA MapIs ==
  ASSUME TypeInv, SameOrder, Whole
  PROVE  /\ \A n \in Names : /\ ~Falls(tree, CaseOrder, n) /\ ~Falls(tree, FoldedOrder, n)
                             /\ Has(tree, FoldedOrder, n) <=> InMap(n)
                             /\ Found(n) <=> InMap(n)
                             /\ Found(n) => Node(n, Value(tree, CaseOrder, n)) \in Nodes
         /\ \A n \in Names : \A m : Node(n, m) \in Nodes => Value(tree, CaseOrder, n) = m
<1>1. ASSUME NEW n \in Names, Found(n)
      PROVE  Node(n, Value(tree, CaseOrder, n)) \in Nodes
  <2> DEFINE p == Stop(tree, CaseOrder, n)
  <2>1. p \in DOMAIN tree /\ tree[p] # Dangling /\ CaseOrder[n] = CaseOrder[tree[p].key]
    BY <1>1, HasIs, StillTyped DEF Found
  <2>2. tree[p] \in [key : Names, val : Mods]
    BY <2>1, StillTyped
  <2>3. tree[p].key = n
    BY <2>1, <2>2, ModuleTableOK
  <2>4. tree[p] = Node(n, Value(tree, CaseOrder, n))
    BY <2>2, <2>3 DEF Node, Value
  <2> QED
    BY <2>1, <2>4 DEF Nodes
<1>2. ASSUME NEW n \in Names, NEW m, Node(n, m) \in Nodes
      PROVE  Found(n) /\ Value(tree, CaseOrder, n) = m
  <2>1. PICK p \in DOMAIN tree : tree[p] = Node(n, m)
    BY <1>2 DEF Nodes
  <2>2. tree[p] # Dangling /\ tree[p].key = n /\ tree[p].val = m
    BY <2>1 DEF Whole, WalkFalls, Node
  <2>3. Stop(tree, CaseOrder, n) = p
    BY <2>2, FoundThere, StillTyped DEF Whole
  <2> QED
    BY <2>2, <2>3 DEF Found, Has, Value
<1>3. ASSUME NEW n \in Names PROVE Found(n) <=> InMap(n)
  <2>1. Found(n) => InMap(n)
    BY <1>1 DEF InMap, Node
  <2>2. ASSUME NEW x \in Nodes, x.key = n PROVE Found(n)
    BY <2>2, <1>2, NodeType
  <2> QED
    BY <2>1, <2>2 DEF InMap
<1>4. ASSUME NEW n \in Names
      PROVE  /\ ~Falls(tree, CaseOrder, n) /\ ~Falls(tree, FoldedOrder, n)
             /\ Has(tree, FoldedOrder, n) <=> Found(n)
  BY OneStop DEF Falls, Has, Found, Whole, WalkFalls
<1> QED
  BY <1>1, <1>2, <1>3, <1>4

\* A name has one module in the map.
LEMMA OneNode ==
  ASSUME TypeInv, SameOrder, Whole, NEW x \in Nodes, NEW y \in Nodes, x.key = y.key
  PROVE  x = y
<1>1. /\ x = Node(x.key, x.val) /\ y = Node(y.key, y.val) /\ x.key \in Names
  BY NodeType
<1> QED
  BY <1>1, MapIs

\* Insertion adds a node.
LEMMA GrowIs ==
  ASSUME TypeInv, SameOrder, Whole, NEW n \in Names, NEW m \in Mods, ~InMap(n),
         tree' = Grow(tree, FoldedOrder, n, m)
  PROVE  Nodes' = Nodes \cup {Node(n, m)} /\ Whole'
<1> DEFINE at == Stop(tree, CaseOrder, n)
<1>1. at \notin DOMAIN tree
  BY MapIs DEF Found, Has, Falls
<1>2. tree' = Grow(tree, CaseOrder, n, m)
  BY OneStop DEF Grow
<1>3. Sorted(tree', CaseOrder)
  BY <1>1, <1>2, GrowSorted, StillTyped DEF Whole
<1>4. /\ DOMAIN tree' = DOMAIN tree \cup {at} /\ tree'[at] = Node(n, m)
      /\ \A p \in DOMAIN tree : tree'[p] = tree[p]
  BY <1>1, <1>2 DEF Grow, Node
<1>5. Nodes' = Nodes \cup {Node(n, m)}
  BY <1>4 DEF Nodes
<1>6. ~WalkFalls(tree')
  BY <1>4, ModuleTableOK DEF Whole, WalkFalls, Node
<1> QED
  BY <1>3, <1>5, <1>6 DEF Whole

\* Removal of a leaf takes its node away.
LEMMA LeafCutIs ==
  ASSUME TypeInv, SameOrder, Whole, NEW n \in Names, NEW m, Node(n, m) \in Nodes,
         Below(tree, Stop(tree, CaseOrder, n)) = {}, tree' = Cut(tree, CaseOrder, n)
  PROVE  Nodes' = Nodes \ {Node(n, m)} /\ Whole'
<1> DEFINE at == Stop(tree, CaseOrder, n)
<1>1. PICK p \in DOMAIN tree : tree[p] = Node(n, m)
  BY DEF Nodes
<1>2. p = at
  <2>1. tree[p] # Dangling /\ tree[p].key = n
    BY <1>1 DEF Whole, WalkFalls, Node
  <2> QED
    BY <2>1, FoundThere, StillTyped DEF Whole
<1>3. DOMAIN tree' = DOMAIN tree \ {at} /\ \A q \in DOMAIN tree \ {at} : tree'[q] = tree[q]
  BY DEF Cut, Gone
<1>4. \A q \in DOMAIN tree \ {at} : tree[q] # Node(n, m)
  <2>1. ASSUME NEW q \in DOMAIN tree, tree[q] = Node(n, m) PROVE q = at
    <3>1. tree[q] # Dangling /\ tree[q].key = n
      BY <2>1 DEF Whole, WalkFalls, Node
    <3> QED
      BY <3>1, FoundThere, StillTyped DEF Whole
  <2> QED
    BY <2>1
<1>5. Nodes' = Nodes \ {Node(n, m)}
  BY <1>1, <1>2, <1>3, <1>4 DEF Nodes
<1>6. Sorted(tree', CaseOrder)
  BY <1>1, <1>2, CutSorted, StillTyped DEF Whole
<1>7. ~WalkFalls(tree')
  BY <1>3 DEF Whole, WalkFalls
<1> QED
  BY <1>5, <1>6, <1>7 DEF Whole


-----------------------------------------------------------------------------
\* Safety.  As long as no unload has overlapped another opcode and no module
\* was unloaded over others in the map, everything that a slot, a node or a
\* thread leads to is a live module, and only a module on its way into the map
\* or out of it is not in it.

Safe == overlap # "unloads" /\ ~torn
Up   == ub = "none" /\ ~ended

UnloadsAlone == \A t, u \in Threads : t # u /\ op[t].pc \in Unloading => ~Busy(u)
MapOK   == Whole /\ \A x \in Nodes : life[x.val] = "live" /\ name[x.val] = x.key
SlotsOK == \A i \in Ids : table[i] # NULL => id[table[i]] = i /\ Mapped(table[i])

ThreadOK(t) ==
  LET m  == op[t].mod
      pc == op[t].pc
  IN  /\ m # NULL => life[m] = "live"
      /\ pc \in {"contains", "insert"} =>
           ~Mapped(m) /\ name[m] = op[t].name /\ \A u \in Threads \ {t} : op[u].mod # m
      /\ pc \in HoldsMod \ {"contains", "insert", "free"} => Mapped(m)
      /\ pc \in {"hit", "hitWrite", "store", "countWrite", "clear", "remove"} => name[m] = op[t].name
      /\ pc \in {"remove", "free"} => \A i \in Ids : table[i] # m
      /\ pc = "free" => ~Mapped(m)

Sound   == UnloadsAlone /\ MapOK /\ SlotsOK /\ \A t \in Threads : ThreadOK(t)
SafeInv == Safe => ub # "use_after_free" /\ (Up => Sound)

\* A state in which opcodes run, and the step of one thread.
SafeNow == TypeInv /\ SameOrder /\ Safe /\ Up /\ Sound
Others(t) == \A u \in Threads \ {t} : op'[u] = op[u]

LEMMA GotoIs ==
  ASSUME TypeInv, NEW t \in Threads, NEW r, Goto(t, r)
  PROVE  op'[t] = r /\ Others(t)
  BY DEF Goto, Others, TypeInv, TypeOK

LEMMA FinishIs ==
  ASSUME TypeInv, NEW t \in Threads, NEW r, Finish(t, r)
  PROVE  op'[t].pc \in {"idle", "ended"} /\ Others(t)
<1>1. CASE r = "fault"
  BY <1>1, GotoIs DEF Finish, Idle
<1>2. CASE r # "fault"
  BY <1>2, GotoIs DEF Finish, Idle
<1> QED
  BY <1>1, <1>2

LEMMA RetryIs ==
  ASSUME TypeInv, NEW t \in Threads, Retry(t)
  PROVE  /\ op'[t].pc \in {"idle", "ended"} \/ (op'[t].pc = "find" /\ op'[t].name = op[t].name)
         /\ Others(t)
<1>1. CASE op[t].multi
  <2> DEFINE r == [op[t] EXCEPT !.pc = "find", !.multi = FALSE, !.mod = NULL]
  <2>1. op'[t] = r /\ Others(t)
    BY <1>1, GotoIs DEF Retry
  <2>2. r.pc = "find" /\ r.name = op[t].name
    BY OpIs DEF OpType
  <2> QED
    BY <2>1, <2>2
<1>2. CASE ~op[t].multi
  BY <1>2, FinishIs DEF Retry
<1> QED
  BY <1>1, <1>2

LEMMA AfterIs ==
  ASSUME TypeInv, NEW t \in Threads, After(t)
  PROVE  op'[t].pc \in {"idle", "ended", "next"} /\ Others(t)
<1>1. CASE op[t].all
  <2> DEFINE r == [op[t] EXCEPT !.pc = "next", !.n = id[op[t].mod] + 1, !.mod = NULL]
  <2>1. op'[t] = r /\ Others(t)
    BY <1>1, GotoIs DEF After
  <2>2. r.pc = "next"
    BY OpIs DEF OpType
  <2> QED
    BY <2>1, <2>2
<1>2. CASE ~op[t].all
  BY <1>2, FinishIs DEF After
<1> QED
  BY <1>1, <1>2

\* An opcode goes on or ends; or it begins with no unload near it.
LEMMA AloneGoesOn ==
  ASSUME TypeInv, UnloadsAlone, NEW t \in Threads, Others(t), Busy(t)' => Busy(t),
         op'[t].pc \in Unloading => op[t].pc \in Unloading
  PROVE  UnloadsAlone'
  BY DEF UnloadsAlone, Others, Busy

LEMMA BeginsAlone ==
  ASSUME NEW t \in Threads, NEW kind, Begins(t, kind), overlap' # "unloads"
  PROVE  \A u \in Threads \ {t} : Busy(u) => kind # "unload" /\ Kind(u) # "unload"
<1> SUFFICES ASSUME NEW u \in Threads \ {t}, Busy(u), kind = "unload" \/ Kind(u) = "unload"
             PROVE  FALSE
  OBVIOUS
<1> DEFINE others == {Kind(v) : v \in {w \in Threads \ {t} : Busy(w)}}
           met    == IF others = {} THEN {} ELSE others \cup {kind}
<1>1. Kind(u) \in others
  OBVIOUS
<1>2. "unload" \in met
  BY <1>1
<1>3. "unload" \in met => overlap' = "unloads"
  BY DEF Begins
<1> QED
  BY <1>2, <1>3

LEMMA AloneBegins ==
  ASSUME TypeInv, UnloadsAlone, NEW t \in Threads, Others(t), NEW kind, Begins(t, kind),
         overlap' # "unloads", op'[t].pc \in Unloading => kind = "unload"
  PROVE  UnloadsAlone'
<1> SUFFICES ASSUME NEW a \in Threads, NEW b \in Threads, a # b, op'[a].pc \in Unloading
             PROVE  ~Busy(b)'
  BY DEF UnloadsAlone
<1>1. \A u \in Threads \ {t} : Busy(u) => kind # "unload" /\ Kind(u) # "unload"
  BY BeginsAlone
<1>2. CASE a = t
  BY <1>1, <1>2 DEF Others, Busy
<1>3. CASE a # t
  <2>1. op[a].pc \in Unloading /\ Busy(a) /\ Kind(a) = "unload"
    BY <1>3 DEF Others, Busy, Kind, Unloading, Loading, Calling
  <2> QED
    BY <1>1, <1>3, <2>1
<1> QED
  BY <1>2, <1>3

\* A thread without a module in its hands has nothing to go wrong.
LEMMA EmptyHanded ==
  ASSUME TypeInv', NEW t \in Threads, op'[t].pc \notin HoldsMod
  PROVE  ThreadOK(t)'
<1>1. op'[t].mod = NULL
  BY DEF TypeInv, LocalsOK
<1> QED
  BY <1>1 DEF ThreadOK, HoldsMod

\* A step that changes the opcode of its thread only.
LEMMA StillSafe ==
  ASSUME SafeNow, TypeInv', NEW t \in Threads, UNCHANGED <<tree, table, name, id, life>>,
         Others(t), ThreadOK(t)', UnloadsAlone', ub' # "use_after_free",
         op'[t].mod \in {NULL, op[t].mod} \/ Mapped(op'[t].mod)
  PROVE  SafeInv'
<1>1. Nodes' = Nodes /\ (\A m : Mapped(m)' <=> Mapped(m))
  BY DEF Nodes, Mapped
<1>2. ASSUME NEW u \in Threads \ {t} PROVE ThreadOK(u)'
  <2>1. op'[u] = op[u] /\ ThreadOK(u)
    BY DEF Others, SafeNow, Sound
  <2>2. op[u].pc \in {"contains", "insert"} => \A v \in Threads \ {u} : op'[v].mod # op[u].mod
    <3> SUFFICES ASSUME op[u].pc \in {"contains", "insert"}, NEW v \in Threads \ {u}
                 PROVE  op'[v].mod # op[u].mod
      OBVIOUS
    <3>1. op[v].mod # op[u].mod /\ ~Mapped(op[u].mod) /\ op[u].mod # NULL
      BY <2>1, OpIs DEF ThreadOK, SafeNow, LocalOK, HoldsMod
    <3>2. CASE v = t
      BY <3>1, <3>2
    <3>3. CASE v # t
      BY <3>1, <3>3 DEF Others
    <3> QED
      BY <3>2, <3>3
  <2> QED
    BY <1>1, <2>1, <2>2 DEF ThreadOK
<1>3. MapOK' /\ SlotsOK'
  BY <1>1 DEF SafeNow, Sound, MapOK, SlotsOK, Whole, WalkFalls, Sorted
<1> QED
  BY <1>2, <1>3 DEF SafeInv, Sound


LEMMA InHand ==
  ASSUME SafeNow, NEW t \in Threads, op[t].pc \in HoldsMod
  PROVE  op[t].mod \in Mods /\ op[t].mod # NULL /\ life[op[t].mod] = "live" /\ ThreadOK(t)
  BY OpIs DEF SafeNow, Sound, ThreadOK, LocalOK

\* What a node or a slot leads to.
LEMMA MappedIs ==
  ASSUME SafeNow
  PROVE  /\ \A n \in Names : Found(n) =>
              LET m == Value(tree, CaseOrder, n)
              IN  m \in Mods /\ Mapped(m) /\ life[m] = "live" /\ name[m] = n
         /\ \A i \in Ids : table[i] # NULL =>
              table[i] \in Mods /\ Mapped(table[i]) /\ life[table[i]] = "live"
         /\ \A n \in Names : ~Falls(tree, CaseOrder, n) /\ ~Falls(tree, FoldedOrder, n)
<1>1. TypeInv /\ SameOrder /\ MapOK /\ Whole /\ SlotsOK
  BY DEF SafeNow, Sound, MapOK
<1>2. ASSUME NEW n \in Names, Found(n)
      PROVE  LET m == Value(tree, CaseOrder, n)
             IN  m \in Mods /\ Mapped(m) /\ life[m] = "live" /\ name[m] = n
  <2> DEFINE m == Value(tree, CaseOrder, n)
  <2>1. Node(n, m) \in Nodes
    BY <1>1, <1>2, MapIs
  <2>2. PICK x \in Nodes : x = Node(n, m)
    BY <2>1
  <2>3. x.val = m /\ x.key = n
    BY <2>2 DEF Node
  <2>4. m \in Mods
    BY <1>1, <2>2, <2>3, NodeType
  <2> QED
    BY <1>1, <2>3, <2>4 DEF MapOK, Mapped
<1>3. ASSUME NEW i \in Ids, table[i] # NULL
      PROVE  table[i] \in Mods /\ Mapped(table[i]) /\ life[table[i]] = "live"
  BY <1>1, <1>3, StillTyped DEF SlotsOK, Mapped, MapOK
<1> QED
  BY <1>1, <1>2, <1>3, MapIs

\* The opcode of a thread comes to hold m, at a place where m is in the map
\* and of which no more is known.
LEMMA TakesMapped ==
  ASSUME NEW t \in Threads, op'[t].pc \in {"hit", "resolved", "count", "call"},
         op'[t].pc = "hit" => name[op'[t].mod] = op'[t].name,
         Mapped(op'[t].mod), life[op'[t].mod] = "live", UNCHANGED <<tree, life, name>>
  PROVE  ThreadOK(t)'
  BY DEF ThreadOK, HoldsMod, Mapped, Nodes

LEMMA UndefinedSafe ==
  ASSUME ub' \notin {"none", "use_after_free"}
  PROVE  SafeInv'
  BY DEF SafeInv, Up

LEMMA LoadLookupSafe ==
  ASSUME SafeNow, TypeInv', Safe', NEW t \in Threads, NEW n \in Names, LoadLookup(t, n)
  PROVE  SafeInv'
<1> DEFINE m  == Value(tree, CaseOrder, n)
           r1 == [Idle EXCEPT !.pc = "hit", !.name = n, !.mod = m]
           r2 == [Idle EXCEPT !.pc = "find", !.name = n, !.multi = TRUE]
           r  == IF Found(n) THEN r1 ELSE r2
<1>1. /\ Goto(t, r) /\ Begins(t, "load") /\ UNCHANGED <<tree, table, objects, ub>>
  BY MappedIs DEF LoadLookup
<1>2. op'[t] = r /\ Others(t)
  BY <1>1, GotoIs DEF SafeNow
<1>3. op'[t].pc \notin Unloading
  BY <1>2 DEF Idle, Unloading
<1>4. UnloadsAlone'
  BY <1>1, <1>2, <1>3, AloneBegins DEF SafeNow, Sound, Safe
<1>5. CASE Found(n)
  <2>1. op'[t].pc = "hit" /\ op'[t].name = n /\ op'[t].mod = m
    BY <1>2, <1>5 DEF Idle
  <2>2. Mapped(m) /\ life[m] = "live" /\ name[m] = n
    BY <1>5, MappedIs
  <2> QED
    BY <1>1, <1>2, <1>4, <2>1, <2>2, TakesMapped, StillSafe DEF SafeNow, Up
<1>6. CASE ~Found(n)
  <2>1. op'[t].pc = "find" /\ op'[t].mod = NULL
    BY <1>2, <1>6 DEF Idle
  <2> QED
    BY <1>1, <1>2, <1>4, <2>1, EmptyHanded, StillSafe DEF SafeNow, Up, HoldsMod
<1> QED
  BY <1>5, <1>6

LEMMA UnloadLookupSafe ==
  ASSUME SafeNow, TypeInv', Safe', NEW t \in Threads, NEW n \in Names, UnloadLookup(t, n)
  PROVE  SafeInv'
<1> DEFINE m == Value(tree, CaseOrder, n)
           r == [Idle EXCEPT !.pc = "resolved", !.mod = m]
<1>1. /\ Found(n) => Goto(t, r)
      /\ ~Found(n) => Finish(t, "ok")
      /\ Begins(t, "unload") /\ UNCHANGED <<tree, table, objects, ub>>
  BY MappedIs DEF UnloadLookup
<1>2. CASE Found(n)
  <2>1. op'[t] = r /\ Others(t)
    BY <1>1, <1>2, GotoIs DEF SafeNow
  <2>2. op'[t].pc = "resolved" /\ op'[t].mod = m
    BY <2>1 DEF Idle
  <2>3. Mapped(m) /\ life[m] = "live"
    BY <1>2, MappedIs
  <2>4. UnloadsAlone'
    BY <1>1, <2>1, AloneBegins DEF SafeNow, Sound, Safe
  <2> QED
    BY <1>1, <2>1, <2>2, <2>3, <2>4, TakesMapped, StillSafe DEF SafeNow, Up
<1>3. CASE ~Found(n)
  <2>1. op'[t].pc \in {"idle", "ended"} /\ Others(t)
    BY <1>1, <1>3, FinishIs DEF SafeNow
  <2>2. op'[t].pc \notin HoldsMod /\ op'[t].mod = NULL
    BY <2>1 DEF TypeInv, LocalsOK, HoldsMod
  <2>3. UnloadsAlone'
    BY <1>1, <2>1, AloneBegins DEF SafeNow, Sound, Safe
  <2> QED
    BY <1>1, <2>1, <2>2, <2>3, EmptyHanded, StillSafe DEF SafeNow, Up
<1> QED
  BY <1>2, <1>3

LEMMA OpByNameSafe ==
  ASSUME SafeNow, TypeInv', Safe', NEW t \in Threads, NEW n \in Names, OpByName(t, n)
  PROVE  SafeInv'
<1> DEFINE m == Value(tree, CaseOrder, n)
           r == [Idle EXCEPT !.pc = "call", !.mod = m]
<1>1. /\ Found(n) => Goto(t, r)
      /\ ~Found(n) => Finish(t, "fault")
      /\ Begins(t, "call") /\ UNCHANGED <<tree, table, objects, ub>>
  BY MappedIs DEF OpByName, OpUnloaded
<1>2. CASE Found(n)
  <2>1. op'[t] = r /\ Others(t)
    BY <1>1, <1>2, GotoIs DEF SafeNow
  <2>2. op'[t].pc = "call" /\ op'[t].mod = m
    BY <2>1 DEF Idle
  <2>3. Mapped(m) /\ life[m] = "live"
    BY <1>2, MappedIs
  <2>4. UnloadsAlone'
    BY <1>1, <2>1, <2>2, AloneBegins DEF SafeNow, Sound, Safe, Unloading
  <2> QED
    BY <1>1, <2>1, <2>2, <2>3, <2>4, TakesMapped, StillSafe DEF SafeNow, Up
<1>3. CASE ~Found(n)
  <2>1. op'[t].pc \in {"idle", "ended"} /\ Others(t)
    BY <1>1, <1>3, FinishIs DEF SafeNow
  <2>2. op'[t].pc \notin HoldsMod /\ op'[t].mod = NULL
    BY <2>1 DEF TypeInv, LocalsOK, HoldsMod
  <2>3. UnloadsAlone'
    BY <1>1, <2>1, AloneBegins DEF SafeNow, Sound, Safe, Unloading
  <2> QED
    BY <1>1, <2>1, <2>2, <2>3, EmptyHanded, StillSafe DEF SafeNow, Up
<1> QED
  BY <1>2, <1>3


LEMMA EmptySafe ==
  ASSUME SafeNow, TypeInv', NEW t \in Threads, UNCHANGED <<tree, table, name, id, life>>,
         Others(t), op'[t].pc \notin HoldsMod, UnloadsAlone', ub' # "use_after_free"
  PROVE  SafeInv'
<1>1. op'[t].mod = NULL
  BY DEF TypeInv, LocalsOK
<1> QED
  BY <1>1, EmptyHanded, StillSafe

LEMMA UnloadIdSafe ==
  ASSUME SafeNow, TypeInv', Safe', NEW t \in Threads, NEW i \in 0 .. Slots + 1, UnloadId(t, i)
  PROVE  SafeInv'
<1> DEFINE r == [Idle EXCEPT !.pc = "next", !.n = i]
<1>1. /\ Goto(t, r) \/ Finish(t, "fault")
      /\ Begins(t, "unload") /\ UNCHANGED <<tree, table, objects, ub>>
  BY DEF UnloadId
<1>2. op'[t].pc \in {"idle", "ended", "next"} /\ Others(t)
  <2>1. CASE Goto(t, r)
    <3>1. op'[t] = r /\ Others(t)
      BY <2>1, GotoIs DEF SafeNow
    <3> QED
      BY <3>1 DEF Idle
  <2>2. CASE Finish(t, "fault")
    BY <2>2, FinishIs DEF SafeNow
  <2> QED
    BY <1>1, <2>1, <2>2
<1>3. UnloadsAlone'
  BY <1>1, <1>2, AloneBegins DEF SafeNow, Sound, Safe
<1> QED
  BY <1>1, <1>2, <1>3, EmptySafe DEF SafeNow, Up, HoldsMod

LEMMA UnloadAllSafe ==
  ASSUME SafeNow, TypeInv', Safe', NEW t \in Threads, UnloadAll(t)
  PROVE  SafeInv'
<1> DEFINE r == [Idle EXCEPT !.pc = "next", !.all = TRUE]
<1>1. Goto(t, r) /\ Begins(t, "unload") /\ UNCHANGED <<tree, table, objects, ub>>
  BY DEF UnloadAll
<1>2. op'[t].pc = "next" /\ Others(t)
  <2>1. op'[t] = r /\ Others(t)
    BY <1>1, GotoIs DEF SafeNow
  <2> QED
    BY <2>1 DEF Idle
<1>3. UnloadsAlone'
  BY <1>1, <1>2, AloneBegins DEF SafeNow, Sound, Safe
<1> QED
  BY <1>1, <1>2, <1>3, EmptySafe DEF SafeNow, Up, HoldsMod

LEMMA OpByIdSafe ==
  ASSUME SafeNow, TypeInv', Safe', NEW t \in Threads, NEW i \in 0 .. Slots + 1, OpById(t, i)
  PROVE  SafeInv'
<1>1. CASE i = Slots
  BY <1>1, UndefinedSafe DEF OpById, Undefined
<1>2. CASE i # Slots
  <2> DEFINE r == [Idle EXCEPT !.pc = "call", !.mod = table[i]]
  <2>1. /\ i > Slots \/ table[i] = NULL => Finish(t, "fault")
        /\ ~(i > Slots \/ table[i] = NULL) => Goto(t, r)
        /\ Begins(t, "call") /\ UNCHANGED <<tree, table, objects, ub>>
    BY <1>2 DEF OpById, OpUnloaded
  <2>2. CASE i > Slots \/ table[i] = NULL
    <3>1. op'[t].pc \in {"idle", "ended"} /\ Others(t)
      BY <2>1, <2>2, FinishIs DEF SafeNow
    <3>2. UnloadsAlone'
      BY <2>1, <3>1, AloneBegins DEF SafeNow, Sound, Safe, Unloading
    <3> QED
      BY <2>1, <3>1, <3>2, EmptySafe DEF SafeNow, Up, HoldsMod
  <2>3. CASE ~(i > Slots \/ table[i] = NULL)
    <3>1. op'[t] = r /\ Others(t)
      BY <2>1, <2>3, GotoIs DEF SafeNow
    <3>2. op'[t].pc = "call" /\ op'[t].mod = table[i]
      BY <3>1 DEF Idle
    <3>3. i \in Ids
      BY <1>2, <2>3, ModuleTableOK DEF Ids
    <3>4. Mapped(table[i]) /\ life[table[i]] = "live"
      BY <2>3, <3>3, MappedIs
    <3>5. UnloadsAlone'
      BY <2>1, <3>1, <3>2, AloneBegins DEF SafeNow, Sound, Safe, Unloading
    <3> QED
      BY <2>1, <3>1, <3>2, <3>4, <3>5, TakesMapped, StillSafe DEF SafeNow, Up
  <2> QED
    BY <2>2, <2>3
<1> QED
  BY <1>1, <1>2

LEMMA HitReadSafe ==
  ASSUME SafeNow, TypeInv', Safe', NEW t \in Threads, HitRead(t)
  PROVE  SafeInv'
<1> DEFINE r == [op[t] EXCEPT !.pc = "hitWrite", !.n = refs[op[t].mod] + 1]
<1>1. op[t].pc = "hit" /\ life[op[t].mod] = "live" /\ ThreadOK(t)
  BY InHand DEF HitRead, At, HoldsMod
<1>2. Goto(t, r) /\ UNCHANGED <<tree, table, objects, ub>>
  BY <1>1 DEF HitRead
<1>3. op'[t] = r /\ Others(t)
  BY <1>2, GotoIs DEF SafeNow
<1>4. op'[t].pc = "hitWrite" /\ op'[t].mod = op[t].mod /\ op'[t].name = op[t].name
  BY <1>3, OpIs DEF SafeNow, OpType
<1>5. ThreadOK(t)'
  BY <1>1, <1>2, <1>4 DEF ThreadOK, HoldsMod, Mapped, Nodes
<1>6. UnloadsAlone'
  BY <1>1, <1>3, <1>4, AloneGoesOn DEF SafeNow, Sound, Busy, Unloading
<1> QED
  BY <1>2, <1>3, <1>4, <1>5, <1>6, StillSafe DEF SafeNow, Up

LEMMA LoadFailsSafe ==
  ASSUME SafeNow, TypeInv', Safe', NEW t \in Threads, LoadFails(t)
  PROVE  SafeInv'
<1>1. /\ op'[t].pc \in {"idle", "ended"} /\ Others(t)
      /\ UNCHANGED <<tree, table, objects, ub>>
  BY FinishIs DEF LoadFails, SafeNow
<1>2. UnloadsAlone'
  BY <1>1, AloneGoesOn DEF SafeNow, Sound, Busy, Unloading
<1> QED
  BY <1>1, <1>2, EmptySafe DEF SafeNow, Up, HoldsMod

LEMMA RetrySafe ==
  ASSUME SafeNow, TypeInv', NEW t \in Threads, Retry(t), op[t].pc = "find",
         UNCHANGED <<tree, table, objects, ub>>
  PROVE  SafeInv'
<1>1. op'[t].pc \in {"idle", "ended", "find"} /\ Others(t)
  BY RetryIs DEF SafeNow
<1>2. UnloadsAlone'
  BY <1>1, AloneGoesOn DEF SafeNow, Sound, Busy, Unloading
<1> QED
  BY <1>1, <1>2, EmptySafe DEF SafeNow, Up, HoldsMod

LEMMA AllocFailsSafe ==
  ASSUME SafeNow, TypeInv', Safe', NEW t \in Threads, AllocBad(t) \/ AllocFails(t)
  PROVE  SafeInv'
<1>1. CASE AllocFails(t)
  BY <1>1, RetrySafe DEF AllocFails, At
<1>2. CASE AllocBad(t)
  BY <1>2, RetrySafe, UndefinedSafe DEF AllocBad, At
<1> QED
  BY <1>1, <1>2

LEMMA UnloadReadIdSafe ==
  ASSUME SafeNow, TypeInv', Safe', NEW t \in Threads, UnloadReadId(t)
  PROVE  SafeInv'
<1> DEFINE r == [Idle EXCEPT !.pc = "next", !.n = id[op[t].mod]]
<1>1. op[t].pc = "resolved" /\ life[op[t].mod] = "live"
  BY InHand DEF UnloadReadId, At, HoldsMod
<1>2. Goto(t, r) /\ UNCHANGED <<tree, table, objects, ub>>
  BY <1>1 DEF UnloadReadId
<1>3. op'[t].pc = "next" /\ Others(t)
  <2>1. op'[t] = r /\ Others(t)
    BY <1>2, GotoIs DEF SafeNow
  <2> QED
    BY <2>1 DEF Idle
<1>4. UnloadsAlone'
  BY <1>1, <1>3, AloneGoesOn DEF SafeNow, Sound, Busy, Unloading
<1> QED
  BY <1>2, <1>3, <1>4, EmptySafe DEF SafeNow, Up, HoldsMod

LEMMA ReadSlotSafe ==
  ASSUME SafeNow, TypeInv', Safe', NEW t \in Threads, ReadSlot(t)
  PROVE  SafeInv'
<1> DEFINE i  == op[t].n
           r1 == [op[t] EXCEPT !.n = i + 1]
           r2 == [op[t] EXCEPT !.pc = "count", !.mod = table[i]]
<1>0. op[t].pc = "next" /\ op[t] \in OpType /\ i \in Nat
  BY OpIs DEF ReadSlot, At, SafeNow
<1>1. CASE i >= Slots /\ ~op[t].all
  BY <1>1, UndefinedSafe DEF ReadSlot, Undefined
<1>2. CASE ~(i >= Slots /\ ~op[t].all)
  <2> DEFINE End == i >= Slots \/ (table[i] = NULL /\ ~op[t].all)
  <2>1. /\ End => Finish(t, "ok")
        /\ ~End => Goto(t, IF table[i] = NULL THEN r1 ELSE r2)
        /\ UNCHANGED <<tree, table, objects, ub>>
    BY <1>2, Zenon DEF ReadSlot
  <2>2. CASE End \/ table[i] = NULL
    <3>1. op'[t].pc \in {"idle", "ended", "next"} /\ Others(t)
      <4>1. CASE End
        BY <2>1, <4>1, FinishIs DEF SafeNow
      <4>2. CASE ~End /\ table[i] = NULL
        BY <1>0, <2>1, <4>2, GotoIs DEF SafeNow, OpType
      <4> QED
        BY <2>2, <4>1, <4>2
    <3>2. UnloadsAlone'
      BY <1>0, <3>1, AloneGoesOn DEF SafeNow, Sound, Busy, Unloading
    <3> QED
      BY <2>1, <3>1, <3>2, EmptySafe DEF SafeNow, Up, HoldsMod
  <2>3. CASE ~End /\ table[i] # NULL
    <3>1. op'[t] = r2 /\ Others(t)
      BY <2>1, <2>3, GotoIs DEF SafeNow
    <3>2. op'[t].pc = "count" /\ op'[t].mod = table[i]
      BY <1>0, <3>1 DEF OpType
    <3>3. i \in Ids
      BY <1>0, <2>3, ModuleTableOK DEF Ids
    <3>4. Mapped(table[i]) /\ life[table[i]] = "live"
      BY <2>3, <3>3, MappedIs
    <3>5. UnloadsAlone'
      BY <1>0, <3>1, <3>2, AloneGoesOn DEF SafeNow, Sound, Busy, Unloading
    <3> QED
      BY <2>1, <3>1, <3>2, <3>4, <3>5, TakesMapped, StillSafe DEF SafeNow, Up
  <2> QED
    BY <2>2, <2>3
<1> QED
  BY <1>1, <1>2

LEMMA CountReadSafe ==
  ASSUME SafeNow, TypeInv', Safe', NEW t \in Threads, CountRead(t)
  PROVE  SafeInv'
<1> DEFINE m == op[t].mod
           r == [op[t] EXCEPT !.pc = "countWrite", !.name = name[m], !.n = refs[m]]
<1>1. op[t].pc = "count" /\ life[m] = "live" /\ ThreadOK(t)
  BY InHand DEF CountRead, At, HoldsMod
<1>2. Goto(t, r) /\ UNCHANGED <<tree, table, objects, ub>>
  BY <1>1 DEF CountRead
<1>3. op'[t] = r /\ Others(t)
  BY <1>2, GotoIs DEF SafeNow
<1>4. op'[t].pc = "countWrite" /\ op'[t].mod = m /\ op'[t].name = name[m]
  BY <1>3, OpIs DEF SafeNow, OpType
<1>5. ThreadOK(t)'
  BY <1>1, <1>2, <1>4 DEF ThreadOK, HoldsMod, Mapped, Nodes
<1>6. UnloadsAlone'
  BY <1>1, <1>3, <1>4, AloneGoesOn DEF SafeNow, Sound, Busy, Unloading
<1> QED
  BY <1>2, <1>3, <1>4, <1>5, <1>6, StillSafe DEF SafeNow, Up

LEMMA CallSafe ==
  ASSUME SafeNow, TypeInv', Safe', NEW t \in Threads, Call(t)
  PROVE  SafeInv'
<1>1. op[t].pc = "call" /\ life[op[t].mod] = "live"
  BY InHand DEF Call, At, HoldsMod
<1>2. Finish(t, "ok") /\ UNCHANGED <<tree, table, objects, ub>>
  BY <1>1 DEF Call
<1>3. op'[t].pc \in {"idle", "ended"} /\ Others(t)
  BY <1>2, FinishIs DEF SafeNow
<1>4. UnloadsAlone'
  BY <1>1, <1>3, AloneGoesOn DEF SafeNow, Sound, Busy, Unloading
<1> QED
  BY <1>2, <1>3, <1>4, EmptySafe DEF SafeNow, Up, HoldsMod

LEMMA PrivateSafe ==
  ASSUME SafeNow, TypeInv', Safe', NEW t \in Threads, Private(t)
  PROVE  SafeInv'
  BY LoadLookupSafe, UnloadLookupSafe, OpByNameSafe, UnloadIdSafe, UnloadAllSafe, OpByIdSafe,
     HitReadSafe, LoadFailsSafe, AllocFailsSafe, UnloadReadIdSafe, ReadSlotSafe, CountReadSafe,
     CallSafe DEF Private


LEMMA HitWriteSafe ==
  ASSUME SafeNow, TypeInv', Safe', NEW t \in Threads, HitWrite(t)
  PROVE  SafeInv'
<1>1. op[t].pc = "hitWrite" /\ life[op[t].mod] = "live"
  BY InHand DEF HitWrite, At, HoldsMod
<1>2. Finish(t, "ok") /\ UNCHANGED <<tree, table, name, id, life, ub>>
  BY <1>1 DEF HitWrite
<1>3. op'[t].pc \in {"idle", "ended"} /\ Others(t)
  BY <1>2, FinishIs DEF SafeNow
<1>4. UnloadsAlone'
  BY <1>1, <1>3, AloneGoesOn DEF SafeNow, Sound, Busy, Unloading
<1> QED
  BY <1>2, <1>3, <1>4, EmptySafe DEF SafeNow, Up, HoldsMod

LEMMA CountWriteSafe ==
  ASSUME SafeNow, TypeInv', Safe', NEW t \in Threads, CountWrite(t)
  PROVE  SafeInv'
<1> DEFINE r == [op[t] EXCEPT !.pc = "clear"]
<1>1. op[t].pc = "countWrite" /\ life[op[t].mod] = "live" /\ ThreadOK(t)
  BY InHand DEF CountWrite, At, HoldsMod
<1>2. (Goto(t, r) \/ After(t)) /\ UNCHANGED <<tree, table, name, id, life, ub>>
  BY <1>1 DEF CountWrite
<1>3. CASE Goto(t, r)
  <2>1. op'[t] = r /\ Others(t)
    BY <1>3, GotoIs DEF SafeNow
  <2>2. op'[t].pc = "clear" /\ op'[t].mod = op[t].mod /\ op'[t].name = op[t].name
    BY <2>1, OpIs DEF SafeNow, OpType
  <2>3. ThreadOK(t)'
    BY <1>1, <1>2, <2>2 DEF ThreadOK, HoldsMod, Mapped, Nodes
  <2>4. UnloadsAlone'
    BY <1>1, <2>1, <2>2, AloneGoesOn DEF SafeNow, Sound, Busy, Unloading
  <2> QED
    BY <1>2, <2>1, <2>2, <2>3, <2>4, StillSafe DEF SafeNow, Up
<1>4. CASE After(t)
  <2>1. op'[t].pc \in {"idle", "ended", "next"} /\ Others(t)
    BY <1>4, AfterIs DEF SafeNow
  <2>2. UnloadsAlone'
    BY <1>1, <2>1, AloneGoesOn DEF SafeNow, Sound, Busy, Unloading
  <2> QED
    BY <1>2, <2>1, <2>2, EmptySafe DEF SafeNow, Up, HoldsMod
<1> QED
  BY <1>2, <1>3, <1>4

\* What a step of t does not disturb for another thread.
LEMMA OthersKept ==
  ASSUME SafeNow, NEW t \in Threads, Others(t), NEW u \in Threads \ {t},
         op[u].mod # NULL =>
           /\ life'[op[u].mod] = "live" /\ name'[op[u].mod] = name[op[u].mod]
           /\ Mapped(op[u].mod)' <=> Mapped(op[u].mod)
           /\ op[u].pc \in {"remove", "free"} => \A i \in Ids : table'[i] # op[u].mod
           /\ op[u].pc \in {"contains", "insert"} => op'[t].mod # op[u].mod
  PROVE  ThreadOK(u)'
<1>1. op'[u] = op[u] /\ ThreadOK(u) /\ (op[u].pc \in HoldsMod <=> op[u].mod # NULL)
  BY OpIs DEF Others, SafeNow, Sound, LocalOK
<1>2. op[u].pc \in {"contains", "insert"} => \A v \in Threads \ {u} : op'[v].mod # op[u].mod
  <2> SUFFICES ASSUME op[u].pc \in {"contains", "insert"}, NEW v \in Threads \ {u}
               PROVE  op'[v].mod # op[u].mod
    OBVIOUS
  <2>1. op[v].mod # op[u].mod /\ op[u].mod # NULL
    BY <1>1 DEF ThreadOK, HoldsMod
  <2> QED
    BY <2>1 DEF Others
<1>3. CASE op[u].mod = NULL
  BY <1>1, <1>3 DEF ThreadOK, HoldsMod
<1>4. CASE op[u].mod # NULL
  BY <1>1, <1>2, <1>4 DEF ThreadOK, HoldsMod
<1> QED
  BY <1>3, <1>4

LEMMA AllocSafe ==
  ASSUME SafeNow, TypeInv', Safe', NEW t \in Threads, Alloc(t)
  PROVE  SafeInv'
<1>1. PICK m \in Mods, i \in Ids :
         /\ life[m] = "unborn" /\ table[i] = NULL
         /\ name' = [name EXCEPT ![m] = op[t].name] /\ id' = [id EXCEPT ![m] = i]
         /\ refs' = [refs EXCEPT ![m] = 1] /\ life' = [life EXCEPT ![m] = "live"]
         /\ Goto(t, [op[t] EXCEPT !.pc = "contains", !.mod = m])
  BY AllocType DEF SafeNow
<1>2. op[t].pc = "find" /\ UNCHANGED <<tree, table, ub>>
  BY DEF Alloc, At
<1> DEFINE r == [op[t] EXCEPT !.pc = "contains", !.mod = m]
<1>3. op'[t] = r /\ Others(t)
  BY <1>1, GotoIs DEF SafeNow
<1>4. op'[t].pc = "contains" /\ op'[t].mod = m /\ op'[t].name = op[t].name
  BY <1>3, OpIs DEF SafeNow, OpType
<1>5. /\ life'[m] = "live" /\ name'[m] = op[t].name
      /\ \A k \in Mods \ {m} : life'[k] = life[k] /\ name'[k] = name[k] /\ id'[k] = id[k]
  BY <1>1, StillTyped DEF SafeNow
<1>6. Nodes' = Nodes /\ (\A k : Mapped(k)' <=> Mapped(k))
  BY <1>2 DEF Nodes, Mapped
<1>7. \A x \in Nodes : x.val \in Mods \ {m}
  BY <1>1, NodeType DEF SafeNow, Sound, MapOK
<1>8. ~Mapped(m) /\ \A u \in Threads : op[u].mod # m
  <2>1. \A u \in Threads : op[u].mod # NULL => life[op[u].mod] = "live"
    BY DEF SafeNow, Sound, ThreadOK
  <2> QED
    BY <1>1, <1>7, <2>1, ModuleTableOK DEF Mapped
<1>9. ThreadOK(t)'
  BY <1>3, <1>4, <1>5, <1>6, <1>8 DEF ThreadOK, HoldsMod, Others
<1>10. ASSUME NEW u \in Threads \ {t} PROVE ThreadOK(u)'
  <2>1. op[u].mod # NULL => op[u].mod \in Mods \ {m} /\ life[op[u].mod] = "live"
    BY <1>8, InHand, OpIs DEF SafeNow, LocalOK
  <2>2. ThreadOK(u)
    BY DEF SafeNow, Sound
  <2>3. Mapped(op[u].mod)' <=> Mapped(op[u].mod)
    BY <1>3, <1>6 DEF Others
  <2>4. op[u].mod # NULL => life'[op[u].mod] = "live" /\ name'[op[u].mod] = name[op[u].mod]
    BY <1>5, <2>1
  <2>5. op[u].pc \in {"remove", "free"} => \A j \in Ids : table'[j] # op[u].mod
    BY <1>2, <2>2 DEF ThreadOK
  <2>6. op'[t].mod # op[u].mod
    BY <1>4, <1>8
  <2> QED
    BY <1>3, <2>3, <2>4, <2>5, <2>6, OthersKept
<1>11. MapOK'
  BY <1>2, <1>5, <1>6, <1>7 DEF SafeNow, Sound, MapOK, Whole, Sorted, WalkFalls
<1>12. SlotsOK'
  <2>1. \A j \in Ids : table[j] # NULL => table[j] \in Mods \ {m}
    BY <1>8, MappedIs
  <2> QED
    BY <1>2, <1>5, <1>6, <2>1 DEF SafeNow, Sound, SlotsOK
<1>13. UnloadsAlone'
  BY <1>2, <1>3, <1>4, AloneGoesOn DEF SafeNow, Sound, Busy, Unloading
<1> QED
  BY <1>2, <1>9, <1>10, <1>11, <1>12, <1>13 DEF SafeInv, Sound, SafeNow, Up

\* The module of an insertion that fails is in nobody else's hands.
LEMMA InsertFailsSafe ==
  ASSUME SafeNow, TypeInv', NEW t \in Threads, op[t].pc \in {"contains", "insert"}, InsertFails(t),
         UNCHANGED <<tree, table, name, id, ub>>
  PROVE  SafeInv'
<1> DEFINE m == op[t].mod
<1>1. m \in Mods /\ ~Mapped(m) /\ m # NULL /\ \A u \in Threads \ {t} : op[u].mod # m
  BY InHand DEF ThreadOK, HoldsMod
<1>2. \A k \in Mods \ {m} : life'[k] = life[k]
  BY StillTyped DEF InsertFails, SafeNow
<1>3. op'[t].pc \in {"idle", "ended", "find"} /\ Others(t)
  BY RetryIs DEF InsertFails, SafeNow
<1>4. Nodes' = Nodes /\ (\A k : Mapped(k)' <=> Mapped(k))
  BY DEF Nodes, Mapped
<1>5. ThreadOK(t)'
  BY <1>3, EmptyHanded DEF HoldsMod
<1>6. op'[t].mod = NULL
  BY <1>3 DEF TypeInv, LocalsOK, HoldsMod
<1>7. ASSUME NEW u \in Threads \ {t} PROVE ThreadOK(u)'
  <2>1. op[u].mod # NULL => op[u].mod \in Mods \ {m} /\ life[op[u].mod] = "live"
    BY <1>1, InHand, OpIs DEF SafeNow, LocalOK
  <2>2. ThreadOK(u)
    BY DEF SafeNow, Sound
  <2>3. Mapped(op[u].mod)' <=> Mapped(op[u].mod)
    BY <1>3, <1>4 DEF Others
  <2>4. op[u].mod # NULL => life'[op[u].mod] = "live" /\ name'[op[u].mod] = name[op[u].mod]
    BY <1>2, <2>1
  <2>5. op[u].pc \in {"remove", "free"} => \A j \in Ids : table'[j] # op[u].mod
    BY <2>2 DEF ThreadOK
  <2>6. op[u].mod # NULL => op'[t].mod # op[u].mod
    BY <1>6
  <2> QED
    BY <1>3, <2>3, <2>4, <2>5, <2>6, OthersKept
<1>8. MapOK'
  <2>1. \A x \in Nodes : x.val \in Mods \ {m}
    BY <1>1, NodeType DEF SafeNow, Sound, MapOK, Mapped
  <2> QED
    BY <1>2, <1>4, <2>1 DEF SafeNow, Sound, MapOK, Whole, Sorted, WalkFalls
<1>9. SlotsOK'
  BY <1>4 DEF SafeNow, Sound, SlotsOK
<1>10. UnloadsAlone'
  BY <1>3, AloneGoesOn DEF SafeNow, Sound, Busy, Unloading
<1> QED
  BY <1>5, <1>7, <1>8, <1>9, <1>10 DEF SafeInv, Sound, SafeNow, Up

LEMMA InsertContainsSafe ==
  ASSUME SafeNow, TypeInv', Safe', NEW t \in Threads, InsertContains(t)
  PROVE  SafeInv'
<1> DEFINE r == [op[t] EXCEPT !.pc = "insert"]
<1>1. op[t].pc = "contains" /\ op[t].name \in Names /\ ThreadOK(t)
  BY InHand, OpIs DEF InsertContains, At, HoldsMod, SafeNow, LocalOK, Loading
<1>2. /\ InsertFails(t) \/ (Goto(t, r) /\ life' = life)
      /\ UNCHANGED <<tree, table, name, id, ub>>
  BY <1>1, MappedIs DEF InsertContains
<1>3. CASE InsertFails(t)
  BY <1>1, <1>2, <1>3, InsertFailsSafe
<1>4. CASE Goto(t, r) /\ life' = life
  <2>1. op'[t] = r /\ Others(t)
    BY <1>4, GotoIs DEF SafeNow
  <2>2. op'[t].pc = "insert" /\ op'[t].mod = op[t].mod /\ op'[t].name = op[t].name
    BY <2>1, OpIs DEF SafeNow, OpType
  <2>3. ThreadOK(t)'
    BY <1>1, <1>2, <1>4, <2>1, <2>2 DEF ThreadOK, HoldsMod, Mapped, Nodes, Others
  <2>4. UnloadsAlone'
    BY <1>1, <2>1, <2>2, AloneGoesOn DEF SafeNow, Sound, Busy, Unloading
  <2> QED
    BY <1>2, <1>4, <2>1, <2>2, <2>3, <2>4, StillSafe DEF SafeNow, Up
<1> QED
  BY <1>2, <1>3, <1>4


LEMMA InsertNodeSafe ==
  ASSUME SafeNow, TypeInv', Safe', NEW t \in Threads, InsertNode(t)
  PROVE  SafeInv'
<1> DEFINE n == op[t].name
           m == op[t].mod
           r == [op[t] EXCEPT !.pc = "store"]
<1>1. op[t].pc = "insert" /\ n \in Names /\ ThreadOK(t) /\ m \in Mods /\ m # NULL /\ life[m] = "live"
  BY InHand, OpIs DEF InsertNode, At, HoldsMod, SafeNow, LocalOK, Loading
<1>2. /\ \/ InsertFails(t) /\ tree' = tree
         \/ /\ ~Has(tree, FoldedOrder, n) /\ tree' = Grow(tree, FoldedOrder, n, m)
            /\ Goto(t, r) /\ life' = life
      /\ UNCHANGED <<table, name, id, ub>>
  BY <1>1, MappedIs DEF InsertNode
<1>3. CASE InsertFails(t) /\ tree' = tree
  BY <1>1, <1>2, <1>3, InsertFailsSafe
<1>4. CASE /\ ~Has(tree, FoldedOrder, n) /\ tree' = Grow(tree, FoldedOrder, n, m)
           /\ Goto(t, r) /\ life' = life
  <2>1. op'[t] = r /\ Others(t)
    BY <1>4, GotoIs DEF SafeNow
  <2>2. op'[t].pc = "store" /\ op'[t].mod = m /\ op'[t].name = n
    BY <2>1, OpIs DEF SafeNow, OpType
  <2>3. ~InMap(n)
    BY <1>1, <1>4, MapIs DEF SafeNow, Sound, MapOK
  <2>4. Nodes' = Nodes \cup {Node(n, m)} /\ Whole'
    BY <1>1, <1>4, <2>3, GrowIs DEF SafeNow, Sound, MapOK
  <2>5. Node(n, m).key = n /\ Node(n, m).val = m
    BY DEF Node
  <2>6. \A k : Mapped(k)' <=> Mapped(k) \/ k = m
    BY <2>4, <2>5 DEF Mapped
  <2>7. ThreadOK(t)'
    BY <1>1, <1>2, <1>4, <2>2, <2>6 DEF ThreadOK, HoldsMod
  <2>8. ASSUME NEW u \in Threads \ {t} PROVE ThreadOK(u)'
    <3>1. op[u].mod # m /\ ThreadOK(u)
      BY <1>1 DEF ThreadOK, SafeNow, Sound
    <3>2. Mapped(op[u].mod)' <=> Mapped(op[u].mod)
      BY <2>1, <2>6, <3>1 DEF Others
    <3>3. op[u].pc \in {"remove", "free"} => \A j \in Ids : table'[j] # op[u].mod
      BY <1>2, <3>1 DEF ThreadOK
    <3>4. op[u].mod # NULL => life'[op[u].mod] = "live" /\ name'[op[u].mod] = name[op[u].mod]
      BY <1>2, <1>4, <3>1 DEF ThreadOK
    <3> QED
      BY <2>1, <2>2, <3>1, <3>2, <3>3, <3>4, OthersKept
  <2>9. MapOK'
    BY <1>1, <1>2, <1>4, <2>4, <2>5 DEF SafeNow, Sound, MapOK, ThreadOK
  <2>10. SlotsOK'
    BY <1>2, <2>6 DEF SafeNow, Sound, SlotsOK
  <2>11. UnloadsAlone'
    BY <1>1, <2>1, <2>2, AloneGoesOn DEF SafeNow, Sound, Busy, Unloading
  <2> QED
    BY <1>2, <2>7, <2>8, <2>9, <2>10, <2>11 DEF SafeInv, Sound, SafeNow, Up
<1> QED
  BY <1>2, <1>3, <1>4

LEMMA StoreSafe ==
  ASSUME SafeNow, TypeInv', Safe', NEW t \in Threads, Store(t)
  PROVE  SafeInv'
<1> DEFINE m == op[t].mod
<1>1. op[t].pc = "store" /\ ThreadOK(t) /\ m \in Mods /\ m # NULL /\ life[m] = "live"
  BY InHand DEF Store, At, HoldsMod
<1>2. /\ table' = [table EXCEPT ![id[m]] = m] /\ Finish(t, "ok")
      /\ UNCHANGED <<tree, objects, ub>>
  BY <1>1 DEF Store
<1>3. op'[t].pc \in {"idle", "ended"} /\ Others(t)
  BY <1>2, FinishIs DEF SafeNow
<1>4. op'[t].mod = NULL /\ ThreadOK(t)'
  BY <1>3, EmptyHanded DEF TypeInv, LocalsOK, HoldsMod
<1>5. Nodes' = Nodes /\ (\A k : Mapped(k)' <=> Mapped(k)) /\ Mapped(m)
  BY <1>1, <1>2 DEF Nodes, Mapped, ThreadOK, HoldsMod
<1>6. ASSUME NEW u \in Threads \ {t} PROVE ThreadOK(u)'
  <2>1. op[u].pc \notin Unloading
    BY <1>1 DEF SafeNow, Sound, UnloadsAlone, Busy
  <2>2. op[u].mod # NULL => life'[op[u].mod] = "live" /\ name'[op[u].mod] = name[op[u].mod]
    BY <1>2 DEF SafeNow, Sound, ThreadOK
  <2>3. Mapped(op[u].mod)' <=> Mapped(op[u].mod)
    BY <1>3, <1>5 DEF Others
  <2> QED
    BY <1>3, <1>4, <2>1, <2>2, <2>3, OthersKept DEF Unloading
<1>7. MapOK'
  BY <1>2, <1>5 DEF SafeNow, Sound, MapOK, Whole, Sorted, WalkFalls
<1>8. SlotsOK'
  <2>1. \A i \in Ids : table'[i] = IF i = id[m] THEN m ELSE table[i]
    BY <1>2, StillTyped DEF SafeNow
  <2> QED
    BY <1>2, <1>5, <2>1 DEF SafeNow, Sound, SlotsOK
<1>9. UnloadsAlone'
  BY <1>1, <1>3, AloneGoesOn DEF SafeNow, Sound, Busy, Unloading
<1> QED
  BY <1>2, <1>4, <1>6, <1>7, <1>8, <1>9 DEF SafeInv, Sound, SafeNow, Up

\* While a module is unloaded no other thread is in an opcode.
LEMMA OthersIdle ==
  ASSUME SafeNow, TypeInv', NEW t \in Threads, op[t].pc \in Unloading, Others(t)
  PROVE  \A u \in Threads \ {t} : op'[u].pc \in {"idle", "ended"} /\ op'[u].mod = NULL /\ ThreadOK(u)'
<1> SUFFICES ASSUME NEW u \in Threads \ {t}
             PROVE  op'[u].pc \in {"idle", "ended"} /\ op'[u].mod = NULL /\ ThreadOK(u)'
  OBVIOUS
<1>1. op'[u].pc \in {"idle", "ended"}
  BY DEF SafeNow, Sound, UnloadsAlone, Busy, Others
<1> QED
  BY <1>1, EmptyHanded DEF TypeInv, LocalsOK, HoldsMod

LEMMA ClearSlotSafe ==
  ASSUME SafeNow, TypeInv', Safe', NEW t \in Threads, ClearSlot(t)
  PROVE  SafeInv'
<1> DEFINE m == op[t].mod
           r == [op[t] EXCEPT !.pc = "remove"]
<1>1. op[t].pc = "clear" /\ ThreadOK(t) /\ m \in Mods /\ m # NULL /\ life[m] = "live"
  BY InHand DEF ClearSlot, At, HoldsMod
<1>2. /\ table' = [table EXCEPT ![id[m]] = NULL] /\ Goto(t, r)
      /\ UNCHANGED <<tree, objects, ub>>
  BY <1>1 DEF ClearSlot
<1>3. op'[t] = r /\ Others(t)
  BY <1>2, GotoIs DEF SafeNow
<1>4. op'[t].pc = "remove" /\ op'[t].mod = m /\ op'[t].name = op[t].name
  BY <1>3, OpIs DEF SafeNow, OpType
<1>5. Nodes' = Nodes /\ (\A k : Mapped(k)' <=> Mapped(k)) /\ Mapped(m)
  BY <1>1, <1>2 DEF Nodes, Mapped, ThreadOK, HoldsMod
<1>6. \A i \in Ids : table'[i] = IF i = id[m] THEN NULL ELSE table[i]
  BY <1>2, StillTyped DEF SafeNow
<1>7. \A i \in Ids : table'[i] # m
  BY <1>1, <1>6 DEF SafeNow, Sound, SlotsOK
<1>8. ThreadOK(t)'
  BY <1>1, <1>2, <1>4, <1>5, <1>7 DEF ThreadOK, HoldsMod
<1>9. \A u \in Threads \ {t} : ThreadOK(u)'
  BY <1>1, <1>3, OthersIdle DEF Unloading
<1>10. MapOK'
  BY <1>2, <1>5 DEF SafeNow, Sound, MapOK, Whole, Sorted, WalkFalls
<1>11. SlotsOK'
  BY <1>2, <1>5, <1>6 DEF SafeNow, Sound, SlotsOK
<1>12. UnloadsAlone'
  BY <1>1, <1>3, <1>4, AloneGoesOn DEF SafeNow, Sound, Busy, Unloading
<1> QED
  BY <1>2, <1>8, <1>9, <1>10, <1>11, <1>12 DEF SafeInv, Sound, SafeNow, Up

\* The module on its way out is the one the map has under its name.
LEMMA RemoveNameIs ==
  ASSUME SafeNow, Safe', NEW t \in Threads, RemoveName(t)
  PROVE  LET n == op[t].name
             m == op[t].mod
         IN  /\ op[t].pc = "remove" /\ n \in Names /\ m \in Mods /\ m # NULL /\ life[m] = "live" /\ name[m] = n
             /\ Node(n, m) \in Nodes
             /\ Nodes' = Nodes \ {Node(n, m)} /\ Whole'
             /\ Goto(t, [op[t] EXCEPT !.pc = "free"])
             /\ UNCHANGED <<table, objects, ret, ended, ub, held, overlap, lost>>
<1> DEFINE n == op[t].name
           m == op[t].mod
<1>1. op[t].pc = "remove" /\ ThreadOK(t) /\ m \in Mods /\ m # NULL /\ life[m] = "live"
  BY InHand DEF RemoveName, At, HoldsMod
<1>2. TypeInv /\ SameOrder /\ Whole
  BY DEF SafeNow, Sound, MapOK
<1>3. PICK x \in Nodes : x.val = m
  BY <1>1 DEF ThreadOK, HoldsMod, Mapped
<1>4. name[m] = n /\ x.key = n /\ x = Node(n, m) /\ n \in Names
  BY <1>1, <1>2, <1>3, NodeType DEF SafeNow, Sound, MapOK, ThreadOK
<1>5. Found(n) /\ ~Falls(tree, CaseOrder, n) /\ ~WalkFalls(tree)
  BY <1>2, <1>4, MapIs DEF InMap, Whole
<1>6. /\ tree' = Cut(tree, CaseOrder, n)
      /\ torn' = (torn \/ Below(tree, Stop(tree, CaseOrder, n)) # {})
      /\ Goto(t, [op[t] EXCEPT !.pc = "free"])
      /\ UNCHANGED <<table, objects, ret, ended, ub, held, overlap, lost>>
  BY <1>1, <1>5 DEF RemoveName
<1>7. Below(tree, Stop(tree, CaseOrder, n)) = {}
  BY <1>6 DEF Safe
<1>8. Nodes' = Nodes \ {Node(n, m)} /\ Whole'
  BY <1>2, <1>4, <1>6, <1>7, LeafCutIs
<1> QED
  BY <1>1, <1>4, <1>6, <1>8

LEMMA RemoveNameSafe ==
  ASSUME SafeNow, TypeInv', Safe', NEW t \in Threads, RemoveName(t)
  PROVE  SafeInv'
<1> DEFINE n == op[t].name
           m == op[t].mod
           r == [op[t] EXCEPT !.pc = "free"]
<1>1. /\ op[t].pc = "remove" /\ n \in Names /\ m \in Mods /\ m # NULL /\ life[m] = "live" /\ name[m] = n
      /\ Nodes' = Nodes \ {Node(n, m)} /\ Whole'
      /\ Goto(t, r) /\ UNCHANGED <<table, objects, ub>>
  BY RemoveNameIs
<1>2. op'[t] = r /\ Others(t)
  BY <1>1, GotoIs DEF SafeNow
<1>3. op'[t].pc = "free" /\ op'[t].mod = m
  BY <1>2, OpIs DEF SafeNow, OpType
<1>4. \A x \in Nodes : x.val = m => x = Node(n, m)
  BY <1>1, NodeType DEF SafeNow, Sound, MapOK
<1>5. ~Mapped(m)' /\ (\A k : k # m /\ Mapped(k) => Mapped(k)')
  BY <1>1, <1>3, <1>4 DEF Mapped, Node
<1>6. \A i \in Ids : table[i] # m
  BY <1>1 DEF SafeNow, Sound, ThreadOK
<1>7. ThreadOK(t)'
  BY <1>1, <1>3, <1>5, <1>6 DEF ThreadOK, HoldsMod
<1>8. \A u \in Threads \ {t} : ThreadOK(u)'
  BY <1>1, <1>2, OthersIdle DEF Unloading
<1>9. MapOK'
  BY <1>1 DEF SafeNow, Sound, MapOK
<1>10. SlotsOK'
  BY <1>1, <1>5, <1>6 DEF SafeNow, Sound, SlotsOK
<1>11. UnloadsAlone'
  BY <1>1, <1>2, <1>3, AloneGoesOn DEF SafeNow, Sound, Busy, Unloading
<1> QED
  BY <1>1, <1>7, <1>8, <1>9, <1>10, <1>11 DEF SafeInv, Sound, SafeNow, Up

LEMMA FreeModuleSafe ==
  ASSUME SafeNow, TypeInv', Safe', NEW t \in Threads, FreeModule(t)
  PROVE  SafeInv'
<1> DEFINE m == op[t].mod
<1>1. op[t].pc = "free" /\ ThreadOK(t) /\ m \in Mods /\ m # NULL /\ life[m] = "live"
  BY InHand DEF FreeModule, At, HoldsMod
<1>2. /\ life' = [life EXCEPT ![m] = "freed"] /\ After(t)
      /\ UNCHANGED <<tree, table, name, id, ub>>
  BY <1>1 DEF FreeModule
<1>3. op'[t].pc \in {"idle", "ended", "next"} /\ Others(t)
  BY <1>2, AfterIs DEF SafeNow
<1>4. ThreadOK(t)' /\ \A u \in Threads \ {t} : ThreadOK(u)'
  BY <1>1, <1>3, EmptyHanded, OthersIdle DEF Unloading, HoldsMod
<1>5. Nodes' = Nodes /\ (\A k : Mapped(k)' <=> Mapped(k)) /\ ~Mapped(m)
  BY <1>1, <1>2 DEF Nodes, Mapped, ThreadOK
<1>6. \A k \in Mods \ {m} : life'[k] = life[k]
  BY <1>2, StillTyped DEF SafeNow
<1>7. MapOK'
  <2>1. \A x \in Nodes : x.val \in Mods \ {m}
    BY <1>5, NodeType DEF SafeNow, Sound, MapOK, Mapped
  <2> QED
    BY <1>2, <1>5, <1>6, <2>1 DEF SafeNow, Sound, MapOK, Whole, Sorted, WalkFalls
<1>8. SlotsOK'
  BY <1>2, <1>5 DEF SafeNow, Sound, SlotsOK
<1>9. UnloadsAlone'
  BY <1>1, <1>3, AloneGoesOn DEF SafeNow, Sound, Busy, Unloading
<1> QED
  BY <1>2, <1>4, <1>7, <1>8, <1>9 DEF SafeInv, Sound, SafeNow, Up

LEMMA VmFreeSafe ==
  ASSUME SafeNow, VmFree
  PROVE  SafeInv'
<1>1. ~WalkFalls(tree) /\ ~ \E m \in MappedMods : life[m] = "freed"
  BY DEF SafeNow, Sound, MapOK, Whole, MappedMods, Nodes
<1>2. ended' /\ ub' = ub
  BY <1>1 DEF VmFree, MappedMods
<1> QED
  BY <1>2 DEF SafeInv, Up, SafeNow

LEMMA StepSafe ==
  ASSUME SafeNow, TypeInv', Safe', NEW t \in Threads, Step(t)
  PROVE  SafeInv'
<1>1. Step(t) => \/ Private(t) \/ HitWrite(t) \/ Alloc(t) \/ InsertContains(t) \/ InsertNode(t)
                 \/ Store(t) \/ CountWrite(t) \/ ClearSlot(t) \/ RemoveName(t) \/ FreeModule(t)
  BY Zenon DEF Step, Private
<1> QED
  BY <1>1, PrivateSafe, HitWriteSafe, AllocSafe, InsertContainsSafe, InsertNodeSafe, StoreSafe,
     CountWriteSafe, ClearSlotSafe, RemoveNameSafe, FreeModuleSafe


\* What was unsafe or not tame stays so.
LEMMA UnsafeStays == [Next]_vars => (Safe' => Safe) /\ (Tame' => Tame)
<1> SUFFICES ASSUME [Next]_vars, (Safe' /\ ~Safe) \/ (Tame' /\ ~Tame) PROVE FALSE
  OBVIOUS
<1>1. ASSUME NEW t, NEW kind, Begins(t, kind)
      PROVE  /\ overlap = "unloads" => overlap' = "unloads"
             /\ overlap' = "none" => overlap = "none"
  <2>1. \E met : overlap' = IF overlap = "unloads" \/ "unload" \in met THEN "unloads"
                           ELSE IF "load" \in met THEN "loads" ELSE overlap
    BY <1>1, Zenon DEF Begins
  <2> QED
    BY <2>1
<1>2. ASSUME NEW t \in Threads, Step(t) PROVE FALSE
  <2>1. ASSUME NEW n \in Names, LoadLookup(t, n) \/ UnloadLookup(t, n) \/ OpByName(t, n) PROVE FALSE
    BY <1>1, <2>1 DEF LoadLookup, UnloadLookup, OpByName, Undefined, Safe, Tame
  <2>2. ASSUME NEW i \in 0 .. Slots + 1, UnloadId(t, i) \/ OpById(t, i) PROVE FALSE
    BY <1>1, <2>2 DEF UnloadId, OpById, Undefined, Safe, Tame
  <2>3. ASSUME UnloadAll(t) PROVE FALSE
    BY <1>1, <2>3 DEF UnloadAll, Safe, Tame
  <2>4. ASSUME \/ HitRead(t) \/ HitWrite(t) \/ LoadFails(t) \/ AllocBad(t) \/ AllocFails(t) \/ Alloc(t)
               \/ InsertContains(t) \/ InsertNode(t) \/ Store(t)
        PROVE  FALSE
    BY <2>4 DEF HitRead, HitWrite, LoadFails, AllocBad, AllocFails, Alloc, InsertContains,
                InsertNode, Store, Undefined, Safe, Tame
  <2>5. ASSUME \/ UnloadReadId(t) \/ ReadSlot(t) \/ CountRead(t) \/ CountWrite(t)
               \/ ClearSlot(t) \/ FreeModule(t) \/ Call(t)
        PROVE  FALSE
    BY <2>5 DEF UnloadReadId, ReadSlot, CountRead, CountWrite, ClearSlot, FreeModule, Call,
                Undefined, Safe, Tame
  <2>6. ASSUME RemoveName(t) PROVE FALSE
    <3>1. overlap' = overlap
      BY <2>6 DEF RemoveName, Undefined
    <3>2. ASSUME torn PROVE torn'
      BY <2>6, <3>2 DEF RemoveName, Undefined
    <3> QED
      BY <3>1, <3>2 DEF Safe, Tame
  <2> QED
    BY <1>2, <2>1, <2>2, <2>3, <2>4, <2>5, <2>6, Zenon DEF Step
<1>3. ASSUME VmFree PROVE FALSE
  BY <1>3 DEF VmFree, Undefined, Safe, Tame
<1>4. ASSUME UNCHANGED vars PROVE FALSE
  BY <1>4 DEF Safe, Tame
<1> QED
  BY <1>2, <1>3, <1>4 DEF Next, Stopped

LEMMA InitSafe == Init => SafeInv
<1> SUFFICES ASSUME Init PROVE Sound /\ ub = "none"
  BY DEF SafeInv
<1>1. Nodes = {} /\ Whole
  BY EmptyShape DEF Init, Nodes, Whole, WalkFalls, Empty
<1>2. MapOK /\ SlotsOK
  BY <1>1 DEF Init, MapOK, SlotsOK
<1>3. \A t \in Threads : op[t].pc = "idle" /\ op[t].mod = NULL
  BY DEF Init, Idle
<1>4. \A t \in Threads : ThreadOK(t)
  BY <1>3 DEF ThreadOK, HoldsMod
<1>5. UnloadsAlone
  BY <1>3 DEF UnloadsAlone, Unloading
<1> QED
  BY <1>2, <1>4, <1>5 DEF Sound, Init

\* A step of a thread, or the end of the machine, needs a running machine.
LEMMA StepsRun ==
  ASSUME (\E t \in Threads : Step(t)) \/ VmFree
  PROVE  Up
<1>1. ASSUME NEW t \in Threads, Step(t) PROVE Up
  <2>1. Step(t) => \E pc : At(t, pc)
    BY Zenon DEF Step, LoadLookup, UnloadLookup, OpByName, UnloadId, OpById, UnloadAll, HitRead,
       HitWrite, LoadFails, AllocBad, AllocFails, Alloc, InsertContains, InsertNode, Store,
       UnloadReadId, ReadSlot, CountRead, CountWrite, ClearSlot, RemoveName, FreeModule, Call
  <2> QED
    BY <1>1, <2>1 DEF At, Up
<1> QED
  BY <1>1 DEF VmFree, Up

LEMMA NextSafe == TypeInv /\ SameOrder /\ SafeInv /\ [Next]_vars => SafeInv'
<1> SUFFICES ASSUME TypeInv, SameOrder, SafeInv, [Next]_vars, Safe' PROVE SafeInv'
  BY DEF SafeInv
<1>1. TypeInv' /\ Safe
  BY NextType, UnsafeStays
<1>2. CASE UNCHANGED vars
  BY <1>2 DEF SafeInv, Safe, Up, Sound, UnloadsAlone, Busy, MapOK, Whole, WalkFalls, Sorted, Nodes,
              SlotsOK, Mapped, ThreadOK
<1>3. ASSUME NEW t \in Threads, Step(t) PROVE SafeInv'
  <2>1. Up
    BY <1>3, StepsRun
  <2>2. SafeNow
    BY <1>1, <2>1 DEF SafeNow, SafeInv
  <2> QED
    BY <1>1, <1>3, <2>2, StepSafe
<1>4. ASSUME VmFree PROVE SafeInv'
  <2>1. SafeNow
    BY <1>1, <1>4 DEF SafeNow, SafeInv, VmFree, Up
  <2> QED
    BY <1>4, <2>1, VmFreeSafe
<1> QED
  BY <1>2, <1>3, <1>4 DEF Next, Stopped

-----------------------------------------------------------------------------
\* Agreement.  As long as no load or unload has overlapped another opcode, the
\* counts, the slots and the map differ only by what the one opcode in
\* progress has still to do.

Alone == \A t, u \in Threads : t # u /\ op[t].pc \in Loading \cup Unloading => ~Busy(u)
In(t, pcs, m) == op[t].pc \in pcs /\ op[t].mod = m

HeldOK ==
  \A n \in Names :
    /\ held[n] > 0 => InMap(n)
    /\ InMap(n) /\ held[n] = 0 =>
         \E t \in Threads : op[t].pc \in {"store", "clear", "remove"} /\ op[t].name = n
CountsOK ==
  \A x \in Nodes :
    /\ refs[x.val] = held[x.key] \/ \E t \in Threads : In(t, {"store"}, x.val)
    /\ table[id[x.val]] = x.val \/ \E t \in Threads : In(t, {"store", "remove"}, x.val)
LiveOK ==
  \A m \in Mods : life[m] = "live" =>
    Mapped(m) \/ \E t \in Threads : In(t, {"contains", "insert", "free"}, m)
PlaceOK(t) ==
  LET m == op[t].mod IN
  /\ op[t].pc \in {"find", "contains", "insert"} => ~InMap(op[t].name)
  /\ op[t].pc \in {"contains", "insert", "store"} =>
       refs[m] = 1 /\ table[id[m]] = NULL /\ held[op[t].name] = 0
  /\ op[t].pc = "hitWrite" => op[t].n = refs[m] + 1
  /\ op[t].pc = "countWrite" => op[t].n = refs[m]
  /\ op[t].pc \in {"clear", "remove"} => held[op[t].name] = 0

Exact   == Alone /\ HeldOK /\ CountsOK /\ LiveOK /\ \A t \in Threads : PlaceOK(t)
TameInv == Tame => /\ ~lost
                   /\ Up => Exact
                   /\ ended => \A m \in Mods : life[m] # "live"

ExactNow == SafeNow /\ Tame /\ ~lost /\ Exact

\* The places of a thread whose opcode leaves something to do.
Pending == {"contains", "insert", "store", "clear", "remove", "free"}

LEMMA PlacelessOK ==
  ASSUME NEW t \in Threads, op[t].pc \in {"idle", "ended", "next", "resolved", "count", "call", "hit", "free"}
  PROVE  PlaceOK(t)
  BY DEF PlaceOK

LEMMA AloneStays ==
  ASSUME Alone, NEW t \in Threads, Others(t), Busy(t)' => Busy(t),
         op'[t].pc \in Loading \cup Unloading => op[t].pc \in Loading \cup Unloading
  PROVE  Alone'
  BY DEF Alone, Others, Busy

LEMMA BeginsTame ==
  ASSUME TypeInv, NEW t \in Threads, NEW kind, Begins(t, kind), overlap' = "none"
  PROVE  \A u \in Threads \ {t} : Busy(u) => kind \notin {"load", "unload"} /\ Kind(u) = "call"
<1> SUFFICES ASSUME NEW u \in Threads \ {t}, Busy(u), kind \in {"load", "unload"} \/ Kind(u) # "call"
             PROVE  FALSE
  OBVIOUS
<1> DEFINE others == {Kind(v) : v \in {w \in Threads \ {t} : Busy(w)}}
           met    == IF others = {} THEN {} ELSE others \cup {kind}
<1>1. Kind(u) \in others
  OBVIOUS
<1>2. Kind(u) \in {"load", "call", "unload"}
  BY DEF Kind
<1>3. "unload" \in met \/ "load" \in met
  BY <1>1, <1>2
<1>4. overlap' = IF overlap = "unloads" \/ "unload" \in met THEN "unloads"
                 ELSE IF "load" \in met THEN "loads" ELSE overlap
  BY DEF Begins
<1> QED
  BY <1>3, <1>4

LEMMA AloneStarts ==
  ASSUME TypeInv, Alone, NEW t \in Threads, Others(t), NEW kind, Begins(t, kind),
         overlap' = "none", op'[t].pc \in Loading \cup Unloading => kind \in {"load", "unload"}
  PROVE  Alone'
<1> SUFFICES ASSUME NEW a \in Threads, NEW b \in Threads, a # b, op'[a].pc \in Loading \cup Unloading
             PROVE  ~Busy(b)'
  BY DEF Alone
<1>1. \A u \in Threads \ {t} : Busy(u) => kind \notin {"load", "unload"} /\ Kind(u) = "call"
  BY BeginsTame
<1>2. CASE a = t
  BY <1>1, <1>2 DEF Others, Busy
<1>3. CASE a # t
  <2>1. op[a].pc \in Loading \cup Unloading /\ Busy(a) /\ Kind(a) # "call"
    BY <1>3 DEF Others, Busy, Kind, Unloading, Loading, Calling
  <2> QED
    BY <1>1, <1>3, <2>1
<1> QED
  BY <1>2, <1>3

\* While a thread loads or unloads the others are in no opcode.
LEMMA OnlyMe ==
  ASSUME ExactNow, NEW t \in Threads, op[t].pc \in Loading \cup Unloading
  PROVE  \A u \in Threads \ {t} : op[u].pc \in {"idle", "ended"}
  BY DEF ExactNow, Exact, Alone, Busy

LEMMA OnlyMeThen ==
  ASSUME ExactNow, NEW t \in Threads, op[t].pc \in Loading \cup Unloading, Others(t)
  PROVE  \A u \in Threads \ {t} : op'[u].pc \in {"idle", "ended"} /\ PlaceOK(u)'
<1> SUFFICES ASSUME NEW u \in Threads \ {t} PROVE op'[u].pc \in {"idle", "ended"} /\ PlaceOK(u)'
  OBVIOUS
<1>1. op'[u].pc \in {"idle", "ended"}
  BY OnlyMe DEF Others
<1> QED
  BY <1>1 DEF PlaceOK

\* What the map, the slots and the counts say while nothing is left to do.
LEMMA NothingPending ==
  ASSUME ExactNow, NEW t \in Threads, op[t].pc \notin Pending,
         \A u \in Threads \ {t} : op[u].pc \notin Pending
  PROVE  /\ \A n \in Names : InMap(n) <=> held[n] > 0
         /\ \A x \in Nodes : refs[x.val] = held[x.key] /\ table[id[x.val]] = x.val
         /\ \A m \in Mods : life[m] = "live" => Mapped(m)
<1>1. \A u \in Threads : op[u].pc \notin Pending
  OBVIOUS
<1>2. \A n \in Names : held[n] \in Nat
  BY StillTyped DEF ExactNow, SafeNow
<1> QED
  BY <1>1, <1>2 DEF ExactNow, Exact, HeldOK, CountsOK, LiveOK, In, Pending

\* A step that changes the opcode of its thread only.
LEMMA StillExact ==
  ASSUME ExactNow, NEW t \in Threads, UNCHANGED <<tree, table, objects, ended, held, lost>>, Others(t),
         op[t].pc \notin Pending, PlaceOK(t)', Alone'
  PROVE  TameInv'
<1>1. Nodes' = Nodes /\ (\A m : Mapped(m)' <=> Mapped(m)) /\ (\A n : InMap(n)' <=> InMap(n))
  BY DEF Nodes, Mapped, InMap
<1>2. \A u \in Threads : op[u].pc \in Pending => u # t /\ op'[u] = op[u]
  BY DEF Others
<1>3. ASSUME NEW u \in Threads \ {t} PROVE PlaceOK(u)'
  <2>1. op'[u] = op[u] /\ PlaceOK(u)
    BY DEF Others, ExactNow, Exact
  <2>2. InMap(op[u].name)' <=> InMap(op[u].name)
    BY <1>1, <2>1
  <2> QED
    BY <2>1, <2>2 DEF PlaceOK
<1>4. HeldOK'
  <2> SUFFICES ASSUME NEW n \in Names
               PROVE  /\ held[n] > 0 => InMap(n)
                      /\ InMap(n) /\ held[n] = 0 =>
                           \E u \in Threads : op'[u].pc \in {"store", "clear", "remove"} /\ op'[u].name = n
    BY <1>1 DEF HeldOK
  <2> QED
    BY <1>2 DEF ExactNow, Exact, HeldOK, Pending
<1>5. CountsOK'
  <2> SUFFICES ASSUME NEW x \in Nodes
               PROVE  /\ refs[x.val] = held[x.key] \/
                           \E u \in Threads : op'[u].pc \in {"store"} /\ op'[u].mod = x.val
                      /\ table[id[x.val]] = x.val \/
                           \E u \in Threads : op'[u].pc \in {"store", "remove"} /\ op'[u].mod = x.val
    BY <1>1 DEF CountsOK, In
  <2> QED
    BY <1>2 DEF ExactNow, Exact, CountsOK, Pending, In
<1>6. LiveOK'
  <2> SUFFICES ASSUME NEW m \in Mods, life[m] = "live"
               PROVE  Mapped(m) \/
                        \E u \in Threads : op'[u].pc \in {"contains", "insert", "free"} /\ op'[u].mod = m
    BY <1>1 DEF LiveOK, In
  <2> QED
    BY <1>2 DEF ExactNow, Exact, LiveOK, Pending, In
<1> QED
  BY <1>3, <1>4, <1>5, <1>6 DEF TameInv, Exact, ExactNow, SafeNow, Up

LEMMA UndefinedExact ==
  ASSUME ExactNow, ub' # "none", UNCHANGED <<ended, lost>>
  PROVE  TameInv'
  BY DEF TameInv, ExactNow, SafeNow, Up


LEMMA ByNameExact ==
  ASSUME ExactNow, TypeInv', Tame', NEW t \in Threads, NEW n \in Names,
         LoadLookup(t, n) \/ UnloadLookup(t, n) \/ OpByName(t, n)
  PROVE  TameInv'
<1>0. TypeInv /\ Alone /\ op[t].pc \notin Pending /\ overlap' = "none" /\ ~Falls(tree, CaseOrder, n)
      /\ (Found(n) <=> InMap(n))
  BY MapIs, MappedIs DEF ExactNow, SafeNow, Sound, MapOK, Exact, Tame, LoadLookup, UnloadLookup,
                         OpByName, At, Pending
<1>1. CASE LoadLookup(t, n)
  <2> DEFINE m  == Value(tree, CaseOrder, n)
             r1 == [Idle EXCEPT !.pc = "hit", !.name = n, !.mod = m]
             r2 == [Idle EXCEPT !.pc = "find", !.name = n, !.multi = TRUE]
             r  == IF Found(n) THEN r1 ELSE r2
  <2>1. /\ Goto(t, r) /\ Begins(t, "load") /\ UNCHANGED <<tree, table, objects, ended, held, lost>>
    BY <1>0, <1>1 DEF LoadLookup
  <2>2. op'[t] = r /\ Others(t)
    BY <1>0, <2>1, GotoIs
  <2>3. Alone'
    BY <1>0, <2>1, <2>2, AloneStarts
  <2>4. PlaceOK(t)'
    <3>1. CASE Found(n)
      BY <2>2, <3>1 DEF PlaceOK, Idle
    <3>2. CASE ~Found(n)
      <4>1. op'[t].pc = "find" /\ op'[t].name = n
        BY <2>2, <3>2 DEF Idle
      <4> QED
        BY <1>0, <2>1, <3>2, <4>1 DEF PlaceOK, InMap, Nodes
    <3> QED
      BY <3>1, <3>2
  <2> QED
    BY <1>0, <2>1, <2>2, <2>3, <2>4, StillExact
<1>2. CASE UnloadLookup(t, n)
  <2> DEFINE m == Value(tree, CaseOrder, n)
             r == [Idle EXCEPT !.pc = "resolved", !.mod = m]
  <2>1. /\ Goto(t, r) \/ Finish(t, "ok")
        /\ Begins(t, "unload") /\ UNCHANGED <<tree, table, objects, ended, held, lost>>
    BY <1>0, <1>2 DEF UnloadLookup
  <2>2. op'[t].pc \in {"idle", "ended", "resolved"} /\ Others(t)
    <3>1. CASE Goto(t, r)
      <4>1. op'[t] = r /\ Others(t)
        BY <1>0, <3>1, GotoIs
      <4> QED
        BY <4>1 DEF Idle
    <3>2. CASE Finish(t, "ok")
      BY <1>0, <3>2, FinishIs
    <3> QED
      BY <2>1, <3>1, <3>2
  <2>3. Alone'
    BY <1>0, <2>1, <2>2, AloneStarts
  <2>4. PlaceOK(t)'
    BY <2>2 DEF PlaceOK
  <2> QED
    BY <1>0, <2>1, <2>2, <2>3, <2>4, StillExact
<1>3. CASE OpByName(t, n)
  <2> DEFINE m == Value(tree, CaseOrder, n)
             r == [Idle EXCEPT !.pc = "call", !.mod = m]
  <2>1. /\ Found(n) => Goto(t, r) /\ lost' = lost
        /\ ~Found(n) => Finish(t, "fault") /\ lost' = (lost \/ (n # NULL /\ held[n] > 0))
        /\ Begins(t, "call") /\ UNCHANGED <<tree, table, objects, ended, held>>
    BY <1>0, <1>3 DEF OpByName, OpUnloaded
  <2>2. op'[t].pc \in {"idle", "ended", "call"} /\ Others(t)
    <3>1. CASE Found(n)
      <4>1. op'[t] = r /\ Others(t)
        BY <1>0, <2>1, <3>1, GotoIs
      <4> QED
        BY <4>1 DEF Idle
    <3>2. CASE ~Found(n)
      BY <1>0, <2>1, <3>2, FinishIs
    <3> QED
      BY <3>1, <3>2
  <2>3. ~Found(n) => ~(held[n] > 0)
    BY <1>0 DEF ExactNow, Exact, HeldOK
  <2>4. lost' = lost
    <3>1. lost \in BOOLEAN
      BY <1>0, StillTyped
    <3> QED
      BY <2>1, <2>3, <3>1
  <2>5. Alone'
    BY <1>0, <2>1, <2>2, AloneStarts DEF Loading, Unloading
  <2>6. PlaceOK(t)'
    BY <2>2 DEF PlaceOK
  <2> QED
    BY <1>0, <2>1, <2>2, <2>4, <2>5, <2>6, StillExact
<1> QED
  BY <1>1, <1>2, <1>3

LEMMA ByNumberExact ==
  ASSUME ExactNow, TypeInv', Tame', NEW t \in Threads, NEW i \in 0 .. Slots + 1,
         UnloadId(t, i) \/ OpById(t, i) \/ UnloadAll(t)
  PROVE  TameInv'
<1>0. TypeInv /\ Alone /\ op[t].pc \notin Pending /\ overlap' = "none"
  BY DEF ExactNow, SafeNow, Exact, Tame, UnloadId, OpById, UnloadAll, At, Pending
<1>1. CASE UnloadId(t, i) \/ UnloadAll(t)
  <2> DEFINE r1 == [Idle EXCEPT !.pc = "next", !.n = i]
             r2 == [Idle EXCEPT !.pc = "next", !.all = TRUE]
  <2>1. /\ Goto(t, r1) \/ Goto(t, r2) \/ Finish(t, "fault")
        /\ Begins(t, "unload") /\ UNCHANGED <<tree, table, objects, ended, held, lost>>
    BY <1>1 DEF UnloadId, UnloadAll
  <2>2. op'[t].pc \in {"idle", "ended", "next"} /\ Others(t)
    <3>1. CASE Goto(t, r1)
      <4>1. op'[t] = r1 /\ Others(t)
        BY <1>0, <3>1, GotoIs
      <4> QED
        BY <4>1 DEF Idle
    <3>2. CASE Goto(t, r2)
      <4>1. op'[t] = r2 /\ Others(t)
        BY <1>0, <3>2, GotoIs
      <4> QED
        BY <4>1 DEF Idle
    <3>3. CASE Finish(t, "fault")
      BY <1>0, <3>3, FinishIs
    <3> QED
      BY <2>1, <3>1, <3>2, <3>3
  <2>3. Alone'
    BY <1>0, <2>1, <2>2, AloneStarts
  <2>4. PlaceOK(t)'
    BY <2>2 DEF PlaceOK
  <2> QED
    BY <1>0, <2>1, <2>2, <2>3, <2>4, StillExact
<1>2. CASE OpById(t, i) /\ i = Slots
  BY <1>2, UndefinedExact DEF OpById, Undefined
<1>3. CASE OpById(t, i) /\ i # Slots
  <2> DEFINE r == [Idle EXCEPT !.pc = "call", !.mod = table[i]]
  <2>1. /\ Goto(t, r) \/ Finish(t, "fault")
        /\ Begins(t, "call") /\ UNCHANGED <<tree, table, objects, ended, held>>
    BY <1>3 DEF OpById, OpUnloaded
  <2>2. op'[t].pc \in {"idle", "ended", "call"} /\ Others(t)
    <3>1. CASE Goto(t, r)
      <4>1. op'[t] = r /\ Others(t)
        BY <1>0, <3>1, GotoIs
      <4> QED
        BY <4>1 DEF Idle
    <3>2. CASE Finish(t, "fault")
      BY <1>0, <3>2, FinishIs
    <3> QED
      BY <2>1, <3>1, <3>2
  <2>3. lost' = lost
    <3>1. lost \in BOOLEAN
      BY <1>0, StillTyped
    <3>2. lost' = lost \/ lost' = (lost \/ (NULL # NULL /\ held[NULL] > 0))
      BY <1>3, Zenon DEF OpById, OpUnloaded
    <3> QED
      BY <3>1, <3>2
  <2>4. Alone'
    BY <1>0, <2>1, <2>2, AloneStarts DEF Loading, Unloading
  <2>5. PlaceOK(t)'
    BY <2>2 DEF PlaceOK
  <2> QED
    BY <1>0, <2>1, <2>2, <2>3, <2>4, <2>5, StillExact
<1> QED
  BY <1>1, <1>2, <1>3

LEMMA HitReadExact ==
  ASSUME ExactNow, NEW t \in Threads, HitRead(t)
  PROVE  TameInv'
<1> DEFINE m == op[t].mod
           r == [op[t] EXCEPT !.pc = "hitWrite", !.n = refs[m] + 1]
<1>0. SafeNow /\ TypeInv /\ Alone
  BY DEF ExactNow, SafeNow, Exact
<1>1. op[t].pc = "hit" /\ life[m] = "live"
  BY <1>0, InHand DEF HitRead, At, HoldsMod
<1>2. Goto(t, r) /\ UNCHANGED <<tree, table, objects, ended, held, lost>>
  BY <1>1 DEF HitRead
<1>3. op'[t] = r /\ Others(t)
  BY <1>0, <1>2, GotoIs
<1>4. op'[t].pc = "hitWrite" /\ op'[t].mod = m /\ op'[t].n = refs[m] + 1
  BY <1>0, <1>3, OpIs DEF OpType
<1>5. PlaceOK(t)'
  BY <1>2, <1>4 DEF PlaceOK
<1>6. Alone'
  BY <1>0, <1>1, <1>3, <1>4, AloneStays DEF Busy, Loading
<1> QED
  BY <1>1, <1>2, <1>3, <1>5, <1>6, StillExact DEF Pending

LEMMA LoadEndsExact ==
  ASSUME ExactNow, NEW t \in Threads, LoadFails(t) \/ AllocBad(t) \/ AllocFails(t)
  PROVE  TameInv'
<1>0. TypeInv /\ Alone /\ op[t].pc = "find" /\ ~InMap(op[t].name)
  BY DEF ExactNow, SafeNow, Exact, PlaceOK, LoadFails, AllocBad, AllocFails, At
<1>1. UNCHANGED <<tree, table, objects, ended, held, lost>>
  BY DEF LoadFails, AllocBad, AllocFails
<1>2. CASE ub' = "uninitialized"
  BY <1>1, <1>2, UndefinedExact
<1>3. CASE Finish(t, "error") \/ Retry(t)
  <2>1. /\ op'[t].pc \in {"idle", "ended"} \/ (op'[t].pc = "find" /\ op'[t].name = op[t].name)
        /\ Others(t)
    BY <1>0, <1>3, FinishIs, RetryIs
  <2>2. PlaceOK(t)'
    BY <1>0, <1>1, <2>1 DEF PlaceOK, InMap, Nodes
  <2>3. Alone'
    BY <1>0, <2>1, AloneStays DEF Busy, Loading, Unloading
  <2> QED
    BY <1>0, <1>1, <2>1, <2>2, <2>3, StillExact DEF Pending
<1> QED
  BY <1>2, <1>3 DEF LoadFails, AllocBad, AllocFails

LEMMA UnloadReadsExact ==
  ASSUME ExactNow, TypeInv', NEW t \in Threads, UnloadReadId(t) \/ ReadSlot(t) \/ CountRead(t) \/ Call(t)
  PROVE  TameInv'
<1> DEFINE m == op[t].mod
<1>0. SafeNow /\ TypeInv /\ Alone
  BY DEF ExactNow, SafeNow, Exact
<1>1. CASE UnloadReadId(t)
  <2> DEFINE r == [Idle EXCEPT !.pc = "next", !.n = id[m]]
  <2>1. op[t].pc = "resolved" /\ life[m] = "live"
    BY <1>0, <1>1, InHand DEF UnloadReadId, At, HoldsMod
  <2>2. Goto(t, r) /\ UNCHANGED <<tree, table, objects, ended, held, lost>>
    BY <1>1, <2>1 DEF UnloadReadId
  <2>3. op'[t] = r /\ Others(t)
    BY <1>0, <2>2, GotoIs
  <2>4. op'[t].pc = "next"
    BY <2>3 DEF Idle
  <2>5. PlaceOK(t)'
    BY <2>4 DEF PlaceOK
  <2>6. Alone'
    BY <1>0, <2>1, <2>3, <2>4, AloneStays DEF Busy, Unloading
  <2> QED
    BY <2>1, <2>2, <2>3, <2>5, <2>6, StillExact DEF Pending
<1>2. CASE ReadSlot(t)
  <2> DEFINE i  == op[t].n
             r1 == [op[t] EXCEPT !.n = i + 1]
             r2 == [op[t] EXCEPT !.pc = "count", !.mod = table[i]]
             r  == IF table[i] = NULL THEN r1 ELSE r2
  <2>1. op[t].pc = "next" /\ op[t] \in OpType
    BY <1>0, <1>2, OpIs DEF ReadSlot, At
  <2>2. UNCHANGED <<tree, table, objects, ended, held, lost>>
    BY <1>2 DEF ReadSlot, Undefined
  <2>3. CASE ub' = "out_of_bounds"
    BY <2>2, <2>3, UndefinedExact
  <2>4. CASE Finish(t, "ok") \/ Goto(t, r)
    <3>1. op'[t].pc \in {"idle", "ended", "next", "count"} /\ Others(t)
      <4>1. CASE Finish(t, "ok")
        BY <1>0, <4>1, FinishIs
      <4>2. CASE Goto(t, r)
        <5>1. op'[t] = r /\ Others(t)
          BY <1>0, <4>2, GotoIs
        <5>2. r1.pc = "next" /\ r2.pc = "count"
          BY <2>1 DEF OpType
        <5> QED
          BY <5>1, <5>2
      <4> QED
        BY <2>4, <4>1, <4>2
    <3>2. PlaceOK(t)'
      BY <3>1 DEF PlaceOK
    <3>3. Alone'
      BY <1>0, <2>1, <3>1, AloneStays DEF Busy, Unloading
    <3> QED
      BY <2>1, <2>2, <3>1, <3>2, <3>3, StillExact DEF Pending
  <2> QED
    BY <1>2, <2>3, <2>4, Zenon DEF ReadSlot, Undefined
<1>3. CASE CountRead(t)
  <2> DEFINE r == [op[t] EXCEPT !.pc = "countWrite", !.name = name[m], !.n = refs[m]]
  <2>1. op[t].pc = "count" /\ life[m] = "live"
    BY <1>0, <1>3, InHand DEF CountRead, At, HoldsMod
  <2>2. Goto(t, r) /\ UNCHANGED <<tree, table, objects, ended, held, lost>>
    BY <1>3, <2>1 DEF CountRead
  <2>3. op'[t] = r /\ Others(t)
    BY <1>0, <2>2, GotoIs
  <2>4. op'[t].pc = "countWrite" /\ op'[t].mod = m /\ op'[t].n = refs[m]
    BY <1>0, <2>3, OpIs DEF OpType
  <2>5. PlaceOK(t)'
    BY <2>2, <2>4 DEF PlaceOK
  <2>6. Alone'
    BY <1>0, <2>1, <2>3, <2>4, AloneStays DEF Busy, Unloading
  <2> QED
    BY <2>1, <2>2, <2>3, <2>5, <2>6, StillExact DEF Pending
<1>4. CASE Call(t)
  <2>1. op[t].pc = "call" /\ life[m] = "live"
    BY <1>0, <1>4, InHand DEF Call, At, HoldsMod
  <2>2. Finish(t, "ok") /\ UNCHANGED <<tree, table, objects, ended, held, lost>>
    BY <1>4, <2>1 DEF Call
  <2>3. op'[t].pc \in {"idle", "ended"} /\ Others(t)
    BY <1>0, <2>2, FinishIs
  <2>4. PlaceOK(t)'
    BY <2>3 DEF PlaceOK
  <2>5. Alone'
    BY <1>0, <2>1, <2>3, AloneStays DEF Busy, Loading, Unloading
  <2> QED
    BY <2>1, <2>2, <2>3, <2>4, <2>5, StillExact DEF Pending
<1> QED
  BY <1>1, <1>2, <1>3, <1>4

LEMMA PrivateExact ==
  ASSUME ExactNow, TypeInv', Tame', NEW t \in Threads, Private(t)
  PROVE  TameInv'
<1>1. 0 \in 0 .. Slots + 1
  BY ModuleTableOK
<1> QED
  BY <1>1, ByNameExact, ByNumberExact, HitReadExact, LoadEndsExact, UnloadReadsExact DEF Private


\* The node of a module that is in the map.
LEMMA ThisNode ==
  ASSUME SafeNow, NEW t \in Threads,
         op[t].pc \in {"hit", "hitWrite", "store", "countWrite", "clear", "remove"}
  PROVE  LET m == op[t].mod
             n == op[t].name
         IN  /\ m \in Mods /\ n \in Names /\ Node(n, m) \in Nodes /\ InMap(n) /\ Mapped(m)
             /\ \A x \in Nodes : x.val = m <=> x.key = n
<1> DEFINE m == op[t].mod
           n == op[t].name
<1>1. ThreadOK(t) /\ m \in Mods /\ TypeInv /\ SameOrder /\ MapOK /\ Whole
  BY InHand DEF HoldsMod, SafeNow, Sound, MapOK
<1>2. PICK x \in Nodes : x.val = m
  BY <1>1 DEF ThreadOK, HoldsMod, Mapped
<1>3. x.key = n /\ x = Node(n, m) /\ n \in Names
  BY <1>1, <1>2, NodeType DEF ThreadOK, MapOK
<1>4. ASSUME NEW y \in Nodes PROVE y.val = m <=> y.key = n
  <2>1. y.val = m => y.key = n
    BY <1>1, <1>3 DEF ThreadOK, MapOK
  <2>2. y.key = n => y = x
    BY <1>1, <1>3, OneNode
  <2> QED
    BY <1>2, <2>1, <2>2
<1> QED
  BY <1>1, <1>2, <1>3, <1>4 DEF InMap, Mapped

LEMMA HitWriteExact ==
  ASSUME ExactNow, TypeInv', NEW t \in Threads, HitWrite(t)
  PROVE  TameInv'
<1> DEFINE m == op[t].mod
           n == op[t].name
<1>1. SafeNow /\ TypeInv /\ Alone /\ op[t].pc = "hitWrite" /\ life[m] = "live" /\ PlaceOK(t)
  BY InHand DEF ExactNow, SafeNow, Exact, HitWrite, At, HoldsMod
<1>2. /\ refs' = [refs EXCEPT ![m] = op[t].n] /\ held' = [held EXCEPT ![n] = @ + 1]
      /\ Finish(t, "ok") /\ UNCHANGED <<tree, table, name, id, life, ended, ub, lost>>
  BY <1>1 DEF HitWrite
<1>3. op'[t].pc \in {"idle", "ended"} /\ Others(t)
  BY <1>1, <1>2, FinishIs
<1>4. \A u \in Threads \ {t} : op[u].pc \in {"idle", "ended"} /\ op'[u].pc \in {"idle", "ended"} /\ PlaceOK(u)'
  BY <1>1, <1>3, OnlyMe, OnlyMeThen DEF Loading
<1>5. /\ \A k \in Names : InMap(k) <=> held[k] > 0
      /\ \A x \in Nodes : refs[x.val] = held[x.key] /\ table[id[x.val]] = x.val
      /\ \A k \in Mods : life[k] = "live" => Mapped(k)
  BY <1>1, <1>4, NothingPending DEF Pending
<1>6. m \in Mods /\ n \in Names /\ InMap(n) /\ \A x \in Nodes : x.val = m <=> x.key = n
  BY <1>1, ThisNode
<1>7. /\ \A k \in Names : held'[k] = IF k = n THEN held[n] + 1 ELSE held[k]
      /\ \A k \in Mods : refs'[k] = IF k = m THEN refs[m] + 1 ELSE refs[k]
      /\ \A k \in Names : held[k] \in Nat
  BY <1>1, <1>2, StillTyped DEF PlaceOK
<1>8. Nodes' = Nodes /\ (\A k : Mapped(k)' <=> Mapped(k)) /\ (\A k : InMap(k)' <=> InMap(k))
  BY <1>2 DEF Nodes, Mapped, InMap
<1>9. \A x \in Nodes : x.val \in Mods /\ x.key \in Names
  BY <1>1, NodeType DEF SafeNow, Sound, MapOK
<1>10. HeldOK'
  BY <1>5, <1>6, <1>7, <1>8 DEF HeldOK
<1>11. CountsOK'
  <2>1. \A x \in Nodes : refs'[x.val] = held'[x.key] /\ table'[id'[x.val]] = x.val
    BY <1>2, <1>5, <1>6, <1>7, <1>9
  <2> QED
    BY <1>8, <2>1 DEF CountsOK
<1>12. LiveOK'
  BY <1>2, <1>5, <1>8 DEF LiveOK
<1>13. \A u \in Threads : PlaceOK(u)'
  <2>1. PlaceOK(t)'
    BY <1>3 DEF PlaceOK
  <2> QED
    BY <1>4, <2>1
<1>14. Alone'
  BY <1>1, <1>3, AloneStays DEF Busy, Loading, Unloading
<1> QED
  BY <1>2, <1>10, <1>11, <1>12, <1>13, <1>14 DEF TameInv, Exact, ExactNow, SafeNow, Up

LEMMA CountWriteExact ==
  ASSUME ExactNow, TypeInv', NEW t \in Threads, CountWrite(t)
  PROVE  TameInv'
<1> DEFINE m == op[t].mod
           n == op[t].name
           r == [op[t] EXCEPT !.pc = "clear"]
<1>1. SafeNow /\ TypeInv /\ Alone /\ op[t].pc = "countWrite" /\ life[m] = "live" /\ PlaceOK(t)
  BY InHand DEF ExactNow, SafeNow, Exact, CountWrite, At, HoldsMod
<1>2. /\ refs' = [refs EXCEPT ![m] = IF op[t].n = 0 THEN 0 ELSE op[t].n - 1]
      /\ held' = [held EXCEPT ![n] = IF @ = 0 THEN 0 ELSE @ - 1]
      /\ op[t].n = 1 => Goto(t, r)
      /\ op[t].n # 1 => After(t)
      /\ UNCHANGED <<tree, table, name, id, life, ended, ub, lost>>
  BY <1>1 DEF CountWrite
<1>3. /\ op[t].n = 1 => op'[t].pc = "clear" /\ op'[t].name = n
      /\ op[t].n # 1 => op'[t].pc \in {"idle", "ended", "next"}
      /\ Others(t)
  <2>1. CASE op[t].n = 1
    <3>1. op'[t] = r /\ Others(t)
      BY <1>1, <1>2, <2>1, GotoIs
    <3>2. r.pc = "clear" /\ r.name = n
      BY <1>1, OpIs DEF OpType
    <3> QED
      BY <2>1, <3>1, <3>2
  <2>2. CASE op[t].n # 1
    BY <1>1, <1>2, <2>2, AfterIs
  <2> QED
    BY <2>1, <2>2
<1>4. \A u \in Threads \ {t} : op[u].pc \in {"idle", "ended"} /\ op'[u].pc \in {"idle", "ended"} /\ PlaceOK(u)'
  BY <1>1, <1>3, OnlyMe, OnlyMeThen DEF Unloading
<1>5. /\ \A k \in Names : InMap(k) <=> held[k] > 0
      /\ \A x \in Nodes : refs[x.val] = held[x.key] /\ table[id[x.val]] = x.val
      /\ \A k \in Mods : life[k] = "live" => Mapped(k)
  BY <1>1, <1>4, NothingPending DEF Pending
<1>6. /\ m \in Mods /\ n \in Names /\ InMap(n) /\ Node(n, m) \in Nodes
      /\ \A x \in Nodes : x.val = m <=> x.key = n
  BY <1>1, ThisNode
<1>7. op[t].n = held[n] /\ held[n] > 0 /\ refs[m] = held[n]
  <2>1. refs[m] = held[n]
    BY <1>5, <1>6 DEF Node
  <2> QED
    BY <1>1, <1>5, <1>6, <2>1 DEF PlaceOK
<1>8. /\ \A k \in Names : held'[k] = IF k = n THEN held[n] - 1 ELSE held[k]
      /\ \A k \in Mods : refs'[k] = IF k = m THEN held[n] - 1 ELSE refs[k]
      /\ \A k \in Names : held[k] \in Nat
  BY <1>1, <1>2, <1>7, StillTyped
<1>9. Nodes' = Nodes /\ (\A k : Mapped(k)' <=> Mapped(k)) /\ (\A k : InMap(k)' <=> InMap(k))
  BY <1>2 DEF Nodes, Mapped, InMap
<1>10. \A x \in Nodes : x.val \in Mods /\ x.key \in Names
  BY <1>1, NodeType DEF SafeNow, Sound, MapOK
<1>11. HeldOK'
  <2> SUFFICES ASSUME NEW k \in Names
               PROVE  /\ held'[k] > 0 => InMap(k)
                      /\ InMap(k) /\ held'[k] = 0 =>
                           \E u \in Threads : op'[u].pc \in {"store", "clear", "remove"} /\ op'[u].name = k
    BY <1>9 DEF HeldOK
  <2>1. CASE k = n
    BY <1>3, <1>6, <1>7, <1>8, <2>1
  <2>2. CASE k # n
    BY <1>5, <1>8, <2>2
  <2> QED
    BY <2>1, <2>2
<1>12. CountsOK'
  <2>1. \A x \in Nodes : refs'[x.val] = held'[x.key] /\ table'[id'[x.val]] = x.val
    BY <1>2, <1>5, <1>6, <1>8, <1>10
  <2> QED
    BY <1>9, <2>1 DEF CountsOK
<1>13. LiveOK'
  BY <1>2, <1>5, <1>9 DEF LiveOK
<1>14. \A u \in Threads : PlaceOK(u)'
  <2>1. op[t].n = 1 => held'[n] = 0
    BY <1>6, <1>7, <1>8
  <2>2. PlaceOK(t)'
    <3>1. CASE op[t].n = 1
      BY <1>3, <2>1, <3>1 DEF PlaceOK
    <3>2. CASE op[t].n # 1
      BY <1>3, <3>2 DEF PlaceOK
    <3> QED
      BY <3>1, <3>2
  <2> QED
    BY <1>4, <2>2
<1>15. Alone'
  BY <1>1, <1>3, AloneStays DEF Busy, Unloading
<1> QED
  BY <1>2, <1>11, <1>12, <1>13, <1>14, <1>15 DEF TameInv, Exact, ExactNow, SafeNow, Up

LEMMA AllocExact ==
  ASSUME ExactNow, TypeInv', NEW t \in Threads, Alloc(t)
  PROVE  TameInv'
<1>0. SafeNow /\ TypeInv /\ Alone /\ op[t].pc = "find" /\ PlaceOK(t) /\ op[t].name \in Names
  BY OpIs DEF ExactNow, SafeNow, Exact, Alloc, At, LocalOK, Loading
<1>1. PICK m \in Mods, i \in Ids :
         /\ life[m] = "unborn" /\ table[i] = NULL
         /\ name' = [name EXCEPT ![m] = op[t].name] /\ id' = [id EXCEPT ![m] = i]
         /\ refs' = [refs EXCEPT ![m] = 1] /\ life' = [life EXCEPT ![m] = "live"]
         /\ Goto(t, [op[t] EXCEPT !.pc = "contains", !.mod = m])
  BY <1>0, AllocType
<1>2. UNCHANGED <<tree, table, ub, ended, held, lost>>
  BY DEF Alloc
<1> DEFINE n == op[t].name
           r == [op[t] EXCEPT !.pc = "contains", !.mod = m]
<1>3. op'[t] = r /\ Others(t)
  BY <1>0, <1>1, GotoIs
<1>4. op'[t].pc = "contains" /\ op'[t].mod = m /\ op'[t].name = n
  BY <1>0, <1>3, OpIs DEF OpType
<1>5. \A u \in Threads \ {t} : op[u].pc \in {"idle", "ended"} /\ op'[u].pc \in {"idle", "ended"} /\ PlaceOK(u)'
  BY <1>0, <1>3, OnlyMe, OnlyMeThen DEF Loading
<1>6. /\ \A k \in Names : InMap(k) <=> held[k] > 0
      /\ \A x \in Nodes : refs[x.val] = held[x.key] /\ table[id[x.val]] = x.val
      /\ \A k \in Mods : life[k] = "live" => Mapped(k)
  BY <1>0, <1>5, NothingPending DEF Pending
<1>7. /\ refs'[m] = 1 /\ id'[m] = i /\ life'[m] = "live"
      /\ \A k \in Mods \ {m} : life'[k] = life[k] /\ refs'[k] = refs[k] /\ id'[k] = id[k]
  BY <1>0, <1>1, StillTyped
<1>8. Nodes' = Nodes /\ (\A k : Mapped(k)' <=> Mapped(k)) /\ (\A k : InMap(k)' <=> InMap(k))
  BY <1>2 DEF Nodes, Mapped, InMap
<1>9. \A x \in Nodes : x.val \in Mods \ {m}
  BY <1>0, <1>1, NodeType DEF SafeNow, Sound, MapOK
<1>10. HeldOK'
  <2>1. \A k \in Names : held[k] \in Nat
    BY <1>0, StillTyped
  <2> QED
    BY <1>2, <1>6, <1>8, <2>1 DEF HeldOK
<1>11. CountsOK'
  <2>1. \A x \in Nodes : refs'[x.val] = held'[x.key] /\ table'[id'[x.val]] = x.val
    BY <1>2, <1>6, <1>7, <1>9
  <2> QED
    BY <1>8, <2>1 DEF CountsOK
<1>12. LiveOK'
  BY <1>4, <1>6, <1>7, <1>8 DEF LiveOK, In
<1>13. PlaceOK(t)'
  <2>1. ~InMap(n) /\ held[n] = 0
    <3>1. held[n] \in Nat
      BY <1>0, StillTyped
    <3> QED
      BY <1>0, <1>6, <3>1 DEF PlaceOK
  <2>2. ~InMap(n)'
    BY <1>2, <1>4, <2>1 DEF InMap, Nodes
  <2> QED
    BY <1>1, <1>2, <1>4, <1>7, <2>1, <2>2 DEF PlaceOK
<1>14. Alone'
  BY <1>0, <1>3, <1>4, AloneStays DEF Busy, Loading
<1> QED
  BY <1>2, <1>5, <1>10, <1>11, <1>12, <1>13, <1>14 DEF TameInv, Exact, ExactNow, SafeNow, Up


\* What is left to do while only t, at a place that leaves something, is in an
\* opcode that is not a call.
LEMMA MinePending ==
  ASSUME ExactNow, NEW t \in Threads, op[t].pc \in Pending
  PROVE  /\ \A u \in Threads \ {t} : op[u].pc \in {"idle", "ended"}
         /\ \A k \in Names : held[k] > 0 => InMap(k)
         /\ \A k \in Names : InMap(k) /\ held[k] = 0 =>
              op[t].pc \in {"store", "clear", "remove"} /\ op[t].name = k
         /\ \A x \in Nodes : refs[x.val] = held[x.key] \/ In(t, {"store"}, x.val)
         /\ \A x \in Nodes : table[id[x.val]] = x.val \/ In(t, {"store", "remove"}, x.val)
         /\ \A m \in Mods : life[m] = "live" =>
              Mapped(m) \/ In(t, {"contains", "insert", "free"}, m)
<1>1. \A u \in Threads \ {t} : op[u].pc \in {"idle", "ended"}
  BY OnlyMe DEF Pending, Loading, Unloading
<1> QED
  BY <1>1 DEF ExactNow, Exact, HeldOK, CountsOK, LiveOK, In

LEMMA InsertContainsExact ==
  ASSUME ExactNow, TypeInv', NEW t \in Threads, InsertContains(t)
  PROVE  TameInv'
<1> DEFINE m == op[t].mod
           n == op[t].name
           r == [op[t] EXCEPT !.pc = "insert"]
<1>1. /\ SafeNow /\ TypeInv /\ SameOrder /\ Whole /\ Alone /\ op[t].pc = "contains" /\ PlaceOK(t)
      /\ n \in Names
  BY OpIs DEF ExactNow, SafeNow, Sound, MapOK, Exact, InsertContains, At, LocalOK, Loading
<1>2. ~Found(n) /\ ~Falls(tree, CaseOrder, n)
  BY <1>1, MapIs DEF PlaceOK
<1>3. Goto(t, r) /\ UNCHANGED <<tree, table, objects, ended, ub, held, lost>>
  BY <1>2 DEF InsertContains
<1>4. op'[t] = r /\ Others(t)
  BY <1>1, <1>3, GotoIs
<1>5. op'[t].pc = "insert" /\ op'[t].mod = m /\ op'[t].name = n
  BY <1>1, <1>4, OpIs DEF OpType
<1>6. Nodes' = Nodes /\ (\A k : Mapped(k)' <=> Mapped(k)) /\ (\A k : InMap(k)' <=> InMap(k))
  BY <1>3 DEF Nodes, Mapped, InMap
<1>7. HeldOK' /\ CountsOK'
  BY <1>1, <1>3, <1>6, MinePending DEF HeldOK, CountsOK, In, Pending
<1>8. LiveOK'
  <2> SUFFICES ASSUME NEW k \in Mods, life[k] = "live"
               PROVE  Mapped(k) \/ \E u \in Threads : op'[u].pc \in {"contains", "insert", "free"} /\ op'[u].mod = k
    BY <1>3, <1>6 DEF LiveOK, In
  <2> QED
    BY <1>1, <1>5, MinePending DEF In, Pending
<1>9. PlaceOK(t)'
  <2>1. ~InMap(n)'
    BY <1>1, <1>3, <1>5 DEF PlaceOK, InMap, Nodes
  <2> QED
    BY <1>1, <1>3, <1>5, <2>1 DEF PlaceOK
<1>10. \A u \in Threads \ {t} : PlaceOK(u)'
  BY <1>1, <1>4, OnlyMeThen DEF Loading
<1>11. Alone'
  BY <1>1, <1>4, <1>5, AloneStays DEF Busy, Loading
<1> QED
  BY <1>3, <1>7, <1>8, <1>9, <1>10, <1>11 DEF TameInv, Exact, ExactNow, SafeNow, Up

LEMMA InsertNodeExact ==
  ASSUME ExactNow, TypeInv', NEW t \in Threads, InsertNode(t)
  PROVE  TameInv'
<1> DEFINE m == op[t].mod
           n == op[t].name
           r == [op[t] EXCEPT !.pc = "store"]
<1>1. /\ SafeNow /\ TypeInv /\ SameOrder /\ Whole /\ Alone /\ op[t].pc = "insert" /\ PlaceOK(t)
      /\ n \in Names /\ m \in Mods
  BY OpIs DEF ExactNow, SafeNow, Sound, MapOK, Exact, InsertNode, At, LocalOK, Loading, HoldsMod
<1>2. ~Has(tree, FoldedOrder, n) /\ ~Falls(tree, FoldedOrder, n) /\ ~InMap(n)
  BY <1>1, MapIs DEF PlaceOK
<1>3. /\ tree' = Grow(tree, FoldedOrder, n, m) /\ Goto(t, r)
      /\ UNCHANGED <<table, objects, ended, ub, held, lost>>
  BY <1>2 DEF InsertNode
<1>4. op'[t] = r /\ Others(t)
  BY <1>1, <1>3, GotoIs
<1>5. op'[t].pc = "store" /\ op'[t].mod = m /\ op'[t].name = n
  BY <1>1, <1>4, OpIs DEF OpType
<1>6. Nodes' = Nodes \cup {Node(n, m)}
  BY <1>1, <1>2, <1>3, GrowIs
<1>7. Node(n, m).key = n /\ Node(n, m).val = m
  BY DEF Node
<1>8. (\A k : Mapped(k)' <=> Mapped(k) \/ k = m) /\ (\A k : InMap(k)' <=> InMap(k) \/ k = n)
  BY <1>6, <1>7 DEF Mapped, InMap
<1>9. HeldOK'
  <2> SUFFICES ASSUME NEW k \in Names
               PROVE  /\ held[k] > 0 => InMap(k) \/ k = n
                      /\ (InMap(k) \/ k = n) /\ held[k] = 0 =>
                           \E u \in Threads : op'[u].pc \in {"store", "clear", "remove"} /\ op'[u].name = k
    BY <1>3, <1>8 DEF HeldOK
  <2> QED
    BY <1>1, <1>5, MinePending DEF Pending
<1>10. CountsOK'
  <2>1. \A x \in Nodes : refs[x.val] = held[x.key] /\ table[id[x.val]] = x.val
    BY <1>1, MinePending DEF In, Pending
  <2> SUFFICES ASSUME NEW x \in Nodes', x = Node(n, m)
               PROVE  \E u \in Threads : op'[u].pc = "store" /\ op'[u].mod = x.val
    BY <1>3, <1>6, <2>1 DEF CountsOK, In
  <2> QED
    BY <1>5, <1>7
<1>11. LiveOK'
  BY <1>1, <1>3, <1>8, MinePending DEF LiveOK, In, Pending
<1>12. PlaceOK(t)'
  BY <1>1, <1>3, <1>5 DEF PlaceOK
<1>13. \A u \in Threads \ {t} : PlaceOK(u)'
  BY <1>1, <1>4, OnlyMeThen DEF Loading
<1>14. Alone'
  BY <1>1, <1>4, <1>5, AloneStays DEF Busy, Loading
<1> QED
  BY <1>3, <1>9, <1>10, <1>11, <1>12, <1>13, <1>14 DEF TameInv, Exact, ExactNow, SafeNow, Up

LEMMA StoreExact ==
  ASSUME ExactNow, TypeInv', NEW t \in Threads, Store(t)
  PROVE  TameInv'
<1> DEFINE m == op[t].mod
           n == op[t].name
<1>1. SafeNow /\ TypeInv /\ Alone /\ op[t].pc = "store" /\ life[m] = "live" /\ PlaceOK(t)
  BY InHand DEF ExactNow, SafeNow, Exact, Store, At, HoldsMod
<1>2. /\ table' = [table EXCEPT ![id[m]] = m] /\ held' = [held EXCEPT ![n] = @ + 1]
      /\ Finish(t, "ok") /\ UNCHANGED <<tree, objects, ended, ub, lost>>
  BY <1>1 DEF Store
<1>3. op'[t].pc \in {"idle", "ended"} /\ Others(t)
  BY <1>1, <1>2, FinishIs
<1>4. /\ m \in Mods /\ n \in Names /\ InMap(n)
      /\ \A x \in Nodes : x.val = m <=> x.key = n
  BY <1>1, ThisNode
<1>5. refs[m] = 1 /\ table[id[m]] = NULL /\ held[n] = 0
  BY <1>1 DEF PlaceOK
<1>6. /\ \A k \in Names : held'[k] = IF k = n THEN 1 ELSE held[k]
      /\ \A i \in Ids : table'[i] = IF i = id[m] THEN m ELSE table[i]
      /\ id[m] \in Ids /\ m # NULL
  BY <1>1, <1>2, <1>4, <1>5, StillTyped, ModuleTableOK
<1>7. Nodes' = Nodes /\ (\A k : Mapped(k)' <=> Mapped(k)) /\ (\A k : InMap(k)' <=> InMap(k))
  BY <1>2 DEF Nodes, Mapped, InMap
<1>8. \A x \in Nodes : x.val \in Mods /\ x.key \in Names /\ id[x.val] \in Ids
  BY <1>1, NodeType, StillTyped DEF SafeNow, Sound, MapOK
<1>9. HeldOK'
  BY <1>1, <1>4, <1>6, <1>7, MinePending DEF HeldOK, Pending
<1>10. CountsOK'
  <2>1. ASSUME NEW x \in Nodes PROVE refs'[x.val] = held'[x.key] /\ table'[id'[x.val]] = x.val
    <3>1. CASE x.val = m
      BY <1>2, <1>4, <1>5, <1>6, <1>8, <3>1
    <3>2. CASE x.val # m
      <4>1. refs[x.val] = held[x.key] /\ table[id[x.val]] = x.val
        BY <1>1, <3>2, MinePending DEF In, Pending
      <4>2. x.key # n /\ id[x.val] # id[m]
        BY <1>4, <1>5, <1>8, <3>2, <4>1, ModuleTableOK
      <4> QED
        BY <1>2, <1>6, <1>8, <4>1, <4>2
    <3> QED
      BY <3>1, <3>2
  <2> QED
    BY <1>7, <2>1 DEF CountsOK
<1>11. LiveOK'
  BY <1>1, <1>2, <1>7, MinePending DEF LiveOK, In, Pending
<1>12. PlaceOK(t)'
  BY <1>3 DEF PlaceOK
<1>13. \A u \in Threads \ {t} : PlaceOK(u)'
  BY <1>1, <1>3, OnlyMeThen DEF Loading
<1>14. Alone'
  BY <1>1, <1>3, AloneStays DEF Busy, Loading, Unloading
<1> QED
  BY <1>2, <1>9, <1>10, <1>11, <1>12, <1>13, <1>14 DEF TameInv, Exact, ExactNow, SafeNow, Up

LEMMA ClearSlotExact ==
  ASSUME ExactNow, TypeInv', NEW t \in Threads, ClearSlot(t)
  PROVE  TameInv'
<1> DEFINE m == op[t].mod
           n == op[t].name
           r == [op[t] EXCEPT !.pc = "remove"]
<1>1. SafeNow /\ TypeInv /\ Alone /\ op[t].pc = "clear" /\ life[m] = "live" /\ PlaceOK(t)
  BY InHand DEF ExactNow, SafeNow, Exact, ClearSlot, At, HoldsMod
<1>2. /\ table' = [table EXCEPT ![id[m]] = NULL] /\ Goto(t, r)
      /\ UNCHANGED <<tree, objects, ended, ub, held, lost>>
  BY <1>1 DEF ClearSlot
<1>3. op'[t] = r /\ Others(t)
  BY <1>1, <1>2, GotoIs
<1>4. op'[t].pc = "remove" /\ op'[t].mod = m /\ op'[t].name = n
  BY <1>1, <1>3, OpIs DEF OpType
<1>5. m \in Mods /\ Mapped(m) /\ n \in Names
  BY <1>1, ThisNode
<1>6. /\ \A i \in Ids : table'[i] = IF i = id[m] THEN NULL ELSE table[i]
      /\ id[m] \in Ids
  BY <1>1, <1>2, <1>5, StillTyped
<1>7. Nodes' = Nodes /\ (\A k : Mapped(k)' <=> Mapped(k)) /\ (\A k : InMap(k)' <=> InMap(k))
  BY <1>2 DEF Nodes, Mapped, InMap
<1>8. \A x \in Nodes : x.val \in Mods /\ x.key \in Names /\ id[x.val] \in Ids
  BY <1>1, NodeType, StillTyped DEF SafeNow, Sound, MapOK
<1>9. \A x \in Nodes : refs[x.val] = held[x.key] /\ table[id[x.val]] = x.val
  BY <1>1, MinePending DEF In, Pending
<1>10. HeldOK'
  <2> SUFFICES ASSUME NEW k \in Names
               PROVE  /\ held[k] > 0 => InMap(k)
                      /\ InMap(k) /\ held[k] = 0 =>
                           \E u \in Threads : op'[u].pc \in {"store", "clear", "remove"} /\ op'[u].name = k
    BY <1>2, <1>7 DEF HeldOK
  <2> QED
    BY <1>1, <1>4, MinePending DEF Pending
<1>11. CountsOK'
  <2> SUFFICES ASSUME NEW x \in Nodes
               PROVE  /\ refs[x.val] = held[x.key]
                      /\ table'[id[x.val]] = x.val \/
                           \E u \in Threads : op'[u].pc \in {"store", "remove"} /\ op'[u].mod = x.val
    BY <1>2, <1>7 DEF CountsOK, In
  <2>1. CASE x.val = m
    BY <1>4, <1>9, <2>1
  <2>2. CASE x.val # m
    <3>1. table[id[m]] = m
      BY <1>5, <1>9 DEF Mapped
    <3>2. id[x.val] # id[m]
      BY <1>9, <2>2, <3>1
    <3> QED
      BY <1>6, <1>8, <1>9, <3>2
  <2> QED
    BY <2>1, <2>2
<1>12. LiveOK'
  BY <1>1, <1>2, <1>7, MinePending DEF LiveOK, In, Pending
<1>13. PlaceOK(t)'
  BY <1>1, <1>2, <1>4 DEF PlaceOK
<1>14. \A u \in Threads \ {t} : PlaceOK(u)'
  BY <1>1, <1>3, OnlyMeThen DEF Unloading
<1>15. Alone'
  BY <1>1, <1>3, <1>4, AloneStays DEF Busy, Unloading
<1> QED
  BY <1>2, <1>10, <1>11, <1>12, <1>13, <1>14, <1>15 DEF TameInv, Exact, ExactNow, SafeNow, Up

LEMMA RemoveNameExact ==
  ASSUME ExactNow, TypeInv', Tame', NEW t \in Threads, RemoveName(t)
  PROVE  TameInv'
<1> DEFINE m == op[t].mod
           n == op[t].name
           r == [op[t] EXCEPT !.pc = "free"]
<1>1. SafeNow /\ TypeInv /\ Alone /\ op[t].pc = "remove" /\ PlaceOK(t)
  BY DEF ExactNow, SafeNow, Exact, RemoveName, At
<1>2. /\ Nodes' = Nodes \ {Node(n, m)} /\ Goto(t, r)
      /\ UNCHANGED <<table, objects, ended, ub, held, lost>>
  BY <1>1, RemoveNameIs DEF Tame, Safe
<1>3. op'[t] = r /\ Others(t)
  BY <1>1, <1>2, GotoIs
<1>4. op'[t].pc = "free" /\ op'[t].mod = m
  BY <1>1, <1>3, OpIs DEF OpType
<1>5. /\ m \in Mods /\ n \in Names /\ Node(n, m) \in Nodes
      /\ \A x \in Nodes : x.val = m <=> x.key = n
  BY <1>1, ThisNode
<1>6. \A x \in Nodes : x.val = m <=> x = Node(n, m)
  <2>1. \A x \in Nodes : x = Node(x.key, x.val)
    BY <1>1, NodeType DEF SafeNow, Sound, MapOK
  <2> QED
    BY <1>5, <2>1 DEF Node
<1>7. /\ \A k : Mapped(k)' <=> Mapped(k) /\ k # m
      /\ \A k : InMap(k)' <=> InMap(k) /\ k # n
  BY <1>2, <1>5, <1>6 DEF Mapped, InMap
<1>8. HeldOK'
  <2>1. held[n] = 0
    BY <1>1 DEF PlaceOK
  <2> QED
    BY <1>1, <1>2, <1>7, <2>1, MinePending DEF HeldOK, Pending
<1>9. CountsOK'
  <2>1. \A x \in Nodes' : x \in Nodes /\ x.val # m
    BY <1>2, <1>6
  <2>2. \A x \in Nodes' : refs[x.val] = held[x.key] /\ table[id[x.val]] = x.val
    BY <1>1, <2>1, MinePending DEF In, Pending
  <2> QED
    BY <1>2, <2>2 DEF CountsOK
<1>10. LiveOK'
  <2> SUFFICES ASSUME NEW k \in Mods, life[k] = "live"
               PROVE  (Mapped(k) /\ k # m) \/
                        \E u \in Threads : op'[u].pc \in {"contains", "insert", "free"} /\ op'[u].mod = k
    BY <1>2, <1>7 DEF LiveOK, In
  <2> QED
    BY <1>1, <1>4, MinePending DEF In, Pending
<1>11. PlaceOK(t)'
  BY <1>4 DEF PlaceOK
<1>12. \A u \in Threads \ {t} : PlaceOK(u)'
  BY <1>1, <1>3, OnlyMeThen DEF Unloading
<1>13. Alone'
  BY <1>1, <1>3, <1>4, AloneStays DEF Busy, Unloading
<1> QED
  BY <1>2, <1>8, <1>9, <1>10, <1>11, <1>12, <1>13 DEF TameInv, Exact, ExactNow, SafeNow, Up

LEMMA FreeModuleExact ==
  ASSUME ExactNow, TypeInv', NEW t \in Threads, FreeModule(t)
  PROVE  TameInv'
<1> DEFINE m == op[t].mod
<1>1. SafeNow /\ TypeInv /\ Alone /\ op[t].pc = "free" /\ life[m] = "live" /\ m \in Mods
  BY InHand DEF ExactNow, SafeNow, Exact, FreeModule, At, HoldsMod
<1>2. /\ life' = [life EXCEPT ![m] = "freed"] /\ After(t)
      /\ UNCHANGED <<tree, table, name, id, refs, ended, ub, held, lost>>
  BY <1>1 DEF FreeModule
<1>3. op'[t].pc \in {"idle", "ended", "next"} /\ Others(t)
  BY <1>1, <1>2, AfterIs
<1>4. Nodes' = Nodes /\ (\A k : Mapped(k)' <=> Mapped(k)) /\ (\A k : InMap(k)' <=> InMap(k))
  BY <1>2 DEF Nodes, Mapped, InMap
<1>5. HeldOK' /\ CountsOK'
  BY <1>1, <1>2, <1>4, MinePending DEF HeldOK, CountsOK, In, Pending
<1>6. LiveOK'
  <2>1. \A k \in Mods : life'[k] = IF k = m THEN "freed" ELSE life[k]
    BY <1>1, <1>2, StillTyped
  <2> QED
    BY <1>1, <1>4, <2>1, MinePending DEF LiveOK, In, Pending
<1>7. PlaceOK(t)'
  BY <1>3 DEF PlaceOK
<1>8. \A u \in Threads \ {t} : PlaceOK(u)'
  BY <1>1, <1>3, OnlyMeThen DEF Unloading
<1>9. Alone'
  BY <1>1, <1>3, AloneStays DEF Busy, Unloading
<1> QED
  BY <1>2, <1>5, <1>6, <1>7, <1>8, <1>9 DEF TameInv, Exact, ExactNow, SafeNow, Up

LEMMA VmFreeExact ==
  ASSUME ExactNow, VmFree
  PROVE  TameInv'
<1>1. ~WalkFalls(tree) /\ ~ \E m \in MappedMods : life[m] = "freed"
  BY DEF ExactNow, SafeNow, Sound, MapOK, Whole, MappedMods, Nodes
<1>2. /\ life' = [m \in Mods |-> IF m \in MappedMods THEN "freed" ELSE life[m]]
      /\ ub' = ub /\ lost' = lost /\ ended'
  BY <1>1 DEF VmFree, MappedMods
<1>3. \A t \in Threads : op[t].pc \notin Pending
  BY DEF VmFree, Busy, Pending
<1>4. \A m \in Mods : life[m] = "live" => Mapped(m)
  BY <1>3 DEF ExactNow, Exact, LiveOK, In, Pending
<1>5. \A m : Mapped(m) => m \in MappedMods
  BY <1>1 DEF Mapped, Nodes, MappedMods, WalkFalls
<1>6. \A m \in Mods : life'[m] # "live"
  BY <1>2, <1>4, <1>5
<1> QED
  BY <1>2, <1>6 DEF TameInv, Up, ExactNow


LEMMA StepExact ==
  ASSUME ExactNow, TypeInv', Tame', NEW t \in Threads, Step(t)
  PROVE  TameInv'
<1>1. Step(t) => \/ Private(t) \/ HitWrite(t) \/ Alloc(t) \/ InsertContains(t) \/ InsertNode(t)
                 \/ Store(t) \/ CountWrite(t) \/ ClearSlot(t) \/ RemoveName(t) \/ FreeModule(t)
  BY Zenon DEF Step, Private
<1> QED
  BY <1>1, PrivateExact, HitWriteExact, AllocExact, InsertContainsExact, InsertNodeExact, StoreExact,
     CountWriteExact, ClearSlotExact, RemoveNameExact, FreeModuleExact

LEMMA InitExact == Init => TameInv
<1> SUFFICES ASSUME Init PROVE ~lost /\ ~ended /\ Exact
  BY DEF TameInv
<1>1. Nodes = {} /\ (\A n : ~InMap(n)) /\ (\A m : ~Mapped(m))
  BY DEF Init, Nodes, InMap, Mapped, Empty
<1>2. \A t \in Threads : op[t].pc = "idle"
  BY DEF Init, Idle
<1>3. Alone /\ \A t \in Threads : PlaceOK(t)
  BY <1>2 DEF Alone, Loading, Unloading, PlaceOK
<1>4. HeldOK /\ CountsOK /\ LiveOK
  BY <1>1 DEF Init, HeldOK, CountsOK, LiveOK
<1> QED
  BY <1>3, <1>4 DEF Init, Exact

LEMMA NextExact == TypeInv /\ SameOrder /\ SafeInv /\ TameInv /\ [Next]_vars => TameInv'
<1> SUFFICES ASSUME TypeInv, SameOrder, SafeInv, TameInv, [Next]_vars, Tame' PROVE TameInv'
  BY DEF TameInv
<1>1. TypeInv' /\ Tame /\ Safe
  BY NextType, UnsafeStays DEF Tame, Safe
<1>2. CASE UNCHANGED vars
  BY <1>2 DEF TameInv, Tame, Up, Exact, Alone, Busy, HeldOK, CountsOK, LiveOK, PlaceOK, In, Nodes,
              InMap, Mapped
<1>3. CASE (\E t \in Threads : Step(t)) \/ VmFree
  <2>1. ExactNow
    BY <1>1, <1>3, StepsRun DEF ExactNow, SafeNow, SafeInv, TameInv
  <2> QED
    BY <1>1, <1>3, <2>1, StepExact, VmFreeExact
<1> QED
  BY <1>2, <1>3 DEF Next, Stopped

\* Between opcodes nothing is left to do.
LEMMA ExactAgrees == TypeInv /\ SameOrder /\ SafeInv /\ TameInv => TablesAgree
<1> SUFFICES ASSUME TypeInv, SameOrder, SafeInv, TameInv, Tame, Quiet, ub = "none", ~ended
             PROVE  /\ \A n \in Names : Found(n) <=> held[n] > 0
                    /\ \A n \in Names : Found(n) =>
                         LET m == Value(tree, CaseOrder, n)
                         IN  life[m] = "live" /\ name[m] = n /\ refs[m] = held[n] /\ table[id[m]] = m
                    /\ \A i \in Ids : table[i] # NULL =>
                         Found(name[table[i]]) /\ Value(tree, CaseOrder, name[table[i]]) = table[i]
  BY DEF TablesAgree
<1>1. SafeNow /\ Exact /\ Whole
  BY DEF SafeInv, TameInv, SafeNow, Tame, Safe, Up, Sound, MapOK
<1>2. \A t \in Threads : op[t].pc \notin Pending
  BY DEF Quiet, Busy, Pending
<1>3. \A n \in Names : held[n] \in Nat
  BY StillTyped
<1>4. \A n \in Names : Found(n) <=> held[n] > 0
  BY <1>1, <1>2, <1>3, MapIs DEF Exact, HeldOK, Pending
<1>5. ASSUME NEW n \in Names, Found(n)
      PROVE  LET m == Value(tree, CaseOrder, n)
             IN  life[m] = "live" /\ name[m] = n /\ refs[m] = held[n] /\ table[id[m]] = m
  <2> DEFINE m == Value(tree, CaseOrder, n)
  <2>1. PICK x \in Nodes : x = Node(n, m)
    BY <1>1, <1>5, MapIs
  <2>2. x.key = n /\ x.val = m
    BY <2>1 DEF Node
  <2>3. life[m] = "live" /\ name[m] = n
    BY <1>1, <1>5, MappedIs
  <2>4. refs[m] = held[n] /\ table[id[m]] = m
    BY <1>1, <1>2, <2>2 DEF Exact, CountsOK, In, Pending
  <2> QED
    BY <2>3, <2>4
<1>6. ASSUME NEW i \in Ids, table[i] # NULL
      PROVE  Found(name[table[i]]) /\ Value(tree, CaseOrder, name[table[i]]) = table[i]
  <2>1. PICK x \in Nodes : x.val = table[i]
    BY <1>1, <1>6 DEF SafeNow, Sound, SlotsOK, Mapped
  <2>2. x = Node(x.key, x.val) /\ x.key \in Names /\ name[table[i]] = x.key
    BY <1>1, <2>1, NodeType DEF SafeNow, Sound, MapOK
  <2> QED
    BY <1>1, <2>1, <2>2, MapIs DEF InMap
<1> QED
  BY <1>4, <1>5, <1>6

LEMMA AllInv == Spec /\ SameOrder => [](TypeInv /\ SameOrder /\ SafeInv /\ TameInv)
<1> DEFINE Inv == TypeInv /\ SameOrder /\ SafeInv /\ TameInv
<1>1. Init /\ SameOrder => Inv
  BY InitType, InitSafe, InitExact
<1>2. SameOrder => SameOrder'
  BY DEF SameOrder
<1>3. Inv /\ [Next]_vars => Inv'
  BY <1>2, NextType, NextSafe, NextExact
<1> QED
  BY <1>1, <1>3, PTL DEF Spec

\* If strcmp and strcasecmp put the names in one order, no opcode reads a freed
\* module or map node as long as no unload overlaps another opcode and none
\* takes a module out from above others in the map; loads and calls may overlap.
THEOREM ReadsLiveModules == Spec /\ SameOrder => []NoUseAfterFree
<1>1. SafeInv => NoUseAfterFree
  BY DEF SafeInv, Safe, NoUseAfterFree
<1> QED
  BY <1>1, AllInv, PTL

\* With that order, and as long as no load or unload overlaps another opcode:
\* between opcodes the map, the slots, the objects and their counts say the same
\* of every name.
THEOREM ModulesAgree == Spec /\ SameOrder => []TablesAgree
  BY AllInv, ExactAgrees, PTL

\* The opcodes of a module that is held are found, by every thread.
THEOREM HeldModulesCallable == Spec /\ SameOrder => []HeldIsCallable
<1>1. TameInv => HeldIsCallable
  BY DEF TameInv, HeldIsCallable
<1> QED
  BY <1>1, AllInv, PTL

\* When the machine has been freed, no library is open.
THEOREM EndClosesLibraries == Spec /\ SameOrder => []AllClosed
<1>1. TameInv => AllClosed
  BY DEF TameInv, AllClosed
<1> QED
  BY <1>1, AllInv, PTL

=============================================================================
