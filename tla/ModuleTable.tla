----------------------------- MODULE ModuleTable -----------------------------
(***************************************************************************)
(* The native modules of a srsVM machine: the slots of vm->modules, the    *)
(* string map from names to modules, and the reference counts, under the   *)
(* MOD_LOAD, MOD_UNLOAD, MOD_UNLOAD_ALL and MOD_OP of threads that share   *)
(* them.  Only the map has a lock; each access to a slot or to a count is  *)
(* an action of its own.                                                   *)
(***************************************************************************)
EXTENDS StringTree, FiniteSets

CONSTANTS
  Names,            \* module names
  CaseOrder,        \* the order of strcmp, which searches the map
  FoldedOrder,      \* the order of strcasecmp, which inserts into it
  Lib,              \* the library files of a name: [multi, plain], each "none", "good", "bad"
  Mods,             \* the srsvm_module objects malloc can supply
  Slots,            \* SRSVM_MODULE_MAX_COUNT
  Threads,
  MaxHeld,          \* bound: loads of one name that are not unloaded
  NULL

ASSUME ModuleTableOK ==
  /\ CaseOrder \in [Names -> Nat] /\ FoldedOrder \in [Names -> Nat]
  /\ \A m, n \in Names : m # n => CaseOrder[m] # CaseOrder[n]
  /\ Lib \in [Names -> [multi : {"none", "good", "bad"}, plain : {"none", "good", "bad"}]]
  /\ Slots \in Nat \ {0} /\ MaxHeld \in Nat /\ NULL \notin Names \cup Mods
  /\ Dangling \notin [key : Names, val : Mods]

Ids == 0 .. Slots - 1

VARIABLES
  tree,     \* vm->module_map
  table,    \* vm->modules
  name, id, \* of each module
  refs,     \* its ref_count
  life,     \* "unborn", "live" or "freed"
  op,       \* what each thread is doing
  ret,      \* the outcome of its last opcode
  ended,    \* srsvm_vm_free has run
  ub,       \* the first undefined behaviour, or "none"
  held,     \* history: how many loads of each name are not unloaded
  overlap,  \* history: "loads" if a load overlapped an opcode of another thread,
            \* "unloads" if an unload did
  torn,     \* history: a module was unloaded whose map node had children
  lost      \* history: an opcode of a module in use was not found

objects == <<name, id, refs, life>>
ghosts  == <<held, overlap, torn, lost>>
vars    == <<tree, table, objects, op, ret, ended, ub, ghosts>>

Idle == [pc |-> "idle", name |-> NULL, mod |-> NULL, n |-> 0, multi |-> FALSE, all |-> FALSE]

\* Where a thread is in an opcode that loads, unloads or calls.
Loading   == {"hit", "hitWrite", "find", "contains", "insert", "store"}
Unloading == {"resolved", "count", "countWrite", "clear", "remove", "free", "next"}
Calling   == {"call"}

TypeOK ==
  /\ \A p \in DOMAIN tree : tree[p] \in [key : Names, val : Mods] \cup {Dangling}
  /\ table \in [Ids -> Mods \cup {NULL}]
  /\ name \in [Mods -> Names \cup {NULL}] /\ id \in [Mods -> Ids]
  /\ refs \in [Mods -> Nat]
  /\ life \in [Mods -> {"unborn", "live", "freed"}]
  /\ op \in [Threads -> [pc : {"idle", "ended"} \cup Loading \cup Unloading \cup Calling,
                         name : Names \cup {NULL}, mod : Mods \cup {NULL}, n : Nat,
                         multi : BOOLEAN, all : BOOLEAN]]
  /\ ret \in [Threads -> {"none", "ok", "error", "fault"}]
  /\ ended \in BOOLEAN
  /\ ub \in {"none", "use_after_free", "uninitialized", "out_of_bounds"}
  /\ held \in [Names -> Nat]
  /\ overlap \in {"none", "loads", "unloads"} /\ torn \in BOOLEAN /\ lost \in BOOLEAN

Init ==
  /\ tree = Empty /\ table = [i \in Ids |-> NULL]
  /\ name = [m \in Mods |-> NULL] /\ id = [m \in Mods |-> 0]
  /\ refs = [m \in Mods |-> 0] /\ life = [m \in Mods |-> "unborn"]
  /\ op = [t \in Threads |-> Idle] /\ ret = [t \in Threads |-> "none"]
  /\ ended = FALSE /\ ub = "none"
  /\ held = [n \in Names |-> 0]
  /\ overlap = "none" /\ torn = FALSE /\ lost = FALSE

-----------------------------------------------------------------------------
\* Helpers.

At(t, pc) == ub = "none" /\ ~ended /\ op[t].pc = pc
Goto(t, r) == op' = [op EXCEPT ![t] = r]
Found(n) == Has(tree, CaseOrder, n)

\* The opcode ends.
Finish(t, r) ==
  /\ ret' = [ret EXCEPT ![t] = r]
  /\ Goto(t, IF r = "fault" THEN [Idle EXCEPT !.pc = "ended"] ELSE Idle)

Undefined(what) == ub' = what /\ UNCHANGED <<tree, table, objects, op, ret, ended, ghosts>>

Busy(u) == op[u].pc \notin {"idle", "ended"}
Kind(u) == IF op[u].pc \in Loading THEN "load" ELSE IF op[u].pc \in Calling THEN "call" ELSE "unload"

\* An opcode begins: a "load", an "unload" or a "call".
Begins(t, kind) ==
  LET others == {Kind(u) : u \in {v \in Threads \ {t} : Busy(v)}}
      met    == IF others = {} THEN {} ELSE others \cup {kind}
  IN  overlap' = IF overlap = "unloads" \/ "unload" \in met THEN "unloads"
                 ELSE IF "load" \in met THEN "loads" ELSE overlap

-----------------------------------------------------------------------------
\* MOD_LOAD: srsvm_vm_load_module.

LoadLookup(t, n) ==
  /\ At(t, "idle") /\ held[n] < MaxHeld
  /\ IF Falls(tree, CaseOrder, n) THEN Undefined("use_after_free")
     ELSE /\ Goto(t, IF Found(n)
                     THEN [Idle EXCEPT !.pc = "hit", !.name = n, !.mod = Value(tree, CaseOrder, n)]
                     ELSE [Idle EXCEPT !.pc = "find", !.name = n, !.multi = TRUE])
          /\ Begins(t, "load")
          /\ UNCHANGED <<tree, table, objects, ret, ended, ub, held, torn, lost>>

\* mod->ref_count++ is a read and a write.
HitRead(t) ==
  /\ At(t, "hit")
  /\ IF life[op[t].mod] = "freed" THEN Undefined("use_after_free")
     ELSE /\ Goto(t, [op[t] EXCEPT !.pc = "hitWrite", !.n = refs[op[t].mod] + 1])
          /\ UNCHANGED <<tree, table, objects, ret, ended, ub, ghosts>>

\* A bug: the count stays as it was.
HitForgets(t) ==
  /\ At(t, "hitWrite") /\ life[op[t].mod] # "freed"
  /\ held' = [held EXCEPT ![op[t].name] = @ + 1]
  /\ Finish(t, "ok")
  /\ UNCHANGED <<tree, table, objects, ended, ub, overlap, torn, lost>>

HitWrite(t) ==
  /\ At(t, "hitWrite")
  /\ IF life[op[t].mod] = "freed" THEN Undefined("use_after_free")
     ELSE /\ refs' = [refs EXCEPT ![op[t].mod] = op[t].n]
          /\ held' = [held EXCEPT ![op[t].name] = @ + 1]
          /\ Finish(t, "ok")
          /\ UNCHANGED <<tree, table, name, id, life, ended, ub, overlap, torn, lost>>

\* srsvm_module_find: in every directory the multilib file comes first.
File(n, multi) == IF multi /\ Lib[n].multi # "none" THEN Lib[n].multi ELSE Lib[n].plain

\* A bug: the search for a slot goes one too far.
FreeIdsAndNext == {i \in 0 .. Slots : i = Slots \/ table[i] = NULL}

FreeIds == {i \in Ids : table[i] = NULL}
Unborn  == {m \in Mods : life[m] = "unborn"}

\* No file, or no slot: the load fails.
LoadFails(t) ==
  /\ At(t, "find")
  /\ File(op[t].name, op[t].multi) = "none" \/ FreeIds = {}
  /\ Finish(t, "error")
  /\ UNCHANGED <<tree, table, objects, ended, ub, ghosts>>

\* The load fails, or begins again with the plain files only.
Retry(t) ==
  IF op[t].multi THEN /\ Goto(t, [op[t] EXCEPT !.pc = "find", !.multi = FALSE, !.mod = NULL])
                      /\ UNCHANGED ret
  ELSE Finish(t, "error")

\* srsvm_module_alloc of a library that does not load or does not support the
\* word size: srsvm_module_free reads an opcode_map nobody has written.
AllocBad(t) ==
  /\ At(t, "find")
  /\ File(op[t].name, op[t].multi) = "bad" /\ FreeIds # {} /\ Unborn # {}
  /\ \/ ub' = "uninitialized" /\ UNCHANGED <<op, ret>>
     \/ Retry(t) /\ UNCHANGED ub
  /\ UNCHANGED <<tree, table, objects, ended, ghosts>>

\* malloc has no object left.
AllocFails(t) ==
  /\ At(t, "find")
  /\ File(op[t].name, op[t].multi) # "none" /\ FreeIds # {} /\ Unborn = {}
  /\ Retry(t)
  /\ UNCHANGED <<tree, table, objects, ended, ub, ghosts>>

\* The first free slot is chosen; it stays free until the module is stored.
Alloc(t) ==
  LET m == CHOOSE m \in Mods : m \in Unborn
      i == CHOOSE i \in FreeIds : \A j \in FreeIds : i <= j
  IN
  /\ At(t, "find")
  /\ File(op[t].name, op[t].multi) = "good" /\ FreeIds # {} /\ Unborn # {}
  /\ name' = [name EXCEPT ![m] = op[t].name] /\ id' = [id EXCEPT ![m] = i]
  /\ refs' = [refs EXCEPT ![m] = 1] /\ life' = [life EXCEPT ![m] = "live"]
  /\ Goto(t, [op[t] EXCEPT !.pc = "contains", !.mod = m])
  /\ UNCHANGED <<tree, table, ret, ended, ub, ghosts>>

\* srsvm_string_map_insert fails: the module is freed.
InsertFails(t) == life' = [life EXCEPT ![op[t].mod] = "freed"] /\ Retry(t)

InsertContains(t) ==
  LET n == op[t].name IN
  /\ At(t, "contains")
  /\ IF Falls(tree, CaseOrder, n) THEN Undefined("use_after_free")
     ELSE /\ IF Found(n) THEN InsertFails(t)
             ELSE Goto(t, [op[t] EXCEPT !.pc = "insert"]) /\ UNCHANGED <<life, ret>>
          /\ UNCHANGED <<tree, table, name, id, refs, ended, ub, ghosts>>

InsertNode(t) ==
  LET n == op[t].name IN
  /\ At(t, "insert")
  /\ IF Falls(tree, FoldedOrder, n) THEN Undefined("use_after_free")
     ELSE /\ IF Has(tree, FoldedOrder, n) THEN InsertFails(t) /\ UNCHANGED tree
             ELSE /\ tree' = Grow(tree, FoldedOrder, n, op[t].mod)
                  /\ Goto(t, [op[t] EXCEPT !.pc = "store"])
                  /\ UNCHANGED <<life, ret>>
          /\ UNCHANGED <<table, name, id, refs, ended, ub, ghosts>>

Store(t) ==
  LET m == op[t].mod IN
  /\ At(t, "store")
  /\ IF life[m] = "freed" THEN Undefined("use_after_free")   \* mod->id, for the register
     ELSE /\ table' = [table EXCEPT ![id[m]] = m]
          /\ held' = [held EXCEPT ![op[t].name] = @ + 1]
          /\ Finish(t, "ok")
          /\ UNCHANGED <<tree, objects, ended, ub, overlap, torn, lost>>

-----------------------------------------------------------------------------
\* MOD_UNLOAD and MOD_UNLOAD_ALL.

\* By name: mod->id is read from the module the map has; a name that is not
\* there is ignored.
UnloadLookup(t, n) ==
  /\ At(t, "idle")
  /\ IF Falls(tree, CaseOrder, n) THEN Undefined("use_after_free")
     ELSE /\ IF Found(n)
             THEN /\ Goto(t, [Idle EXCEPT !.pc = "resolved", !.mod = Value(tree, CaseOrder, n)])
                  /\ UNCHANGED ret
             ELSE Finish(t, "ok")
          /\ Begins(t, "unload")
          /\ UNCHANGED <<tree, table, objects, ended, ub, held, torn, lost>>

UnloadReadId(t) ==
  /\ At(t, "resolved")
  /\ IF life[op[t].mod] = "freed" THEN Undefined("use_after_free")
     ELSE /\ Goto(t, [Idle EXCEPT !.pc = "next", !.n = id[op[t].mod]])
          /\ UNCHANGED <<tree, table, objects, ret, ended, ub, ghosts>>

\* By number: the check lets SRSVM_MODULE_MAX_COUNT itself through.
UnloadId(t, i) ==
  /\ At(t, "idle")
  /\ IF i > Slots THEN Finish(t, "fault")
     ELSE Goto(t, [Idle EXCEPT !.pc = "next", !.n = i]) /\ UNCHANGED ret
  /\ Begins(t, "unload")
  /\ UNCHANGED <<tree, table, objects, ended, ub, held, torn, lost>>

UnloadAll(t) ==
  /\ At(t, "idle")
  /\ Goto(t, [Idle EXCEPT !.pc = "next", !.all = TRUE])
  /\ Begins(t, "unload")
  /\ UNCHANGED <<tree, table, objects, ret, ended, ub, held, torn, lost>>

\* The slot is read; MOD_UNLOAD_ALL goes on with the next one.
After(t) ==
  IF op[t].all THEN Goto(t, [op[t] EXCEPT !.pc = "next", !.n = id[op[t].mod] + 1, !.mod = NULL])
                    /\ UNCHANGED ret
  ELSE Finish(t, "ok")

ReadSlot(t) ==
  LET i == op[t].n IN
  /\ At(t, "next")
  /\ IF i >= Slots /\ ~op[t].all THEN Undefined("out_of_bounds")
     ELSE /\ IF i >= Slots \/ (table[i] = NULL /\ ~op[t].all) THEN Finish(t, "ok")
             ELSE /\ Goto(t, IF table[i] = NULL THEN [op[t] EXCEPT !.n = i + 1]
                             ELSE [op[t] EXCEPT !.pc = "count", !.mod = table[i]])
                  /\ UNCHANGED ret
          /\ UNCHANGED <<tree, table, objects, ended, ub, ghosts>>

\* srsvm_vm_unload_module: mod->ref_count-- is a read and a write.
CountRead(t) ==
  /\ At(t, "count")
  /\ IF life[op[t].mod] = "freed" THEN Undefined("use_after_free")
     ELSE /\ Goto(t, [op[t] EXCEPT !.pc = "countWrite", !.name = name[op[t].mod],
                                   !.n = refs[op[t].mod]])
          /\ UNCHANGED <<tree, table, objects, ret, ended, ub, ghosts>>

\* A bug: the module goes with the first unload.
CountIgnored(t) ==
  LET m == op[t].mod IN
  /\ At(t, "countWrite") /\ life[m] # "freed"
  /\ refs' = [refs EXCEPT ![m] = 0]
  /\ held' = [held EXCEPT ![op[t].name] = IF @ = 0 THEN 0 ELSE @ - 1]
  /\ Goto(t, [op[t] EXCEPT !.pc = "clear"])
  /\ UNCHANGED <<tree, table, name, id, life, ret, ended, ub, overlap, torn, lost>>

CountWrite(t) ==
  LET m == op[t].mod IN
  /\ At(t, "countWrite")
  /\ IF life[m] = "freed" THEN Undefined("use_after_free")
     ELSE /\ refs' = [refs EXCEPT ![m] = IF op[t].n = 0 THEN 0 ELSE op[t].n - 1]
          /\ held' = [held EXCEPT ![op[t].name] = IF @ = 0 THEN 0 ELSE @ - 1]
          /\ IF op[t].n = 1 THEN Goto(t, [op[t] EXCEPT !.pc = "clear"]) /\ UNCHANGED ret
             ELSE After(t)
          /\ UNCHANGED <<tree, table, name, id, life, ended, ub, overlap, torn, lost>>

ClearSlot(t) ==
  /\ At(t, "clear")
  /\ IF life[op[t].mod] = "freed" THEN Undefined("use_after_free")
     ELSE /\ table' = [table EXCEPT ![id[op[t].mod]] = NULL]
          /\ Goto(t, [op[t] EXCEPT !.pc = "remove"])
          /\ UNCHANGED <<tree, objects, ret, ended, ub, ghosts>>

\* A bug: the module stays in the map.
RemoveNothing(t) ==
  /\ At(t, "remove") /\ life[op[t].mod] # "freed"
  /\ Goto(t, [op[t] EXCEPT !.pc = "free"])
  /\ UNCHANGED <<tree, table, objects, ret, ended, ub, ghosts>>

RemoveName(t) ==
  LET n == op[t].name IN
  /\ At(t, "remove")
  /\ IF \/ life[op[t].mod] = "freed"
        \/ Falls(tree, CaseOrder, n)
        \/ Found(n) /\ WalkFalls(tree)
     THEN Undefined("use_after_free")
     ELSE /\ IF Found(n)
             THEN /\ tree' = Cut(tree, CaseOrder, n)
                  /\ torn' = (torn \/ Below(tree, Stop(tree, CaseOrder, n)) # {})
             ELSE UNCHANGED <<tree, torn>>
          /\ Goto(t, [op[t] EXCEPT !.pc = "free"])
          /\ UNCHANGED <<table, objects, ret, ended, ub, held, overlap, lost>>

\* A bug: the library stays open.
FreeNothing(t) ==
  /\ At(t, "free") /\ life[op[t].mod] # "freed"
  /\ After(t)
  /\ UNCHANGED <<tree, table, objects, ended, ub, ghosts>>

\* srsvm_module_free: the library is closed.
FreeModule(t) ==
  /\ At(t, "free")
  /\ IF life[op[t].mod] = "freed" THEN Undefined("use_after_free")
     ELSE /\ life' = [life EXCEPT ![op[t].mod] = "freed"]
          /\ After(t)
          /\ UNCHANGED <<tree, table, name, id, refs, ended, ub, ghosts>>

-----------------------------------------------------------------------------
\* MOD_OP: an opcode of a module, by name or by number.

OpUnloaded(t, n) ==
  /\ Finish(t, "fault")
  /\ lost' = (lost \/ (n # NULL /\ held[n] > 0))

OpByName(t, n) ==
  /\ At(t, "idle")
  /\ IF Falls(tree, CaseOrder, n) THEN Undefined("use_after_free")
     ELSE /\ IF Found(n)
             THEN /\ Goto(t, [Idle EXCEPT !.pc = "call", !.mod = Value(tree, CaseOrder, n)])
                  /\ UNCHANGED <<ret, lost>>
             ELSE OpUnloaded(t, n)
          /\ Begins(t, "call")
          /\ UNCHANGED <<tree, table, objects, ended, ub, held, torn>>

OpById(t, i) ==
  /\ At(t, "idle")
  /\ IF i = Slots THEN Undefined("out_of_bounds")
     ELSE /\ IF i > Slots \/ table[i] = NULL THEN OpUnloaded(t, NULL)
             ELSE Goto(t, [Idle EXCEPT !.pc = "call", !.mod = table[i]]) /\ UNCHANGED <<ret, lost>>
          /\ Begins(t, "call")
          /\ UNCHANGED <<tree, table, objects, ended, ub, held, torn>>

\* The opcode is looked up in the module and its native code runs.
Call(t) ==
  /\ At(t, "call")
  /\ IF life[op[t].mod] = "freed" THEN Undefined("use_after_free")
     ELSE Finish(t, "ok") /\ UNCHANGED <<tree, table, objects, ended, ub, ghosts>>

-----------------------------------------------------------------------------
\* srsvm_vm_free, once no thread runs: the modules of the map are freed.

VmFree ==
  LET mapped == {tree[p].val : p \in {q \in DOMAIN tree : tree[q] # Dangling}} IN
  /\ ub = "none" /\ ~ended /\ \A t \in Threads : ~Busy(t)
  /\ IF WalkFalls(tree) \/ \E m \in mapped : life[m] = "freed"
     THEN Undefined("use_after_free")
     ELSE /\ life' = [m \in Mods |-> IF m \in mapped THEN "freed" ELSE life[m]]
          /\ ended' = TRUE
          /\ UNCHANGED <<tree, table, name, id, refs, op, ret, ub, ghosts>>

Stopped == (ub # "none" \/ ended) /\ UNCHANGED vars

Step(t) ==
  \/ \E n \in Names : LoadLookup(t, n) \/ UnloadLookup(t, n) \/ OpByName(t, n)
  \/ \E i \in 0 .. Slots + 1 : UnloadId(t, i) \/ OpById(t, i)
  \/ UnloadAll(t)
  \/ HitRead(t) \/ HitWrite(t)
  \/ LoadFails(t) \/ AllocBad(t) \/ AllocFails(t) \/ Alloc(t)
  \/ InsertContains(t) \/ InsertNode(t) \/ Store(t)
  \/ UnloadReadId(t) \/ ReadSlot(t) \/ CountRead(t) \/ CountWrite(t)
  \/ ClearSlot(t) \/ RemoveName(t) \/ FreeModule(t)
  \/ Call(t)

Next == (\E t \in Threads : Step(t)) \/ VmFree \/ Stopped

Spec == Init /\ [][Next]_vars

-----------------------------------------------------------------------------
\* Safety.  Tame: no load or unload has overlapped another opcode, and no
\* module has been unloaded over others in the map.

Tame  == overlap = "none" /\ ~torn
Quiet == \A t \in Threads : ~Busy(t)

\* Between opcodes, map, slots and objects say the same: a name that is held
\* is in the map with a live module that is in its slot and counts its loads;
\* one that is not held is nowhere.
TablesAgree ==
  Tame /\ Quiet /\ ub = "none" /\ ~ended =>
    /\ \A n \in Names : Found(n) <=> held[n] > 0
    /\ \A n \in Names : Found(n) =>
         LET m == Value(tree, CaseOrder, n)
         IN  life[m] = "live" /\ name[m] = n /\ refs[m] = held[n] /\ table[id[m]] = m
    /\ \A i \in Ids : table[i] # NULL =>
         Found(name[table[i]]) /\ Value(tree, CaseOrder, name[table[i]]) = table[i]

\* No opcode reads a freed module or map node, as long as no unload overlaps
\* another opcode: loads that overlap lose slots, never objects in use.
NoUseAfterFree == overlap # "unloads" /\ ~torn => ub # "use_after_free"

\* The opcodes of a module that is held can be called.
HeldIsCallable == Tame => ~lost

\* The end of the machine closes every library.
AllClosed == Tame /\ ended => \A m \in Mods : life[m] # "live"

\* Unloading a module leaves the others usable.
UnloadIsLocal == overlap = "none" => ub # "use_after_free"
=============================================================================
