# srsVM: models, checks and proofs

srsVM is a process virtual machine in C. A program is a list of registers,
constants and memory segments with bytecode in one of them; a machine runs it with
host threads over shared registers, shared memory and native modules. The word
size (16, 32, 64, 128) is fixed when a runtime is built. Paths below are relative
to the repository.

## The system

| Component | State | Operations | Hard to test | What makes it correct |
|---|---|---|---|---|
| Threads (`src/lib/vm.c`, `thread.c`, thread opcodes of `opcodes-builtin.c`, `src/arch/srsvm.c`) | `vm->threads`, `vm->has_fault`; per thread `next_PC`, `is_halted`, `has_fault`, `exit_status`, native handle; handles in registers | allocate, start, run loop, `THREAD_START/JOIN/EXIT`, `HALT`, faults, the start and end of `main()` | nothing is locked; objects are freed while others hold handles; a fault of the machine must stop everyone | the table never dangles; the exit code is that of HALT; a faulted machine stops |
| Memory (`mmu.c`, `ALLOC/FREE/LOAD/STORE`) | a tree of segments with bounds, flags, children | place, search, load, store, free | a placement changes the bounds of every ancestor; a free leaves holes; a search result outlives its locks | a load returns the last store; code stays where it is; no use after free |
| String maps (`map.c`) | a search tree, a count, a lock | insert, remove, search, clear, walk | insert is two critical sections; two orders of keys | a map is a dictionary |
| Modules (`module.c`, `vm.c`, `MOD_*`) | `vm->modules`, `vm->module_map`, `ref_count` | load with a retry, unload, unload all, call | table, map and counts are updated in separate unlocked steps | the three agree; what is loaded can be called; the end closes everything |
| Mutexes (`handle.c`, `MUTEX_*`) | handles in registers, host mutexes | init, lock, unlock, destroy | owners that end, handles destroyed beside a waiter, a mutex that lies in a register itself | exclusion; nobody waits for ever |
| Opcode maps (`opcode.c`) | nodes in two linked orders | insert, search by name and by code, decode | name and code conflicts | both orders hold the same opcodes |
| LRU cache (`lru.c`) | a list, a map, a count | insert, lookup, remove, evict | list and map must agree | capacity; eviction of the oldest |
| Assembler (`asm.c`) | lines, labels, registers, constants, offsets | lex, collect, lay out, emit | pointers into a text that is cut while it is read; sizes computed before bytes are written; modules evicted from a cache | a text becomes the line it was written for; a jump reaches its label; a module is loaded when called |
| Program files (`program.c`) | counted lists in a file that is replaced in its place | serialize, deserialize, load | counts and slots at their limits; disks that fill up; a reader beside a writer | a run gets the whole program or none |
| Registers, constants (`register.c`, `constant.c`, `opcode-helpers.h`) | values that own strings and handles | load, clear, error bits | shared between threads without locks | one owner for each string and handle |
| Host layer (`impl/linux.c`, `impl/windows.c`), drivers, wrappers, `src/mod` | none of their own | threads, locks, files, libraries, exec | | |

Threads call the memory, module and mutex opcodes directly; there are no messages
and no callbacks but the handlers of a thread's and of a machine's fault: `srsvm`'s only
print, `srsvm_run`'s for a thread also stores 1 as its exit status. All of a machine is
shared by all of its threads. The lock of a segment and the lock of a string map
are the only locks the runtime takes for itself, and `srsvm_mmu_free` takes none (both
calls are commented out).

## Modules

`VmThreads` models the thread table and the life of threads. A *slot* is an index
of `vm->threads`, an *object* is a malloc'd `srsvm_thread`, a *native* is a host
thread inside `run_thread`. Each field of the C structures is a variable. The run
loop is cut where another native can come between two looks at the same state
(`LoopCheck`, `ScanRegisters`, `Gate`, `Fetch`, `Exec...`, `Leave`), and
`THREAD_START` into its looks at the table (`AllocScan`, `AllocStore`, `StartRead`,
`StartCreate`, `LoadHandle`). `Host...` actions are the tail of `main()`. `FaultStatus` is
what the handler of the program stores, `NULL` when it only prints. A program
is the constant `Code`, the set of instructions an address may hold; opcodes with
one effect on this state share a class.

`Mmu` models the segment tree. `seg` is the tree, one record per segment; `Locate`,
`HasRoom` and `Insert` are the recursive functions of the same purpose in `mmu.c`, as
functions of the depth that is left: no path is longer than `MaxPath`, the number of
segments, and a call that goes deeper (`has_room` and `insert_segment` of regions that
partly overlap) never returns. `From` is what a segment leads to, for the walks that
only collect (`FreeTree`, `Reach`, `Ancestors`). Searches and placements hold the root's lock, so there is
one of them at a time; the use of the segment a search returned (`Load`, `Store`, `Flag`) is an action of
its own, and only `srsvm_mmu_free` comes between, as it takes no lock. It has four steps: `Flag` marks the segment, `Scan` looks at
one slot of the parent, `Clear` empties the slot where the segment was seen, `Free` frees what it can of the
subtree. Each look of a search is an action where a FREE
in progress could tell (`Unlocked`: `Search`, `Look`, `Leave`, `Find`; else `Search` is the whole of it), and an ALLOC reads the tree
(`AllocOp`) and writes it (`AllocDone`), because `update_seg_bounds` sorts the slots it has read: `Stale`
is what such a sort may leave. A step on a segment that was freed is `UseFreed`.
Addresses are taken modulo `Space`, as in the builds with words of 32 bits and more
(16-bit words are promoted to `int` before they are added). The sort of the C
library is taken to keep equal elements in order.

`StringTree` is the tree of a map as a value: a function from positions, sequences
of turns, to nodes. `StringMap` is the map and its callers; what is done under the
map's lock is one action, so that insert is two (`InsertContains`, `InsertNode`) and
lookup is two (`Lookup` finds a node, `LookupValue` reads it when the lock is gone).
`Dictionary` is what a map promises, and `StringMap` implements it with `dict` as the
refinement mapping (the keys a search finds), as long as `Alike` holds of its owner (the two
orders sort its keys alike) and nothing is `torn`. `ModuleTable` uses `StringTree` for
`vm->module_map` and adds the slots, the objects, the counts and the opcodes, one
action per access to shared state. `srsvm_module_find` is the constant `Lib`: which
files exist for a name and whether they load.

`AsmLine` is the lexer and the parser of one line as an operator on texts. A text is
a sequence of symbols: the characters the lexer asks for, each by itself, and the
words between them. The lexer's state is that of the code with its pointers as
positions; a cut is a zero it writes, and what a pointer leads to runs up to the next
cut, which is how the comment of a line without arguments, or a string with a
blank, is found. `Parsed` gives the line, `refused`, or the undefined behaviour the
text leads to. What `sscanf` reads of a word is given (`Dec`, `Hex`), as are the
spellings `strcasecmp` takes for equal (`Folded`). `OpcodeMap` has the opcodes of the
machine and of modules as values (what the two trees of a map find), the search by
name and then by number, and the word that begins an instruction.

`Assembler` follows a program from its texts to its execution. A line is
`[num, label, mod, op, args]`; `num` is the number in its file, on which
`compute_byte_offset` relies. `phase` says how far `srsvm_as` has come: `parse` takes
one text a step, `flatten` gives slots, `layout` one line a step with the loads and
unloads put before it, `resolve` one line a step, and `Write` emits. The sorts may
leave equal counts in any order. Then one thread (or, at a `THREAD_START`, the one it
starts) executes the bytes, so that addresses matter: `code` has an instruction, a word
and its arguments, at each address where one begins, and the thread decodes the word.
The ends of the run are `rejected` and `failed` (reported), `overread`, `overflow`,
`overrun` (an array read or written past its end) and `crash` (a pointer to nothing),
and for the program `halted`, `end` (the fetch past the last byte), `fault` (an opcode
with too few or too many arguments, or one it cannot use), `missing` (a module that is
not loaded is called) and `astray` (padding in a place nobody wrote). A program may spell
out what the assembler puts in itself: `MOD_LOAD`, `MOD_UNLOAD`, `MOD_OP` and the
`CJMP`s are executed with any arguments, a register being able to hold the number of any module or of none
and, in a `JMP` or `JMP_OFF`, any address (`ExecComputed`). `SourceProgram` is what the lines mean,
and `Assembler` is checked to implement it; the refinement mapping `at` is the line
whose bytes the thread executes. `LruCache` has the cache of modules as operators
on a value; the nodes' `next` pointers are left out, and `promote` and `remove`, which
never find a node: insertion does not put the key into the map of the cache.
The machine's module table has `ModSlots` slots: a `MOD_LOAD` that finds none free leaves an error
bit in its register and the thread goes on. Modules that are found when a program is assembled are
found when it runs, and the names of modules are such that the map finds them (`ModuleTable` has the others).
Not in it: the value and the suffix of a constant that is not a word, and names longer than
the lexer's buffers.

`ProgramFile` is a file as a sequence of fields, with the assembler that writes it, a
disk that fills up, and whoever runs it. The writer's stream keeps what is written until
`Flush`, `Close` or a failed `fwrite`; `Kill` loses it. `Deserialized` is the reader as a
fold over fields: `at` is the field it expects, and a reader takes any number of fields a
step, so that its choice of what to read is made beside the writer's. The wrapper is
the same code without a word size: it stops after the word size and the runtime it
starts reads from the beginning, or nothing runs when there is no runtime of that word size. A constant whose slot is one past the last
indexes past `claimed_slots`: the reader is then `undefined`, and what it does is not in the model. `Load` is what the machine makes of the constants.
`ProgramStore` is what a path promises, a whole program or none, and `ProgramFile` is
checked and proved to implement it; the mapping takes the program at the path to be the one the
fields are the whole of. Not in it: failures of malloc, of zlib and of opening a file,
byte order, a second assembler beside the first, and segments, which are `Mmu`'s.

`Registers` is about who owns the string or the handle of a register. Threads run
straight programs over shared registers; each access of an opcode to a register or
to the heap is an action (`clear_reg` alone is five), and the mutexes are recursive
ones of the host, held by handles that lie in registers themselves. Threads exist
from the start; a `THREAD_START` is the handle it allocates and loads, its thread is
`VmThreads`' business. A read of NULL (no mutex opcode looks for it) or of
freed memory, and a second free, end the run.

In all of them undefined behaviour ends the run: the first access to freed memory
(or the first call the host leaves undefined) is recorded in `ub`, in `phase` or in the reader's
`pc`, and nothing of that process happens after it. A read of memory nobody wrote is a choice: `Garbage` for the
exit status, both outcomes for a module freed before it is complete.

## Runs

The violation run checks what the documentation says and the code does not do; it
is the finding in `PROJECT.json`.

| Run | Question | Answer |
|---|---|---|
| `vt_any` | any program over the whole instruction set, 2 slots, the handler of `srsvm_run` | table never dangles, one late instruction at most, exit code of HALT, and that of the handler when the main thread faults |
| `vt_storm` | threads that start threads at once and leave, 3 slots | one native per object, and every running thread is in the table, while starts do not overlap |
| `vt_join` | main joins its two workers: both started first, or one after the other into a register with `ERR_FAULT_ENABLE`, workers that end, fault, raise an error or loop as in `examples/threads.s` | without a fault of the machine no undefined behaviour, and the process ends unless a worker loops; main never reaches HALT after a joined fault; a fault of the machine ends the process |
| `mmu_heap` | two threads, three children per segment, ALLOCs and FREEs around a program, a FREE between any two looks of a search and any two steps of an ALLOC | nothing freed is used and nothing leaks until a FREE is `untidy` |
| `mmu_pair` | the same with two children per segment, so that an ALLOC is nested, and uses that overlap in part | a load returns the last store, until a FREE is `untidy` |
| `mmu_load` | programs of three to five segments in every order | bounds nest; segments that lie apart load and are found |
| `sm_maps` | the maps of the assembler, those of the runtime, and one whose names the two orders do not sort alike; two threads | where the orders agree they implement `Dictionary`, until a node with children, or one a lookup has found, is freed |
| `mt_loads` | two threads, three modules, two slots, a library that does not load | map, slots, objects and counts agree; overlapping loads free nothing in use |
| `mt_unload` | the first of two modules is unloaded | violated: freed map node |
| `asm` | every program of three to six lines over small instruction sets, larger ones of wide lines, hand-written module opcodes and jumps, and odd texts, written in several ways, assembled and executed | documented texts become the lines they were written for; labels are where the bytes are, slots hold what lines name, control follows the source, modules are loaded when called, unless the machine's module table is full |
| `pf` | programs at the limits of a machine, of other word sizes and builds, written to a disk that fills up by assemblers that are killed, and run meanwhile | a run gets a whole program or none, and only a program with too many constants makes the reading undefined; what is reported stored is, unless the disk was full; slots hold what the source names |
| `regs` | two threads load, print, lock, destroy and exit over two registers | one owner for every string and handle until threads meet in a register; the mutex keeps threads that use it apart; threads that unlock what they lock all end |

Conditions on the properties are histories, not restrictions of the actions:
`overlap` (two THREAD_STARTs at once; a load or unload during another opcode),
`untidy` (a FREE did not find its segment because of an empty slot before it, freed a segment with others
below it, met a thread that had the segment or a search that had come to it, or went on beside an
ALLOC; or the machine ended with a segment behind an empty slot) and `torn` (a map node was freed that has children or
that a lookup has found).
`wasFull` (the disk was full while an assembler wrote), `torn` of a reader (its file was
emptied under the open stream) and `race` (two threads in one register, one of them
writing it) are histories too. For the assembler, `bypassed` (a jump went over a line
that uses a module, or `MOD_UNLOAD_ALL` was executed) and `Full` (the machine has no module slot left), and conditions on its input:
`Documented` (one blank after a label, no word that is a number in hexadecimal only),
`OneFile`, `WordAligned` (`-A` asks for no padding), `JumpsToItself`, a program smaller
than the address space. For `Registers`, conditions on the program: `Disciplined` (the
mutex stays in its register and is held around every other use, as in
`examples/threads.s`), `OneMutex` (no other register is locked, unlocked or destroyed)
and `Balanced` (as many unlocks as locks, and no exit). The steps
that set the histories are explored, up to the first one after which every
property is silent. What lies beyond is the code's own behaviour and is described
with each hazard in `PROJECT.json`:

* Threads and memory: a start that finds the table full is no fault, a join after
  `THREAD_EXIT` reads a freed object, segments that touch are refused, two ALLOCs share
  one address, and with the code if they reach it, a FREE behind an empty slot leaves a
  freed segment in the tree; a FREE, which takes no lock, frees a segment a search is at or has returned,
  and beside the sort of an ALLOC it loses a sibling or leaves a freed segment in its slot; after a fault
  of the machine, or under the handler of `srsvm`, the exit status of a main thread that did not halt was never written.
* Maps: `clear` takes no lock; its one caller, the cache of the assembler, has one thread.
* Modules: names whose order depends on case are loaded and not found, the module number
  one past the last is accepted, an overlapping unload frees a module in use.
* Registers: two threads that load one register free its string twice; a mutex opcode on
  a register without a handle reads NULL; a thread that ends with a mutex leaves the
  others waiting.
* Lines: `0xdead` is scanned as the decimal 0, so that
  `test/cases/16/should_succeed/01_math.s:4` compares with 0 (both sides are 0); a misspelled
  mnemonic that begins with A to F is the opcode of that number (`AND` is `SLEEP`); the
  opcode after a label and two blanks is a NOP; a line with only a comment is an error,
  `TR` and `FA` with anything after them are TRUE and FALSE; seven arguments with a blank
  after them are read past `args`, a module's with six write past `argv`, an unknown
  escape writes through NULL; a module that gives a name or a number twice does not load.
* Layout: a line that jumps to itself falls through, since an offset of nothing is no
  jump; in a second file labels are taken from the wrong side, or the search for one
  leaves the array; padding to more than a word reserves other sizes than it writes and
  can overrun the buffer; a module loaded before a line that is jumped over is missing
  after it; an eviction never emits the `MOD_UNLOAD` it means to, because the name it
  looks for is stored with quotes, so that a program that uses more modules than the machine has slots faults at the first it could not load.
* Files: the old program is gone as soon as the new one is begun, and also when there is
  nothing to write because emission failed; the result of `fclose` is ignored; a script
  (`#!`) is run by a runtime and refused by the wrapper; a program with more constants than the machine has places
  for is written and, when read, indexes past an array of the reader; a pointer constant becomes a word.

Bounds. In `vt_any` two slots and three objects are enough for a slot to be reused
and for a join of a stale handle; two starts collide only while a third slot is free,
which is what `vt_storm` is for, with a fourth object so that the second of two
threads in one slot exists, and a malloc that fails after it. Two children
per segment make the third segment of a level go below a sibling (`mmu_pair`, `mmu_load`); `mmu_heap` has three, so that
a parent has the code and two ALLOCs, of which one is freed while the other moves. Five segments (`mmu_load`) put
one below a segment below a segment of the root, with siblings at each level, so
that bounds must grow past the parent. Three keys give
the shapes leaf, one child and two children. `MaxHeld` bounds the loads of one name
that are not unloaded; two tell a counted unload from the last one. In `mt_loads`
`FewLoads` bounds the loads of all names to the two the slots can hold, a third
being tried when they are full, and `UnloadsApart` ends the search where every
property is silent. Threads are interchangeable there, and objects and natives in
`vt_any` and `vt_storm`, which take them in any order: hence the symmetry.
Objects are not reused after they are freed, so an access to freed memory is always
seen; when the objects run out, malloc fails.

In `asm` the cache holds two modules and programs use three, in every order, so a
module comes back after its eviction and a second eviction follows; the machine has three slots, and `FullFiles` use up to
four modules; files of four
lines have jumps over, to and back from each line; `Span` is 256, so that six to
nine wide lines end before, at and beyond the end of the address space (a 16-bit
build has 65536); `-A` is 0, 1, 2, 4 and 8 with words of two bytes, which has a
divisor, the word itself and two multiples. The opcodes are all those of a 16-bit build,
with the arguments they take; module `v` gives one number twice. Texts are written
without and with blanks before, two between arguments, in lower case, with a
comment that has a string in it, with a number for `HALT` and with nothing for `NOP`, in
turn; `OddFiles` puts each text nobody can have meant, or that means what nobody
wrote, into a file of two lines; `HandFiles` has every two of thirteen opcodes written by
hand before a line with a module. `MaxArgs` is the 7 of a 16-bit build.

In `pf` a machine has two registers and two constants; programs have none, as many,
one and two more, so that both sides of both tests are met, with and without
compression, for three word sizes, one of which no runtime is built for, and three builds. One file, one writer at a time and one
reader, and nothing bounds how often they begin again. In `regs` six allocations let each of the longest programs' loads succeed;
two registers are the mutex and what it guards; programs of a thread are eight instructions long when
disciplined, and any two instructions when not; one disciplined program holds two mutexes.

Deadlock is checked in every run but `regs`: the only states without other steps are those
after the end of the process, of the assembler or of the thread it follows, or after
undefined behaviour, where `Stopped` holds; the assembler and the reader of `pf` can always begin
again. In `regs` threads may wait for a mutex for ever, and the machine ends;
`EveryThreadEnds` says of which programs all threads end. (Workers that join each
other do wait for ever; no program of a run does.)

Fairness is weak fairness of each native and of `main()`, in `Registers` of each thread
and of the end of the machine: the host's scheduler runs every thread that can run.
Nothing is assumed of which thread gets a mutex, or of programs. Only `vt_join` and
`regs` need it. (Weak fairness is enough in `regs`: a balanced
program locks finitely often.)

## Proofs

Every theorem is about all values of the constants: any number of threads, slots,
registers, objects and keys, any program. Each rests on the assumption its model states of
its constants and, where its statement says `SameOrder`, on that; it is proved as `Init => Inv`,
`Inv /\ [Next]_vars => Inv'` and `Inv => property`. TLC checks the same properties in the
run of the component.

| Module | Theorem | Property | Inductive invariant |
|---|---|---|---|
| `VmThreads_proofs` | `TypeCorrect` | `TypeOK` | `TypeInv` |
| | `TableNeverDangles` | `SlotsNeverDangle` | itself, with `TypeInv` |
| | `OneInstructionLate` | `OneInstructionAfterVmFault` | `LateInv` |
| | `ExitCodeIsStatus` | `HaltStatusReported` | `MainInv`, `StatusInv` |
| | `OneNative` | `OneNativePerObject` | `MainInv`, `OwnInv` |
| | `FaultCodeIsStatus` | `FaultStatusReported` | `MainInv`, `HandlerInv` |
| | `Registered` | `RunningThreadsRegistered` | `MainInv`, `OwnInv` |
| `Mmu_proofs` | `TypeCorrect`, `NothingFreedIsUsed` | `TypeOK`, `NoUseAfterFree` | `IInv` |
| | `EndFreesTheTree`, `BoundsAlwaysNest` | `AllFreed`, `BoundsNest` | `IInv` |
| `Registers_proofs` | `TypeCorrect` | `TypeOK` | `TypeInv` |
| | `EveryAllocationOwned` | `OneOwner` | `OwnerInv` |
| | `DisciplineKeepsApart` | `LockedMeansApart` | `LockInv` |
| `StringMap_proofs` | `TypeCorrect`, `EveryNodeFound`, `ReadsLiveNodes` | `TypeOK`, `InsertedIsFound`, `NoFreedNodeRead` | `MapInv` |
| | `StepsArePromised` | `ImplementsDictionary` | `MapInv` |
| | `MapIsDictionary`, `AddedToIsDictionary` | `Promise!Spec` | `MapInv` |
| `ModuleTable_proofs` | `TypeCorrect` | `TypeOK` | `TypeInv` |
| | `ReadsLiveModules` | `NoUseAfterFree` | `SafeInv` |
| | `ModulesAgree`, `HeldModulesCallable`, `EndClosesLibraries` | `TablesAgree`, `HeldIsCallable`, `AllClosed` | `TameInv`, with `SafeInv` |
| `Assembler_proofs` | `AssemblerTyped` | `TypeOK` | `Typed1`, which is `LaidOut`, `CodeInv` and `MoveInv` |
| | `SlotsNameTheirLines` | `NamesResolve` | `LaidOut` |
| | `WrittenWhereLaidOut` | `LayoutExact` | `LaidOut`, `CodeInv` |
| | `CalledWhenLoaded` | `LoadedWhenCalled` | those, `MoveInv` and `RunInv` |
| `ProgramFile_proofs` | `ReportedIsStored` | `StoredIfReported` | that and `Writing` |
| | `ProgramFileTypes` | `TypeOK` | the same |
| | `RunsAsAssembled` | `MachineAsAssembled` | that and `Known` |
| | `FileImplementsStore` | `ImplementsStore` | that and `Known` |

**Threads.** `TypeInv` is `TypeOK` and `LocalsOK`, which says what the locals of a native
are at each point of the loop (an instruction is loaded in `fetch`, an object is held
between `AllocScan` and `LoadHandle`); without it the step that uses a local would not be
typed. For the table, only five actions write it or free an object (`TableWriters`),
and each frees exactly what it takes out. `LateInv`: a native that has begun its late
instruction is at a point from which it reaches the gate again only with the machine's
fault visible.

For the objects, the proof first sorts the steps of a native: `NatStepKinds` says that it
is `Quiet` (touches no table, object or native of another), or one of the few steps that
start and end threads. `MainInv` follows the main thread: as long as its object is
allocated it is in slot 0, which no other object claims, so no `THREAD_START` can
replace it, one native only ever runs it, and `main()` waits for that native
(`MainHolds`, `StartersOK`, `HostWaits`). Hence the native is dead when `main()` reads the
status, no `HALT` can change it afterwards, and the exit code is its low byte
(`StatusInv`). `FaultCodeIsStatus` is for a handler that stores a status: only the native of the main thread
writes its fault, and the handler has run before that native leaves the loop (`HandlerInv`). `OwnInv` is about everyone else and holds until two THREAD_STARTs
overlap: there is one starter, from the moment it sees a slot free the slot is its own
(`StarterOwnsSlot`), and every native runs an object of its own that the table holds
under its id, until `main()` frees the machine (which it does without waiting).

**Memory.** The functions of `mmu.c` call themselves, so first of all their values are
characterised: `LocateIs` and `InsertIs` say that the functions of the depth the model defines
exist (by `RecursionExists`, below), `FromIs` that `From` is the least set that holds its
segment and is closed. From there on the proofs need only what one call makes of the calls it
makes. `SortKids` is shown to be a permutation of the slots (the place of a child is the
number of those before it, and two children never have one), so a sort loses and doubles no
child. `UpdateBoundsWidens` is `update_seg_bounds`: the bounds of the ancestors take in those of the new
segment, whichever of them needed it, and those of all others stay.

`IInv` is in two parts. What types need holds always: `LinkOK` (allocated segments but the root have
parents, children were allocated), `OpsOK` (threads use segments that were), `LockOK` (one thread allocates at a
time, and malloc has an object for it) and `SeenOK` (so were those an ALLOC has read); no walk
up or down leaves the tree. `TidyOK` holds until a FREE is `untidy`. The segments in use are
a tree (`TreeBase`: a child is in one slot of its parent and of no one else, what is not in use has
no children, and ranks grow from parent to child, so that there is no cycle) in the bounds of
each other's (`NestOK`), but for those a FREE has cut off and not freed yet (`DetachedOK`: they have no children,
and the thread that frees them is the only one that has them, `LooseBy`). What a thread has, on the path of
its search or between its search and its access, is in use (`OpTidy`), and no FREE runs beside an ALLOC, so that the slots
the ALLOC read are those there are (`AllocAlone`); both are kept because a FREE that meets another thread is untidy.
Without the rank segments in use could lie in a ring apart from the root, where neither a search
nor `srsvm_vm_free` comes. An allocation that succeeds puts a new segment into one free slot of one segment in use
and changes nothing but bounds, order and flags of the rest (`InsertPuts`, by induction
on the depth; `PlaceKeeps`, `PlaceNests`, `AllocTree`); with the slots as they were read, `StaleIs` adds
nothing to that. There is one lemma for each step of a search and of a FREE (`StepLook` to `StepFree`): a
search comes from a segment it has to a child of it, which is in use, and meets nothing else, which is `NoUseAfterFree`;
`Clear` takes a leaf out of the tree, and `free_tree` gives back what is below it (`FreeTreeIs`), which is nothing
else. Every segment in use is reached from
the root (`LiveReached`, by the least rank of one that is not), which is why `srsvm_vm_free`, when no thread has a
segment cut off any more, leaves none: `AllFreed`.

**Registers.** `TypeInv` adds to `TypeOK` which instruction a thread may be in at each
of its places (`PlaceOK`). `OwnerInv` holds as long as no two threads meet in a register
(`race`): `Own` is the table of all places an allocation may be in (a register's string, its
handle, what a thread is about to load), and `OwnedOnce` that every allocation in use is in
exactly one of them and everything in one is in use. Each step is one of three changes of
that table: it puts a new allocation in, takes one out with the step that frees it, or moves
one. `RegisterOK` says what `clear_reg` has already emptied at each of its five steps, and
`ApartInv` that nobody else can have filled it meanwhile.

`LockInv` is for programs that keep to the discipline. The depth of the mutex is
a function of the program: `DepthOK` says that its owner has it as often as `Depth` says of
the instructions behind it. `Depth` is defined by recursion; that it obeys its equation is
`DepthSteps`, by induction (below). Two threads that use a register both have a depth
above 0, and a mutex has one owner, so they are one thread. That needs the mutex to
stay where it is (`MutexOK`), which needs that nobody else writes its register: the two are
proved together. The unlocks of a thread that does not own the mutex are in it; so is
another mutex in another register, which may be taken from a register that holds no handle
(then `ub` is `null`).

**String maps.** The second part of `SharedLemmas` is about trees alone. `Shape` says that a node hangs from
live nodes and that the tree is bounded, `Sorted` that a node lies on the path of its key.
In a tree of that shape a descent ends (`StopExists`, by a least element) in one place
(`StopUnique`), which is what `Stop` chooses (`StopIs`); the descent for the key of a node
ends at the node (`FoundThere`); insert and remove keep shape and order (`GrowShape`,
`GrowSorted`, `CutShape`, `CutSorted`), remove also when it leaves a dangling pointer;
and two orders that agree on the keys of a tree stop at one place (`SameStop`), which is
why a map that folds case on insert and not on search is still sound for names on which
that makes no difference. `MapInv` has the tree in order, at least as many counted as
live nodes (so that `map->count` does not wrap below zero, even though `clear` leaves
it), the keys of the inserts under way, live nodes for the lookups under way, and a
whole tree until `torn`. For the refinement, `GrowDict` and `CutDict` say what the two changes
of the tree do to the dictionary it stands for; then each action is an operation of
`Dictionary` or a stutter, the lookups and inserts at the second of their two parts unless the
first settles them. `AddedToIsDictionary` is `Spec => Promise!Spec` without conditions on the
run, for owners that never remove.

**Modules.** The theorems but the first are about machines of which `SameOrder` holds: `strcmp`
and `strcasecmp` put the names of the modules in one order. Of others they are false, as
the map then cannot find what it holds and the module of a name is freed with its node left
behind. `TypeInv` adds the shape of the tree and that a thread has a module in its hands at the
places where it uses one. From there on the tree is seen as the set of its `Nodes`: `MapIs` says
that a search finds exactly what is in the set, `GrowIs` and `LeafCutIs` that insertion adds a
node and the removal of a leaf takes one away. `SafeInv` holds until an unload overlaps
another opcode or a module above others is removed (loads and calls may overlap): every node and
every slot leads to a live module, a module on its way into the map is in one thread's hands
and not in the map, and one on its way out is in no slot when it leaves the map and in no node
when it is freed. `TameInv` holds until a load or an unload overlaps another opcode. It
says what the opcode in progress has still to do: a name is in the map exactly if it is held,
a module has as many references as its name is held, its slot leads to it, and every live
module is in the map, except for the module of the thread that is at one of the
`Pending` places. Between opcodes there is none, and that is `TablesAgree`; `lost` cannot
become true, as a name that is held is in the map; and `srsvm_vm_free`, which frees what is
in the map, frees all.

**Files.** `StoredIfReported` says nothing of an assembler that is not done, so the invariant
adds `Writing`: the file, the buffer and what is left are, in that order, the program, and
the writer knows when the disk is full. `FlushMovesNothingElse` and
`WriteMovesNothingElse` say of the sequences what a step of stdio moves; `Close` then finds
the buffer written out and nothing left. `TypeOK` follows from the same invariant and
`SerializedIsFields`: whatever is assembled, every field has one of its names.

What a reader gets is a question about a fold, so it is first answered without the file.
`Stage` says for each number of fields what reading that many fields of a program comes to, for each
build: the part of which list has been read and which field is expected next. `BeginningRead` proves it for every
beginning of every program, by induction over the fields, with one lemma for each kind of field
(`RegistersStep`, `BlockStep` and so on, joined in `StageOn`); the constants inside a compressed block are an induction of their own. So a runtime reads
to the end exactly of what `CanRun` says it can, ends nowhere before, and comes to an undefined index only in a program with too many constants (`RuntimeOutcome`); the
wrapper knows after the word size (`WrapperOutcome`). A program is not the beginning of another
(`NoBeginning`): every list is counted before it is written. Hence what stdio adds to
the file leaves either a whole program or, before and after, none (`GrownIs`).

`Known` says that what is at the path is nobody's program, nothing or a beginning of one
(`FileIs`), that a reader whose stream was not emptied has read a beginning of that
without coming to an end, and that what ran was whole and fitted the machine (`ReaderIs`). It is inductive with the
invariant of the writer; each action has a lemma (`...Step`) that it keeps `Known` and is an
operation of `ProgramStore` or a stutter, which is `FileImplementsStore`: `Reads` answers with the program the last field makes
whole, what the wrapper says when nothing can run is the answer "none", and the step that ends in `undefined` is a
reading of one field of a program that is too large (`ReadDies`, `DiesOversized`). For `RunsAsAssembled`,
`ConstantLoaded` follows a constant to its slot: `TextIs` finds the end of a string where the
text ends although `str_len` reaches further. Two assumptions are needed: there is no NUL in a text and no escape
stands for one (`IsConstant`: `unescape` has no `\0`, and a text is a C string), and
`NULL` is not a program (`NullOK`).

**Assembler.** The model uses folds and functions defined by recursion, so the proofs begin with
what those are: `SumToIs` and its consequences for sums, `FlattenIs` for a sequence of sequences
(`Laid`: each piece is where the lengths before it say), `LexedIs` and `ParsedIs` for a line
(whatever the text, its arguments are a sequence and its opcode is one that was registered),
`RegisteredConsistent` for a map of opcodes, and `DecodedIs`: the machine decodes an instruction that was encoded to that
instruction.

`LaidOut` is what holds of a program until it is written. `ParseInv`: names used by a line
are counted; `SlotInv`: from `Flatten` on a slot and its place in the list that is emitted name each
other, in whatever order the sorts leave; `LayoutInv`: every line has the instruction its text
asks for (`MainOK`, which resolving a label keeps: `WordPut`), the loads and unloads before it are instructions that can be
encoded, its size is what was reserved, its address is the sum of the sizes before it, and for a
line with a module a load of it was put before that line or an earlier one, which is what a
module's tag says (`LoadedBy`). `NamesResolve` is a part of it.

`CodeInv` is what was written: an instruction of the stream at every address where one begins.
For padding that is never needed `LineStarts` shows by induction over the lines that the
bytes before a line are the sizes before it; `LayoutExact` follows when the sum is smaller than a word
can count, and otherwise `Write` has refused it or nothing is claimed. `RunInv` adds what the thread did: of
the loads put before lines all that lie behind it in the code were executed (`Passed`). A jump
keeps this as it is no load, so a load between the thread and its target stands before a line
it jumps over (`JumpPasses`). A call stands behind the load of its line or an earlier
one (`NoMiss`), so its module is there, unless the table was full when that was executed (`RunInv` holds until it is). `EmittedOK` is assumed of the table of opcodes: it has those the assembler puts in, and jumps
and `THREAD_START` take an argument, as in `load_builtin_opcodes`.

**Induction.** `SharedLemmas` begins with induction over the naturals and the existence of
a least element for sets (`InductionOnNat`, `LeastElement`), so that they can be
cited: what is to be shown of every number is that it belongs to a set. `RecursionExists` is
that a function defined by recursion over the naturals exists and obeys its equation: its
beginnings exist and agree, by induction.

Only model-checked:

* `LoadReturnsLastStore` and `SpreadProgramLoads` of `Mmu`, which are claims
  about the programs and sizes of the runs and false of others (every ALLOC asks for a place at
  address 0, so large ones lie over each other and over the code);
* `LinesAsWritten` and `FollowsSource` of `Assembler` (the refinement of `SourceProgram`): they say that a text means the
  lines it was written for, which is true of the texts of the run and not of all (texts and lines are given together);
* `NoUndefinedBehaviour` and `JoinedFaultStopsMain` of `VmThreads`, which are claims about the
  program of the run `vt_join` and false of others;
* the liveness properties (`ProcessEnds`, `VmFaultEndsProcess`, `EveryThreadEnds`), which need
  fairness and ENABLED.

## Plan

Done: `VmThreads`, `Mmu`, `StringTree`, `Dictionary`, `StringMap`, `ModuleTable`,
`LruCache`, `SourceProgram`, `OpcodeMap`, `AsmLine`, `Assembler`, `ProgramStore`,
`ProgramFile`, `Registers`, and the proofs above. Next:

1. The constants of the other types (`parse_const` and its suffixes) in `AsmLine`.

Not modelled: see the components of `PROJECT.json`. In short, the drivers (arguments
and exec; but for its fault handler `srsvm_run` repeats the halves of the other two), the operations of the native
modules (arithmetic generated by macros), the Windows layer, byte layout and the inside of
compression, and the call-stack and hosted fault handlers of `thread.c`, which no
opcode reaches.
