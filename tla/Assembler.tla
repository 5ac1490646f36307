------------------------------ MODULE Assembler ------------------------------
(***************************************************************************)
(* The assembler (src/lib/asm.c, driven by src/arch/srsvm_as.c) and a      *)
(* thread that executes what it emits.                                     *)
(*                                                                         *)
(* A text is parsed into a line (AsmLine).  Emit gives every register and  *)
(* constant a slot, most used first; lays the lines out one by one,        *)
(* putting a MOD_LOAD before the first use of a module; turns labels into  *)
(* offsets and addresses; and writes the instructions, each a word with    *)
(* its number and its count of arguments.  Nothing is ever put after a     *)
(* line (post_count is 0).                                                 *)
(*                                                                         *)
(* A line is [num, label, mod, op, args], with "" for no label or no       *)
(* module; an argument of it is [kind, text, val], where val is the number *)
(* a word stands for.                                                      *)
(***************************************************************************)
EXTENDS AsmLine, LruCache, Bags

CONSTANTS
  Inputs,       \* what srsvm_as may be given: [src, text, align], the option -A and
                \* texts with the lines they are meant as
  ModSlots,     \* SRSVM_MODULE_MAX_COUNT
  Capacity,     \* of the cache of modules: a quarter of these
  WordBytes,    \* sizeof(srsvm_word)
  Span,         \* SRSVM_MAX_PTR + 1, of a 16-bit build: wider sums wrap too
  EntryPoint

ASSUME AssemblerOK ==
  /\ ModSlots \in Nat \ {0} /\ Capacity \in Nat \ {0} /\ WordBytes \in Nat \ {0}
  /\ Span \in Nat /\ EntryPoint \in 0 .. Span - 1
  /\ \A in \in Inputs :
       /\ in.align \in Nat
       /\ in.text \in Seq(ToSet(in.text))
       /\ \A k \in DOMAIN in.text : in.text[k] \in Seq(ToSet(in.text[k])) /\ in.src[k].num \in Nat

VARIABLES
  src, text, align, \* what srsvm_as was given
  phase,            \* how far it has come
  i,                \* the next line
  fatal,            \* have_fatal_error
  lines,            \* program->lines
  labels,           \* program->label_map
  regs, consts,     \* reg_map and const_map: the ref_count of each name or text
  regSlot, constSlot,  \* slot_num
  outRegs, outConsts,  \* the lists of the program that is emitted
  isLoaded,         \* tag->is_loaded of each module
  cache,            \* mod_cache
  size,             \* program->assembled_size
  laid,             \* what layout has made of each line
  code,             \* the literal memory: the instruction that starts at an address
  PC,               \* next_PC of the thread that is followed
  loaded,           \* vm->module_map: the modules the machine has references to
  bypassed          \* history: a line with a module was jumped over, or a module unloaded

given   == <<src, text, align>>
parsed  == <<fatal, lines, labels>>
slots   == <<regs, consts, regSlot, constSlot, outRegs, outConsts>>
layout  == <<isLoaded, cache, size, laid>>
machine == <<code, PC, loaded, bypassed>>
vars    == <<given, phase, i, parsed, slots, layout, machine>>

Lines   == DOMAIN lines
Modules == {lines[k].mod : k \in Lines} \ {""}

Init ==
  /\ \E in \in Inputs : src = in.src /\ text = in.text /\ align = in.align
  /\ phase = "parse" /\ i = 1 /\ fatal = FALSE /\ lines = <<>>
  /\ labels = <<>> /\ regs = EmptyBag /\ consts = EmptyBag
  /\ regSlot = <<>> /\ constSlot = <<>> /\ outRegs = <<>> /\ outConsts = <<>>
  /\ isLoaded = [m \in Loadable |-> FALSE]
  /\ cache = Fresh /\ size = 0 /\ laid = <<>>
  /\ code = <<>> /\ PC = EntryPoint /\ loaded = {} /\ bypassed = FALSE

-----------------------------------------------------------------------------
\* Parsing.

\* How often each text occurs in the line as an argument of one of these kinds.
Texts(line, kinds) ==
  LET uses(t) == {j \in DOMAIN line.args : line.args[j].kind \in kinds /\ line.args[j].text = t}
      all == {line.args[j].text : j \in {n \in DOMAIN line.args : line.args[n].kind \in kinds}}
  IN  [t \in all |-> Cardinality(uses(t))]

\* A line that is refused, or whose label is there already, is reported and
\* dropped; the rest is parsed still.
Refuse == fatal' = TRUE /\ i' = i + 1 /\ UNCHANGED <<phase, lines, labels, regs, consts>>

Accept(line) ==
  /\ lines'  = Append(lines, [num |-> src[i].num, label |-> Join(SetToSeq(line.label)),
                             mod |-> line.mod, op |-> line.op, args |-> line.args])
  /\ labels' = [l \in DOMAIN labels \cup line.label |->
                  IF l \in line.label THEN Len(lines) + 1 ELSE labels[l]]
  /\ regs'   = regs (+) Texts(line, {"reg"})
  /\ consts' = consts (+) Texts(line, {"const", "word"})
  /\ i' = i + 1
  /\ UNCHANGED <<phase, fatal>>

ParseLine ==
  LET line == Parsed(text[i])
  IN  /\ phase = "parse" /\ i \in DOMAIN text
      /\ CASE line.end = "line" -> IF line.label \cap DOMAIN labels = {} THEN Accept(line) ELSE Refuse
           [] line.end = "refused" -> Refuse
           [] OTHER -> phase' = line.end /\ UNCHANGED <<parsed, regs, consts, i>>
      /\ UNCHANGED <<given, regSlot, constSlot, outRegs, outConsts, layout, machine>>

ParseEnds ==
  /\ phase = "parse" /\ i \notin DOMAIN text
  /\ phase' = IF fatal THEN "rejected" ELSE "flatten"
  /\ UNCHANGED <<given, i, parsed, slots, layout, machine>>

-----------------------------------------------------------------------------
\* Slots.

ModRegister == "$$MOD"
InQuotes(m) == "\"" \o m \o "\""

\* The orders qsort may leave: by falling ref_count.
ByUse(bag) ==
  {s \in SetToSeqs(DOMAIN bag) : \A a, b \in DOMAIN s : a < b => bag[s[a]] >= bag[s[b]]}

Place(order, name) == CHOOSE k \in DOMAIN order : order[k] = name

\* A bug: slots are counted from one.
SlotFromOne(order, name) == Place(order, name)
SlotIn(order, name) == Place(order, name) - 1

\* A bug: slots are given before the sort.
NumberingUnsorted(order) ==
  LET walk == SetToSeq(ToSet(order)) IN [name \in ToSet(order) |-> SlotIn(walk, name)]
Numbering(order) == [name \in ToSet(order) |-> SlotIn(order, name)]

\* The built-in register joins the others, and the name of each module used
\* joins the constants, as a string; then each list is sorted and numbered.
Flatten ==
  LET r == regs (+) SetToBag({ModRegister})
      names == [m \in {InQuotes(n) : n \in Modules} |-> Cardinality({k \in Lines : InQuotes(lines[k].mod) = m})]
      c == consts (+) names
  IN  /\ phase = "flatten"
      /\ IF ModRegister \in DOMAIN regs THEN phase' = "failed" /\ UNCHANGED <<i, slots>>
         ELSE /\ \E ro \in ByUse(r), co \in ByUse(c) :
                   /\ regs' = r /\ consts' = c
                   /\ regSlot' = Numbering(ro) /\ constSlot' = Numbering(co)
                   /\ outRegs' = ro /\ outConsts' = co
              /\ phase' = "layout" /\ i' = 1
      /\ UNCHANGED <<given, parsed, layout, machine>>

-----------------------------------------------------------------------------
\* Layout.

Bytes(argc) == WordBytes + argc * 2 * WordBytes
Nops(bytes) == IF align = 0 THEN 0 ELSE (align - (bytes % align)) % align

\* An instruction with its padding, and the line itself, which counts a word
\* for each argument where it takes two.
PreSize(ins)  == LET b == Bytes(Len(ins.args)) IN b + Nops(b) * WordBytes
LineSize(ins) == Bytes(Len(ins.args)) + Nops((1 + Len(ins.args)) * WordBytes) * WordBytes

\* The first n numbers of a sequence together.
SumTo(s, n) ==
  LET sum[j \in 0 .. n] == IF j = 0 THEN 0 ELSE sum[j - 1] + s[j]
  IN  sum[n]

\* A bug: what is put before the line is not counted.
ReservedLineOnly(pre, ins) == LineSize(ins)
Reserved(pre, ins) ==
  LineSize(ins) + SumTo([n \in DOMAIN pre |-> PreSize(pre[n])], Len(pre))

Arg(type, val) == [type |-> type, val |-> val]

\* A word stands in the instruction, except in a LOAD_CONST.  The place of a
\* label is filled when labels are resolved; that of no constant is not.
Assembled(line, arg) ==
  CASE arg.kind = "reg"   -> Arg("REGISTER", regSlot[arg.text])
    [] arg.kind = "const" -> Arg("CONSTANT", constSlot[arg.text])
    [] arg.kind = "word"  -> IF line.mod = "" /\ line.op = "LOAD_CONST"
                             THEN Arg("CONSTANT", constSlot[arg.text]) ELSE Arg("WORD", arg.val)
    [] OTHER -> Arg("NONE", 0)

ModuleArgs(line) ==
  IF line.mod = "" THEN <<>> ELSE <<Arg("CONSTANT", constSlot[InQuotes(line.mod)]), Arg("WORD", CodeOf(ModBuiltins[line.mod], line.op))>>

Main(line) ==
  [op   |-> IF line.mod = "" THEN line.op ELSE "MOD_OP",
   args |-> ModuleArgs(line) \o [j \in DOMAIN line.args |-> Assembled(line, line.args[j])]]

\* module_lru_evict looks the name up without its quotes.
Unload(m) ==
  IF m \in DOMAIN consts THEN <<[op |-> "MOD_UNLOAD", args |-> <<Arg("CONSTANT", constSlot[m])>>]>>
  ELSE <<>>
Load(m) ==
  [op |-> "MOD_LOAD", args |-> <<Arg("REGISTER", regSlot[ModRegister]),
                                 Arg("CONSTANT", constSlot[InQuotes(m)])>>]

NeedsLoad(m, flags) == ~flags[m]

\* A bug: the tag is set when the module goes into the cache.
UseModuleMarked(m, flags, c) ==
  [pre   |-> <<>>,
   flags |-> [flags EXCEPT ![m] = TRUE],
   cache |-> IF Cached(c, m) \/ flags[m] THEN c ELSE Insert(c, Capacity, m)]

\* A line that uses a module: on a miss the module goes into the cache, which
\* may evict another; it is loaded here unless its tag says it is.
UseModule(m, flags, c) ==
  LET inserts == ~Cached(c, m) /\ ~flags[m]
      evicts  == inserts /\ Evicts(c, Capacity)
      left    == IF evicts THEN [flags EXCEPT ![Oldest(c)] = FALSE] ELSE flags
  IN  [pre   |-> (IF evicts THEN Unload(Oldest(c)) ELSE <<>>)
                   \o (IF NeedsLoad(m, left) THEN <<Load(m)>> ELSE <<>>),
       flags |-> [left EXCEPT ![m] = TRUE],
       cache |-> IF inserts THEN Insert(c, Capacity, m) ELSE c]

\* MOD_UNLOAD_ALL walks the map of the cache to mark its modules as not loaded.
\* With the two a module's opcode takes, the arguments may be too many.
Layout ==
  LET line  == lines[i]
      all   == line.mod = "" /\ line.op = "MOD_UNLOAD_ALL"
      flags == IF all THEN [m \in Loadable |-> isLoaded[m] /\ ~Cached(cache, m)] ELSE isLoaded
      c     == IF all THEN Clear(cache) ELSE cache
      use   == IF line.mod = "" THEN [pre |-> <<>>, flags |-> flags, cache |-> c]
               ELSE UseModule(line.mod, flags, c)
      bytes == Reserved(use.pre, Main(line))
  IN  /\ phase = "layout" /\ i \in Lines
      /\ IF Len(Main(line).args) > MaxArgs THEN phase' = "overflow" /\ UNCHANGED <<i, layout>>
         ELSE /\ isLoaded' = use.flags /\ cache' = use.cache
              /\ laid' = Append(laid, [pre |-> use.pre, main |-> Main(line), size |-> bytes,
                                       ptr |-> (EntryPoint + size) % Span])
              /\ size' = (size + bytes) % Span
              /\ i' = i + 1 /\ UNCHANGED phase
      /\ UNCHANGED <<given, parsed, slots, machine>>

LayoutEnds ==
  /\ phase = "layout" /\ i \notin Lines
  /\ phase' = "resolve" /\ i' = 1
  /\ UNCHANGED <<given, parsed, slots, layout, machine>>

-----------------------------------------------------------------------------
\* Labels.

Jumps   == {"JMP", "JMP_IF", "JMP_ERR"}
Forward == [JMP |-> "CJMP_FORWARD", JMP_IF |-> "CJMP_FORWARD_IF", JMP_ERR |-> "CJMP_FORWARD_ERR"]
Back    == [JMP |-> "CJMP_BACK", JMP_IF |-> "CJMP_BACK_IF", JMP_ERR |-> "CJMP_BACK_ERR"]

LabelArgs(line) == {j \in DOMAIN line.args : line.args[j].kind = "label"}

Sizes == [k \in DOMAIN laid |-> laid[k].size]

\* A bug: a jump back also counts the line it comes from.
DistanceInclusive(from, to) ==
  LET low == IF lines[from].num < lines[to].num THEN from ELSE to
      high == IF lines[from].num < lines[to].num THEN to - 1 ELSE from
  IN  SumTo(Sizes, high) - SumTo(Sizes, low - 1)

\* compute_byte_offset: the lines between the two, whose order it takes from
\* their numbers.
Distance(from, to) ==
  LET low  == IF lines[from].num < lines[to].num THEN from ELSE to
      high == IF lines[from].num < lines[to].num THEN to ELSE from
  IN  IF lines[from].num = lines[to].num THEN 0 ELSE SumTo(Sizes, high - 1) - SumTo(Sizes, low - 1)

\* It runs past the last line when the numbers of two files mislead it.
Misled(from, to) == (lines[from].num < lines[to].num /\ from > to) \/ (lines[from].num > lines[to].num /\ from < to)

Jump(k, to) ==
  LET back == lines[k].num > lines[to].num
      j == Max(LabelArgs(lines[k]))
  IN  [op |-> IF back THEN Back[lines[k].op] ELSE Forward[lines[k].op],
       args |-> [laid[k].main.args EXCEPT ![j] = Arg("WORD", Distance(k, to))]]

ThreadStart(k, to) ==
  [laid[k].main EXCEPT !.args[Max(LabelArgs(lines[k]))] = Arg("WORD", laid[to].ptr)]

\* One line: the label it names last becomes an address for THREAD_START and
\* an offset for a jump, which a word must be able to hold; any other opcode
\* may not name one.
Resolve ==
  LET line == lines[i]
      label == line.args[Max(LabelArgs(line))].text
      to == labels[label]
  IN  /\ phase = "resolve" /\ i \in Lines
      /\ \/ /\ LabelArgs(line) = {}
            /\ i' = i + 1 /\ UNCHANGED <<phase, laid>>
         \/ /\ LabelArgs(line) # {}
            /\ \/ label \notin DOMAIN labels
               \/ line.mod # "" \/ line.op \notin Jumps \cup {"THREAD_START"}
               \/ label \in DOMAIN labels /\ line.op \in Jumps /\ ~Misled(i, to) /\ Distance(i, to) >= Span
            /\ phase' = "failed" /\ UNCHANGED <<i, laid>>
         \/ /\ LabelArgs(line) # {} /\ label \in DOMAIN labels
            /\ line.mod = "" /\ line.op = "THREAD_START"
            /\ laid' = [laid EXCEPT ![i].main = ThreadStart(i, to)]
            /\ i' = i + 1 /\ UNCHANGED phase
         \/ /\ LabelArgs(line) # {} /\ label \in DOMAIN labels
            /\ line.mod = "" /\ line.op \in Jumps
            /\ Misled(i, to) \/ Distance(i, to) < Span
            /\ IF Misled(i, to) THEN phase' = "crash" /\ UNCHANGED <<i, laid>>
               ELSE /\ laid' = [laid EXCEPT ![i].main = Jump(i, to)]
                    /\ i' = i + 1 /\ UNCHANGED phase
      /\ UNCHANGED <<given, parsed, slots, isLoaded, cache, size, machine>>

-----------------------------------------------------------------------------
\* Emission.

Padding(bytes) == [n \in 1 .. Nops(bytes) |-> [op |-> "NOP", args |-> <<>>]]
Padded(ins) == <<ins>> \o Padding(Bytes(Len(ins.args)))
Emitted(l) == FlattenSeq([n \in DOMAIN l.pre |-> Padded(l.pre[n])]) \o Padded(l.main)

Stream == FlattenSeq([k \in DOMAIN laid |-> Emitted(laid[k])])
Start(stream, n) ==
  EntryPoint + SumTo([j \in DOMAIN stream |-> Bytes(Len(stream[j].args))], n - 1)

Encoded(ins) == [word |-> OpcodeWord(CodeOf(Builtins, ins.op), Len(ins.args)), argv |-> ins.args]

Write ==
  LET stream == Stream
      starts == [n \in 1 .. Len(stream) + 1 |-> Start(stream, n)]
      end    == starts[Len(stream) + 1]
  IN  /\ phase = "resolve" /\ i \notin Lines
      /\ IF EntryPoint + size >= Span THEN phase' = "failed" /\ UNCHANGED code
         ELSE IF end > EntryPoint + size THEN phase' = "overrun" /\ UNCHANGED code
         ELSE /\ phase' = "run"
              /\ code' = [a \in {starts[n] : n \in DOMAIN stream} |->
                            Encoded(stream[CHOOSE n \in DOMAIN stream : starts[n] = a])]
      /\ UNCHANGED <<given, i, parsed, slots, layout, PC, loaded, bypassed>>

-----------------------------------------------------------------------------
\* Execution, of one thread and those it starts.

\* What the machine makes of an instruction: the opcode its word names and as
\* many arguments as the word counts.
Decoded(ins) == [op   |-> Builtins.codes[Code(ins.word)].name,
                 args |-> SubSeq(ins.argv, 1, Argc(ins.word))]

Ins == Decoded(code[PC])
Legal == Accepts(Builtins.codes[Code(code[PC].word)], Argc(code[PC].word))
Ready(ops) == phase = "run" /\ PC \in DOMAIN code /\ Legal /\ Ins.op \in ops
Following == PC + Bytes(Len(Ins.args))

Forwards == {Forward[op] : op \in Jumps}
Backs    == {Back[op] : op \in Jumps}

ASSUME EmittedOK ==
  /\ MaxArgs >= 2
  /\ \A op \in Forwards \cup Backs \cup {"NOP", "MOD_LOAD", "MOD_UNLOAD", "MOD_OP"} :
       \E c \in DOMAIN Builtins.codes : Builtins.codes[c].name = op
  /\ \A n \in DOMAIN BuiltinOps :
       BuiltinOps[n].name \in Forwards \cup Backs \cup {"THREAD_START"} => BuiltinOps[n].min >= 1

JumpsOver(from, to) == \E k \in Lines : lines[k].mod # "" /\ from < laid[k].ptr /\ laid[k].ptr < to

Goes(to) ==
  /\ PC' = to
  /\ bypassed' = (bypassed \/ (to # Following /\ JumpsOver(PC, to)))

Faults == phase' = "fault" /\ UNCHANGED <<PC, loaded, bypassed>>

\* A jump by no bytes is none.
ExecJump ==
  LET offset == Ins.args[1].val
  IN  /\ Ready(Forwards \cup Backs)
      /\ \E taken \in IF Ins.op \in {"CJMP_FORWARD", "CJMP_BACK"} THEN {TRUE} ELSE BOOLEAN :
           Goes(IF ~taken \/ offset = 0 THEN Following
                ELSE IF Ins.op \in Forwards THEN (PC + offset) % Span ELSE (PC - offset) % Span)
      /\ UNCHANGED <<given, phase, i, parsed, slots, layout, code, loaded>>

\* A jump to an address or by an offset in a register, which may be any.
Computed == Jumps \cup {"JMP_OFF", "JMP_OFF_IF", "JMP_OFF_ERR"}
ExecComputed ==
  /\ Ready(Computed)
  /\ \E to \in 0 .. Span - 1 : Goes(to)
  /\ UNCHANGED <<given, phase, i, parsed, slots, layout, code, loaded>>

\* The new thread starts where the word says that follows the first argument, or
\* is the only one.
ExecThreadStart ==
  LET start == Ins.args[IF Len(Ins.args) = 1 THEN 1 ELSE 2]
  IN  /\ Ready({"THREAD_START"})
      /\ \/ /\ start.type = "WORD"
            /\ (\E to \in {Following, start.val} : Goes(to)) /\ UNCHANGED <<loaded, phase>>
         \/ start.type # "WORD" /\ Faults
      /\ UNCHANGED <<given, i, parsed, slots, layout, code>>

\* The modules an argument may stand for: a constant is the name of one, a
\* register holds the name or the number of any, or neither.
Named(arg) ==
  LET names == {InQuotes(m) : m \in Loadable}
  IN  CASE arg.type = "CONSTANT" -> {outConsts[arg.val + 1]} \cap names
        [] arg.type = "REGISTER" -> names
        [] OTHER -> {}
Unnamed(arg) == arg.type # "CONSTANT" \/ Named(arg) = {}

\* No slot of vm->modules is free.
Full == Cardinality(loaded) >= ModSlots

\* A module that is loaded gets another reference, a new one a slot; with none
\* free the register gets an error bit and the thread goes on.  The register
\* must be one that may be written: the assembler's own is.
ExecModLoad ==
  /\ Ready({"MOD_LOAD"})
  /\ \/ /\ Ins.args[1].type = "REGISTER"
        /\ \/ \E name \in Named(Ins.args[2]) : loaded' = IF Full THEN loaded ELSE loaded \cup {name}
           \/ Unnamed(Ins.args[2]) /\ UNCHANGED loaded
        /\ Goes(Following) /\ UNCHANGED phase
     \/ Unnamed(Ins.args[2]) /\ Faults
     \/ Ins.args[1] # Arg("REGISTER", regSlot[ModRegister]) /\ Faults
  /\ UNCHANGED <<given, i, parsed, slots, layout, code>>

\* A module goes with its last reference.  One the assembler puts in names a
\* constant that is no string, and unloads nothing.
ExecModUnload ==
  /\ Ready({"MOD_UNLOAD"})
  /\ \/ /\ \E name \in Named(Ins.args[1]) \cap loaded : loaded' \in {loaded, loaded \ {name}}
        /\ bypassed' = TRUE /\ PC' = Following /\ UNCHANGED phase
     \/ /\ Ins.args[1].type \in {"REGISTER", "CONSTANT"} /\ Named(Ins.args[1]) \cap loaded = {}
        /\ Goes(Following) /\ UNCHANGED <<loaded, phase>>
     \/ Ins.args[1].type # "CONSTANT" /\ Faults
  /\ UNCHANGED <<given, i, parsed, slots, layout, code>>

\* The call of a module that is not loaded is a fault, and so are two too many
\* or too few arguments for its opcode, which is found by its number.
MayCall(name) ==
  LET map == ModBuiltins[CHOOSE m \in Loadable : InQuotes(m) = name]
      number == Ins.args[2]
  IN  number.type = "WORD" /\ number.val \in DOMAIN map.codes /\ Accepts(map.codes[number.val], Len(Ins.args) - 2)

Misses(arg) == arg.type = "REGISTER" \/ (arg.type = "CONSTANT" /\ Named(arg) \cap loaded = {})

\* What a register holds may be the number of no module.
ExecModOp ==
  LET called == Named(Ins.args[1]) \cap loaded
      number == Ins.args[2].type = "WORD"
  IN  /\ Ready({"MOD_OP"})
      /\ \/ (\E name \in called : MayCall(name)) /\ Goes(Following) /\ UNCHANGED <<loaded, phase>>
         \/ number /\ Misses(Ins.args[1]) /\ phase' = "missing" /\ UNCHANGED <<PC, loaded, bypassed>>
         \/ /\ ~number \/ Ins.args[1].type # "CONSTANT" \/ \E name \in called : ~MayCall(name)
            /\ Faults
      /\ UNCHANGED <<given, i, parsed, slots, layout, code>>

\* One reference of each module: those loaded more than once may stay.
ExecModUnloadAll ==
  /\ Ready({"MOD_UNLOAD_ALL"})
  /\ loaded' \in SUBSET loaded /\ bypassed' = TRUE
  /\ PC' = Following
  /\ UNCHANGED <<given, phase, i, parsed, slots, layout, code>>

\* An opcode is not called with arguments it does not accept.
ExecIllegal ==
  /\ phase = "run" /\ PC \in DOMAIN code /\ ~Legal
  /\ phase' = "fault"
  /\ UNCHANGED <<given, i, parsed, slots, layout, machine>>

ExecOther ==
  /\ phase = "run" /\ PC \in DOMAIN code /\ Legal
  /\ Ins.op \notin Forwards \cup Backs \cup Computed
       \cup {"THREAD_START", "MOD_LOAD", "MOD_UNLOAD", "MOD_OP", "MOD_UNLOAD_ALL", "HALT"}
  /\ Goes(Following)
  /\ UNCHANGED <<given, phase, i, parsed, slots, layout, code, loaded>>

\* HALT; the fetch past the end, which is a fault; or bytes nobody wrote.
ExecEnds ==
  /\ phase = "run"
  /\ phase' = IF PC \in DOMAIN code THEN "halted" ELSE IF PC < EntryPoint + size THEN "astray" ELSE "end"
  /\ PC \in DOMAIN code => Legal /\ Ins.op = "HALT"
  /\ UNCHANGED <<given, i, parsed, slots, layout, machine>>

Next ==
  \/ ParseLine \/ ParseEnds \/ Flatten
  \/ Layout \/ LayoutEnds \/ Resolve \/ Write
  \/ ExecJump \/ ExecComputed \/ ExecThreadStart
  \/ ExecModLoad \/ ExecModUnload \/ ExecModOp \/ ExecModUnloadAll \/ ExecIllegal \/ ExecOther \/ ExecEnds

Undefined == {"overread", "overflow", "crash", "overrun"}
Over == {"rejected", "failed", "halted", "end", "astray", "missing", "fault"} \cup Undefined
Stopped == phase \in Over /\ UNCHANGED vars

Spec == Init /\ [][Next \/ Stopped]_vars

-----------------------------------------------------------------------------
\* Properties.

Slots(bag) == 0 .. Cardinality(DOMAIN bag) - 1
Instr == [op : STRING, args : Seq([type : {"REGISTER", "CONSTANT", "WORD", "NONE"}, val : Nat])]

\* Every variable has its type, and the tables the dimensions they share.
TypeOK ==
  /\ phase \in Over \cup {"parse", "flatten", "layout", "resolve", "run"}
  /\ i \in 1 .. Len(text) + 1 /\ fatal \in BOOLEAN /\ Len(lines) <= Len(text)
  /\ \A l \in DOMAIN labels : labels[l] \in Lines
  /\ IsABag(regs) /\ IsABag(consts)
  /\ \A r \in DOMAIN regSlot : regSlot[r] \in Slots(regs)
  /\ \A c \in DOMAIN constSlot : constSlot[c] \in Slots(consts)
  /\ isLoaded \in [Loadable -> BOOLEAN]
  /\ cache.count \in 0 .. Len(cache.data) /\ ToSet(cache.data) \subseteq Modules
  /\ size \in 0 .. Span - 1
  /\ Len(laid) = IF phase \in {"parse", "flatten", "rejected"} \/ regSlot = <<>> THEN 0
                 ELSE IF phase \in {"layout", "overflow"} THEN i - 1 ELSE Len(lines)
  /\ \A a \in DOMAIN code : a \in 0 .. Span - 1 /\ code[a].word \in 0 .. (MaxArgs + 1) * CodeSpan - 1 /\ Decoded(code[a]) \in Instr
  /\ PC \in Nat /\ bypassed \in BOOLEAN

\* What the assembler's documents do not speak of: more than one blank after a
\* label, or none, and words that are numbers in hexadecimal only.
Mnemonic(t) == Known(Builtins, t) \/ \E m \in Loadable : Known(ModBuiltins[m], t)
Documented ==
  \A k \in DOMAIN text : \A j \in DOMAIN text[k] :
    /\ text[k][j] = ":" =>
         j = Len(text[k]) \/ (j + 1 < Len(text[k]) /\ text[k][j + 1] = Blank /\ text[k][j + 2] # Blank)
    /\ text[k][j] \in DOMAIN Hex =>
         Mnemonic(text[k][j]) \/ (text[k][j] \in DOMAIN Dec /\ Dec[text[k][j]] = Hex[text[k][j]])

\* A line somebody may have meant.
WellFormed(k) ==
  /\ IF src[k].mod = "" THEN Known(Builtins, src[k].op)
     ELSE src[k].mod \in Loadable /\ Known(ModBuiltins[src[k].mod], src[k].op)
  /\ \A j \in 1 .. k - 1 : src[j].label = "" \/ src[j].label # src[k].label

\* The lines come from one file: srsvm_as numbers each file from one.
OneFile == \A k \in DOMAIN src : k > 1 => src[k - 1].num < src[k].num

\* Padding is asked for that an instruction never needs.
WordAligned == IF align = 0 THEN TRUE ELSE WordBytes % align = 0

JumpsToItself == \E k \in DOMAIN src : \E j \in LabelArgs(src[k]) : src[k].args[j].text = src[k].label

Total == SumTo(Sizes, Len(laid))

\* However a documented text is laid out, with blanks, a comment, its mnemonic in
\* any case or its number, its label, opcode and arguments are those it was
\* written for; and it is refused if, and only if, nobody can have meant it
\* (srsvm_asm_line_parse).
LinesAsWritten ==
  Documented /\ phase = "parse" =>
    /\ fatal <=> \E k \in 1 .. i - 1 : ~WellFormed(k)
    /\ ~fatal => lines = SubSeq(src, 1, i - 1)

\* Where labels were computed (emit, asm.c:1438-1563) is where instructions are
\* written (1642-1705): each line starts at its address and the last ends with
\* the buffer, unless padding is asked for or the program is larger than a word
\* can count.
LayoutExact ==
  WordAligned /\ Total < Span =>
    /\ phase # "overrun"
    /\ code # <<>> =>
         /\ Start(Stream, Len(Stream) + 1) = EntryPoint + size
         /\ \A k \in DOMAIN laid : laid[k].ptr \in DOMAIN code /\ Decoded(code[laid[k].ptr]) = Emitted(laid[k])[1]

\* Whatever order the sorts leave, the slot an instruction names holds, in the
\* lists that are emitted, the register or constant the line names.
NamesResolve ==
  \A k \in DOMAIN laid : \A j \in DOMAIN lines[k].args :
    LET a == laid[k].main.args[j + Len(ModuleArgs(lines[k]))]
    IN  /\ lines[k].args[j].kind = "reg" => a.type = "REGISTER" /\ outRegs[a.val + 1] = lines[k].args[j].text
        /\ a.type = "CONSTANT" => outConsts[a.val + 1] = lines[k].args[j].text

\* The line whose bytes the thread executes.
at ==
  LET here == {k \in DOMAIN laid : laid[k].ptr <= PC /\ PC < laid[k].ptr + laid[k].size}
  IN  IF code = <<>> THEN 1 ELSE IF here = {} THEN Len(src) + 1 ELSE Max(here)

Meaning == INSTANCE SourceProgram WITH src <- src, at <- at

\* Every jump is to a label.
LabelsOnly ==
  \A k \in DOMAIN src : src[k].mod = "" =>
    /\ src[k].op \notin (Computed \ Jumps) \cup Forwards \cup Backs
    /\ src[k].op \in Jumps \cup {"THREAD_START"} => LabelArgs(src[k]) # {}

\* Executing what is emitted takes control through the lines as the source says,
\* loads and padding being steps within a line: for one file of documented
\* texts, no padding, jumps to labels only, and no line that jumps to itself.
FollowsSource ==
  [][Documented /\ OneFile /\ WordAligned /\ LabelsOnly /\ ~JumpsToItself =>
       Meaning!Next \/ UNCHANGED <<src, at>>]_vars

\* A module opcode finds its module loaded (builtin_MOD_OP), whatever the cache
\* of the assembler has evicted and wherever threads jump, unless the machine's
\* table is full: what the cache evicts is never unloaded.  That is as long as the
\* thread jumped over no line that uses a module and none unloaded one, and no
\* line is a MOD_OP itself.
LoadedWhenCalled ==
  phase = "missing" /\ WordAligned /\ (\A k \in Lines : lines[k].op # "MOD_OP") => bypassed \/ Full
=============================================================================
