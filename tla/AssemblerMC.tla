----------------------------- MODULE AssemblerMC -----------------------------
\* Programs for the model checking of Assembler, as texts and as what they mean.
EXTENDS Assembler, TLC

Numbers == [t \in {ToString(n) : n \in 0 .. 9} |-> CHOOSE n \in 0 .. 9 : ToString(n) = t]

\* Of the texts below, those sscanf reads something of.
DecOf == Numbers @@ ("0x10" :> 0)
HexOf == Numbers @@ ("0x10" :> 16 @@ "AND" :> 10 @@ "ADD" :> 2781)
FoldedTo == "halt" :> "HALT" @@ "jmp" :> "JMP" @@ "jmp_if" :> "JMP_IF" @@ "add" :> "ADD"

\* Of a 16-bit build.
Entry(number, name, min, max) == [code |-> number, name |-> name, min |-> min, max |-> max]
BuiltinTable ==
  <<Entry(0, "NOP", 0, 0), Entry(2, "HALT", 0, 1), Entry(3, "HALT_ERR", 1, 2),
    Entry(7, "ERR_FAULT_ENABLE", 1, 1), Entry(8, "ERR_FAULT_DISABLE", 1, 1),
    Entry(10, "SLEEP", 1, 1), Entry(13, "JMP", 1, 1), Entry(14, "JMP_OFF", 1, 1),
    Entry(15, "JMP_IF", 2, 2), Entry(16, "JMP_OFF_IF", 2, 2), Entry(17, "JMP_ERR", 2, 2),
    Entry(18, "JMP_OFF_ERR", 2, 2), Entry(21, "CJMP_BACK", 1, 1),
    Entry(22, "CJMP_FORWARD", 1, 1), Entry(23, "CJMP_BACK_IF", 2, 2),
    Entry(24, "CJMP_FORWARD_IF", 2, 2), Entry(25, "CJMP_BACK_ERR", 2, 2),
    Entry(26, "CJMP_FORWARD_ERR", 2, 2), Entry(51, "REG_ID", 2, 2),
    Entry(71, "LOAD_CONST", 2, 3), Entry(100, "WORD_EQ", 3, 3), Entry(101, "INCR", 1, 1),
    Entry(102, "DECR", 1, 1), Entry(773, "ARGC", 1, 1), Entry(774, "ARGV", 2, 2),
    Entry(779, "PUT", 1, 1), Entry(780, "PUTS", 1, 1), Entry(781, "PUTS_ERR", 1, 1),
    Entry(512, "ALLOC", 2, 2), Entry(513, "FREE", 1, 1), Entry(517, "LOAD", 3, 4),
    Entry(518, "STORE", 3, 4), Entry(257, "MOD_ID", 2, 2), Entry(259, "MOD_LOAD", 2, 2),
    Entry(260, "MOD_UNLOAD", 1, 1), Entry(263, "MOD_OP", 2, MaxArgs),
    Entry(265, "MOD_UNLOAD_ALL", 0, 0), Entry(1024, "THREAD_JOIN", 1, 2),
    Entry(1025, "THREAD_START", 1, 3), Entry(1026, "THREAD_EXIT", 0, 1),
    Entry(1027, "THREAD_ID", 1, 1), Entry(1028, "THREAD_ARG", 1, 1),
    Entry(1031, "MUTEX_INIT", 1, 1), Entry(1032, "MUTEX_DESTROY", 1, 1),
    Entry(1035, "MUTEX_LOCK", 1, 1), Entry(1036, "MUTEX_UNLOCK", 1, 1)>>

\* Module "v" gives a number twice and does not load.
ModTables == [m \in {"k", "v", "x", "y", "z"} |->
  <<Entry(40, "ADD", 0, 4), Entry(IF m = "v" THEN 40 ELSE 41, "SUB", 1, 1)>>]

-----------------------------------------------------------------------------
\* An argument is a symbol or several, with what they mean.
Arg1(kind, symbols, val) ==
  [kind |-> kind, symbols |-> symbols, val |-> val,
   text |-> Join(IF kind = "label" THEN Tail(symbols) ELSE symbols)]
Reg(r)   == Arg1("reg", <<"$", r>>, 0)
Label(l) == Arg1("label", <<"#", l>>, 0)
Word(w)  == Arg1("word", <<ToString(w)>>, w)
Str(symbols) == Arg1("const", <<"\"">> \o symbols \o <<"\"">>, 0)

Op(op, args)   == [mod |-> "", op |-> op, args |-> args]
ModOp(m, args) == [mod |-> m, op |-> "ADD", args |-> args]
Halt == Op("HALT", <<>>)

\* Every other line has a label.
LabelOf(k) == IF k % 2 = 1 THEN <<"p", "q", "r", "s", "t">>[(k + 1) \div 2] ELSE ""

Meant(k, l) ==
  [num |-> k, label |-> LabelOf(k), mod |-> l.mod, op |-> l.op,
   args |-> [j \in DOMAIN l.args |-> [kind |-> l.args[j].kind, text |-> l.args[j].text, val |-> l.args[j].val]]]

\* Lines are written in three ways, in turn; a NOP may be left out.
Spelt(k, op) ==
  IF k % 3 = 2 /\ op \in Range(FoldedTo) THEN CHOOSE t \in DOMAIN FoldedTo : FoldedTo[t] = op
  ELSE IF k % 3 = 0 /\ op = "HALT" THEN "2" ELSE op
Gap(k) == IF k % 3 = 1 THEN <<Blank>> ELSE <<Blank, Blank>>
Written(k, l) ==
  IF l.op = "NOP" /\ k % 3 # 1 THEN (IF LabelOf(k) = "" THEN <<>> ELSE <<LabelOf(k), ":">>)
  ELSE
  (IF k % 3 = 2 THEN <<Blank, Blank>> ELSE <<>>)
  \o (IF LabelOf(k) = "" THEN <<>> ELSE <<LabelOf(k), ":", Blank>>)
  \o (IF l.mod = "" THEN <<>> ELSE <<l.mod, ".">>) \o <<Spelt(k, l.op)>>
  \o FlattenSeq([j \in DOMAIN l.args |-> Gap(k) \o l.args[j].symbols])
  \o (IF k % 3 = 0 /\ Len(l.args) < MaxArgs THEN <<Blank, ";", Blank, "\"", "HALT">> ELSE <<>>)

File(ls) == [src |-> [k \in DOMAIN ls |-> Meant(k, ls[k])], text |-> [k \in DOMAIN ls |-> Written(k, ls[k])]]

-----------------------------------------------------------------------------
\* Jumps, threads and a module whose name is a constant as well.
Control ==
  {Op("JMP", <<Label("p")>>), Op("JMP_IF", <<Label("q"), Reg("u")>>),
   Op("THREAD_START", <<Reg("u"), Label("q")>>), Op("LOAD_CONST", <<Reg("u"), Word(7)>>),
   ModOp("x", <<Str(<<"x">>)>>), Halt}
ControlFiles == {File(ls) : ls \in [1 .. 4 -> Control]}

\* The other jumps, each way, and a string with what ends an argument elsewhere.
Others == {Op(op, <<Label(l), Reg("u")>>) : op \in {"JMP_IF", "JMP_ERR"}, l \in {"p", "q"}}
          \cup {Op("PUT", <<Word(3)>>), Op("PUT", <<Str(<<"v", Blank, ";", "\\", "\"", "w">>)>>)}
JumpFiles == {File(ls) : ls \in [1 .. 3 -> Others]}

\* Straight lines that use more modules than the cache holds.
Uses == {ModOp(m, <<>>) : m \in {"x", "y", "z"}} \cup {Op("MOD_UNLOAD_ALL", <<>>)}
ModuleFiles == {File(ls \o <<Halt>>) : ls \in [1 .. 5 -> Uses]}

\* And more than the machine has slots for.
FullFiles == {File(ls \o <<Halt>>) : ls \in [1 .. 4 -> {ModOp(m, <<>>) : m \in {"k", "x", "y", "z"}}]}

\* The second file starts again at line one.
TwoFiles ==
  {[File(ls) EXCEPT !.src = [k \in 1 .. 4 |-> [@[k] EXCEPT !.num = IF k > 2 THEN k - 2 ELSE k]]] :
     ls \in [1 .. 4 -> {Op("JMP", <<Label("p")>>), Op("JMP", <<Label("q")>>), Op("NOP", <<>>)}]}

\* What is found out late: unknown labels, a label where none may be, the name
\* of the built-in register, too many arguments.
Wide(n) == [j \in 1 .. n |-> Word(1 + (j % 4))]
Late ==
  {File(<<Op("NOP", <<>>), l, Halt>>) :
     l \in {Op("JMP", <<Label("z")>>), Op("PUT", <<Label("p")>>), ModOp("x", <<Label("p")>>),
            Op("PUT", <<Arg1("reg", <<"$", "$", "MOD">>, 0)>>), ModOp("x", Wide(5)),
            ModOp("x", [j \in 1 .. 6 |-> Reg("u")])}}

\* Opcodes the assembler puts in itself or replaces, written by hand.
Hand ==
  {Op("MOD_LOAD", <<Reg("u"), a>>) : a \in {Str(<<"x">>), Reg("v"), Word(1)}}
  \cup {Op("MOD_UNLOAD", <<a>>) : a \in {Str(<<"x">>), Reg("v")}}
  \cup {Op("MOD_OP", <<a, b>>) : a \in {Str(<<"x">>), Reg("v")}, b \in {Word(4), Reg("v")}}
  \cup {Op("JMP", <<Reg("u")>>), Op("CJMP_BACK", <<Word(9)>>), Op("CJMP_FORWARD", <<Word(6)>>),
         Op("THREAD_START", <<Word(3)>>), Op("THREAD_START", <<Reg("u"), Reg("v")>>)}
HandFiles == {File(<<a, b, ModOp("x", <<>>), Halt>>) : a, b \in Hand}

\* Texts nobody can have meant, and texts that mean something nobody wrote.
Nothing == [num |-> 2, label |-> "", mod |-> "", op |-> "", args |-> <<>>]
Odd ==
  {<<"GO">>, <<"w", ".", "ADD">>, <<"v", ".", "ADD">>, <<"x", ".">>, <<"PUT", Blank, "\"", "v">>,
   <<"PUT", Blank, "$">>, <<"PUT", "\"">>, <<";", Blank, "v">>, <<"p", ":", Blank, "HALT">>,
   <<"q", ":", Blank, Blank, "HALT">>, <<"q", ":", "HALT">>, <<"AND", Blank, "3">>,
   <<"PUT", Blank, "0x10">>, <<"PUT", Blank, "\"", "\\", "q", "\"">>,
   <<"x", ".", "ADD">> \o FlattenSeq([j \in 1 .. 6 |-> <<Blank, "1">>]),
   <<"PUT">> \o FlattenSeq([j \in 1 .. 7 |-> <<Blank, "1">>]) \o <<Blank>>}
OddFiles == {[src |-> [File(<<Halt, Halt>>).src EXCEPT ![2] = Nothing],
              text |-> [File(<<Halt, Halt>>).text EXCEPT ![2] = t]] : t \in Odd}

\* Larger than the address space, once around it, and nearly.
Large == {File([k \in 1 .. n |-> Op("PUT", Wide(7))]) : n \in 6 .. 9}

\* The option -A: none, a divisor of a word, a multiple.
Aligned(n, files) == {[src |-> f.src, text |-> f.text, align |-> n] : f \in files}
AllInputs == Aligned(0, ControlFiles \cup ModuleFiles \cup FullFiles \cup TwoFiles \cup Late
                          \cup HandFiles \cup OddFiles \cup Large)
             \cup UNION {Aligned(n, JumpFiles) : n \in {1, 2, 4, 8}}
=============================================================================
