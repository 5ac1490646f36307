------------------------------ MODULE OpcodeMap ------------------------------
(***************************************************************************)
(* The opcodes of the machine, and those of a module (src/lib/opcode.c),   *)
(* and how an instruction names one.                                       *)
(*                                                                         *)
(* A map is [names, codes]: what the two trees find, by the name without   *)
(* its case and by the number.  Nothing is taken out of it, and insert     *)
(* follows the orders of the searches.                                     *)
(***************************************************************************)
EXTENDS Naturals, SequencesExt

CONSTANTS
  MaxArgs,      \* MAX_INSTRUCTION_ARGS: what the top bits of a word can count
  CodeSpan,     \* the value of the lowest of these bits
  Folded,       \* the name strcasecmp takes another spelling for
  Hex           \* what sscanf reads of a text as a hexadecimal number

ASSUME OpcodesOK ==
  /\ MaxArgs \in Nat \ {0} /\ CodeSpan \in Nat \ {0}
  /\ Folded \in [DOMAIN Folded -> STRING] /\ Hex \in [DOMAIN Hex -> Nat]

\* What is registered: every opcode has a number, a name and limits.
Opcodes(ops) ==
  /\ ops \in Seq(ToSet(ops))
  /\ ToSet(ops) \subseteq [code : Nat, name : STRING \ {""}, min : Nat, max : Nat]

Fold(name) == IF name \in DOMAIN Folded THEN Folded[name] ELSE name

NoOpcodes == [names |-> <<>>, codes |-> <<>>]

Known(map, name) == name # "" /\ Fold(name) \in DOMAIN map.names

With(f, x, y) == [z \in {x} \cup DOMAIN f |-> IF z = x THEN y ELSE f[z]]

\* An opcode that has the name or the number of another does not get in.
Enter(map, op) ==
  IF Known(map, op.name) \/ op.code \in DOMAIN map.codes THEN map
  ELSE [names |-> IF op.name = "" THEN map.names ELSE With(map.names, Fold(op.name), op.code),
        codes |-> With(map.codes, op.code, op)]

Registered(ops) ==
  LET map[n \in 0 .. Len(ops)] == IF n = 0 THEN NoOpcodes ELSE Enter(map[n - 1], ops[n])
  IN  map[Len(ops)]

\* One that does not get in fails the machine, the assembler or the module, and
\* so does one of the machine's that no instruction could name.
Complete(ops)  == Cardinality(DOMAIN Registered(ops).codes) = Len(ops)
Encodable(op) == op.code < CodeSpan /\ op.min <= MaxArgs /\ op.max <= MaxArgs

\* parse_opcode: by name, then by number; sscanf is content with the first
\* digits of a word, and A to F are digits.  None or one.
Resolved(map, text) ==
  IF Known(map, text) THEN {map.codes[map.names[Fold(text)]]}
  ELSE {map.codes[c] : c \in {Hex[t] : t \in {text} \cap DOMAIN Hex} \cap DOMAIN map.codes}

CodeOf(map, name) == map.names[Fold(name)]

\* The word that begins an instruction, and what the machine reads of it.
OpcodeWord(code, argc) == ((argc * CodeSpan) % ((MaxArgs + 1) * CodeSpan)) + code
Argc(word) == word \div CodeSpan
Code(word) == word % CodeSpan

Accepts(op, argc) == op.min <= argc /\ argc <= op.max
===============================================================================
