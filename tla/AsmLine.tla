------------------------------- MODULE AsmLine -------------------------------
(***************************************************************************)
(* A line of assembly language (srsvm_asm_line_parse): the lexer, and what *)
(* its label, opcode and arguments are taken for.                          *)
(*                                                                         *)
(* A text is a sequence of symbols: the characters the lexer asks for, and *)
(* words, which are runs of the others.  The lexer keeps pointers into the *)
(* text and cuts it where they end, so what a pointer leads to runs up to  *)
(* the next cut.                                                           *)
(***************************************************************************)
EXTENDS OpcodeMap

CONSTANTS
  Dec,          \* what sscanf reads of a text as a decimal number
  Typed,        \* the texts of constants of other types: TRUE, 10%u8
  BuiltinOps,   \* what load_builtin_opcodes registers, in its order
  ModOps        \* for each module that is found, what it registers; names that
                \* strcmp and strcasecmp sort differently are left to ModuleTable

ASSUME BuiltinsOK ==
  /\ Opcodes(BuiltinOps) /\ Complete(BuiltinOps)
  /\ \A n \in DOMAIN BuiltinOps : Encodable(BuiltinOps[n])
  /\ \A m \in DOMAIN ModOps : m # "" /\ Opcodes(ModOps[m])
  /\ Dec \in [DOMAIN Dec -> Nat]

\* Words are of letters, digits and _.
Blank == " "
Special == {Blank, ":", ".", ";", "\"", "\\", "$", "#", "'", "?", "%", "-", "+"}

Builtins == Registered(BuiltinOps)

\* The modules that load, with their opcodes.
Loadable    == {m \in DOMAIN ModOps : Complete(ModOps[m])}
ModBuiltins == [m \in Loadable |-> Registered(ModOps[m])]

-----------------------------------------------------------------------------
\* The lexer.  0 is a pointer to nothing.

Start0 == [at |-> "INIT", label |-> 0, opcode |-> 0, args |-> <<>>, open |-> 0, cut |-> {},
           str |-> FALSE, esc |-> FALSE, over |-> FALSE]

\* The first character is not looked at.
InInit(s, c, i) == IF c = Blank THEN s ELSE [s EXCEPT !.opcode = i, !.at = "OPCODE"]

\* After the colon everything is passed over, up to a blank or another colon.
InLabel(s, c, i) ==
  IF c = Blank THEN [s EXCEPT !.at = "OPCODE"]
  ELSE IF c = ":" THEN [s EXCEPT !.at = "OPCODE", !.cut = @ \cup {i}]
  ELSE s

\* The opcode begins here even with a blank, which then ends it.
InOpcode(s, c, i) ==
  LET op  == IF s.opcode = 0 THEN i ELSE s.opcode
      end == s.cut \cup {i}
  IN  CASE c = Blank -> [s EXCEPT !.opcode = op, !.cut = end, !.at = "ARG"]
        [] c = ":"   -> [s EXCEPT !.opcode = 0, !.label = op, !.cut = end, !.at = "LABEL"]
        [] c = ";"   -> [s EXCEPT !.opcode = op, !.cut = end, !.at = "COMMENT"]
        [] c = "." \/ c \notin Special -> [s EXCEPT !.opcode = op]
        [] OTHER -> [s EXCEPT !.at = "ERROR"]

\* A bug: a blank ends an argument in a string too.
InArgBlankEnds(s, c, i) ==
  IF c = Blank /\ s.open # 0
  THEN [s EXCEPT !.cut = @ \cup {i}, !.args = Append(@, s.open), !.open = 0, !.str = FALSE]
  ELSE IF c # Blank /\ s.open = 0 THEN [s EXCEPT !.open = i] ELSE s

\* An argument ends at a blank or a comment, outside strings, or at the quote
\* that closes its string, where nothing is cut.  When the last one ends at a
\* blank, the array is read past its end.
InArg(s, c, i) ==
  LET ends   == c \in {Blank, ";"} /\ ~s.str
      closes == s.open # 0 /\ (ends \/ (s.str /\ ~s.esc /\ c = "\""))
  IN  IF Len(s.args) = MaxArgs THEN [s EXCEPT !.at = "ERROR"]
      ELSE [s EXCEPT !.cut  = IF ends THEN @ \cup {i} ELSE @,
                     !.args = IF closes THEN Append(@, s.open) ELSE @,
                     !.open = IF closes THEN 0 ELSE IF s.open = 0 /\ ~ends THEN i ELSE @,
                     !.str  = IF s.str THEN s.esc \/ c # "\"" ELSE c = "\"",
                     !.esc  = s.str /\ ~s.esc /\ c = "\\",
                     !.over = @ \/ (closes /\ ends /\ Len(s.args) + 1 = MaxArgs),
                     !.at   = IF c = ";" /\ ends THEN "COMMENT" ELSE @]

Lex(s, c, i) ==
  CASE s.at = "INIT" -> InInit(s, c, i)     [] s.at = "LABEL" -> InLabel(s, c, i)
    [] s.at = "OPCODE" -> InOpcode(s, c, i) [] s.at = "ARG" -> InArg(s, c, i)
    [] OTHER -> s

Lexed(text) ==
  LET lex[i \in 0 .. Len(text)] == IF i = 0 THEN Start0 ELSE Lex(lex[i - 1], text[i], i)
      s == lex[Len(text)]
  IN  [s EXCEPT !.over = @ \/ (s.at = "ARG" /\ Len(s.args) = MaxArgs),
                !.args = IF s.at = "ARG" /\ s.open # 0 THEN Append(@, s.open) ELSE @]

-----------------------------------------------------------------------------
\* The parts of a line.

Join(symbols) == FoldLeft(LAMBDA a, b : a \o b, "", symbols)

\* What the pointer p leads to.
From(text, s, p) == SubSeq(text, p, Min({j \in s.cut : j >= p} \cup {Len(text) + 1}) - 1)

Quoted(arg) == Len(arg) > 1 /\ arg[1] = "\"" /\ Last(arg) = "\""

\* The places where an escape begins: not where one ends.
Escapes(arg) ==
  FoldLeftDomain(LAMBDA acc, j : IF arg[j] = "\\" /\ j - 1 \notin acc THEN acc \cup {j} ELSE acc, {}, arg)

\* unescape does not know the escape: it writes through no buffer, or returns
\* none, which is copied.
BadEscape(arg) ==
  /\ Quoted(arg)
  /\ \E j \in Escapes(arg) : arg[j + 1] \notin {"a", "b", "f", "n", "r", "t", "v", "\\", "'", "?", "\""}

\* parse_const: a string, another type, a decimal or else a hexadecimal word.
Constant(arg) ==
  LET t == Join(arg)
  IN  CASE Quoted(arg) -> [kind |-> "const", text |-> t, val |-> 0]
        [] t \in Typed -> [kind |-> "const", text |-> t, val |-> 0]
        [] t \in DOMAIN Dec -> [kind |-> "word", text |-> t, val |-> Dec[t]]
        [] t \in DOMAIN Hex \ DOMAIN Dec -> [kind |-> "word", text |-> t, val |-> Hex[t]]
        [] OTHER -> [kind |-> "none", text |-> "", val |-> 0]

Argument(arg) ==
  CASE arg[1] = "$" -> [kind |-> "reg", text |-> Join(arg), val |-> 0]
    [] arg[1] = "#" -> [kind |-> "label", text |-> Join(Tail(arg)), val |-> 0]
    [] OTHER -> Constant(arg)

\* The module and the opcode, apart at the last point.
Split(opcode) ==
  LET dot == Max({0} \cup {j \in DOMAIN opcode : opcode[j] = "."})
  IN  [dot |-> dot > 0, mod |-> Join(SubSeq(opcode, 1, dot - 1)), op |-> Join(SubSeq(opcode, dot + 1, Len(opcode)))]

\* The opcodes a text may stand for: NOP if there is none, of a module if it loads.
OpcodesOf(opcode) ==
  LET part == Split(opcode)
  IN  IF opcode = <<>> THEN Resolved(Builtins, "NOP")
      ELSE IF ~part.dot THEN Resolved(Builtins, part.op)
      ELSE UNION {Resolved(ModBuiltins[m], part.op) : m \in {part.mod} \cap Loadable}

\* The two arguments put before those of a module's opcode.
Offset(opcode) == IF Split(opcode).dot THEN 2 ELSE 0

\* What becomes of a text: a line, "refused", or undefined: arguments read past
\* their array, a word written past that of the instruction, an escape.
Parsed(text) ==
  LET s    == Lexed(text)
      op   == IF s.opcode = 0 THEN <<>> ELSE From(text, s, s.opcode)
      args == [j \in DOMAIN s.args |-> From(text, s, s.args[j])]
  IN  IF s.over THEN [end |-> "overread"]
      ELSE IF \/ s.str \/ s.at = "ERROR" \/ OpcodesOf(op) = {}
              \/ \E j \in DOMAIN args : args[j] \in {<<"$">>, <<"#">>}
      THEN [end |-> "refused"]
      ELSE IF \E j \in DOMAIN args : BadEscape(args[j]) THEN [end |-> "crash"]
      ELSE IF \E j \in DOMAIN args : Argument(args[j]).kind = "word" /\ j + Offset(op) > MaxArgs
      THEN [end |-> "overflow"]
      ELSE [end   |-> "line",
            label |-> IF s.label = 0 THEN {} ELSE {Join(From(text, s, s.label))},
            mod   |-> IF Split(op).dot THEN Split(op).mod ELSE "",
            op    |-> (CHOOSE o \in OpcodesOf(op) : TRUE).name,
            args  |-> [j \in DOMAIN args |-> Argument(args[j])]]
===============================================================================
