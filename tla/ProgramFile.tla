----------------------------- MODULE ProgramFile -----------------------------
(***************************************************************************)
(* A program file (src/lib/program.c) between the assembler that writes it *)
(* and the wrapper and runtime that read it.  The file is a sequence of    *)
(* fields, each read or written whole: a short read or write of one is an  *)
(* error of the whole.  What fwrite takes waits in the buffer of the       *)
(* stream until stdio writes some of it; the disk may be full, the         *)
(* assembler killed, and a reader may read before the writer is done.      *)
(* Undefined behaviour of a reader is the end of it: nothing it may do     *)
(* after that is in the model.                                             *)
(***************************************************************************)
EXTENDS Naturals, SequencesExt

CONSTANTS
  NULL,
  Sources,      \* what is assembled: [ws, zlib, registers, constants, vmem], for
                \* the word size and build of the assembler, the names of the
                \* registers and the constants in the order of their slots, and
                \* the virtual memory other users of the library ask for
  Scripts,      \* the sources somebody made a script of, with a first line
  Builds,       \* the builds of the runtime: [ws, zlib]
  MaxRegs,      \* SRSVM_REGISTER_MAX_COUNT
  MaxConsts,    \* SRSVM_CONST_MAX_COUNT
  Unescape      \* escape sequence -> the character it stands for

Wrapper == [ws |-> 0, zlib |-> FALSE]     \* program.c built without WORD_SIZE

\* The text of a string has no character NUL in it, and no escape is one.
IsConstant(c) ==
  /\ c = [type |-> c.type, val |-> c.val]
  /\ c.type = "STR" => /\ c.val \in Seq(ToSet(c.val))
                       /\ "NUL" \notin ToSet(c.val) \cup ToSet(Unescape)

ASSUME ProgramFileOK ==
  /\ MaxRegs \in Nat \ {0} /\ MaxConsts \in Nat \ {0}
  /\ Scripts \subseteq Sources
  /\ \A s \in Sources : /\ s.registers \in Seq(ToSet(s.registers))
                         /\ s.constants \in Seq(ToSet(s.constants))
                         /\ s.vmem \in Seq(ToSet(s.vmem))
                         /\ s.zlib \in BOOLEAN
                         /\ \A c \in ToSet(s.constants) : IsConstant(c)
  /\ \A b \in Builds : b.ws # 0 /\ b.zlib \in BOOLEAN
  /\ NULL \notin Builds \cup {Wrapper}

VARIABLES
  file,         \* the fields at the path, NULL when there is no file
  writer,       \* the assembler: [pc, prog, left, buf, wasFull]; wasFull
                \* remembers that the disk was full since the file was opened
  report,       \* what the last assembler said: "none", "stored" or "failed"
  full,         \* the disk is full
  reader        \* who runs the program: [pc, build, pos, torn, prog]; torn
                \* remembers that the file was emptied under the open stream

vars == <<file, writer, report, full, reader>>

-----------------------------------------------------------------------------
\* What the assembler builds.

\* A bug: one character of the text is taken for a third quote.
StrLenShort(text) == IF text = <<>> THEN 0 ELSE Len(text) - 1

\* A string constant: str_len counts the characters between the quotes, escape
\* sequences twice, and so reaches past the end of the unescaped copy.
StrLen(text) == Len(text) + Cardinality({i \in DOMAIN text : text[i] \in DOMAIN Unescape})
Raw(text) == [i \in DOMAIN text |-> IF text[i] \in DOMAIN Unescape THEN Unescape[text[i]] ELSE text[i]]
StrBytes(text) ==
  [i \in 1 .. StrLen(text) |-> IF i <= Len(text) THEN Raw(text)[i]
                               ELSE IF i = Len(text) + 1 THEN "NUL" ELSE "junk"]

Value(c) == IF c.type = "STR" THEN StrBytes(c.val) ELSE c.val

\* Registers are listed and constants numbered in the order of their slots.
Assembled(s) ==
  [ws |-> s.ws, shebang |-> FALSE, registers |-> s.registers, vmem |-> s.vmem,
   lmem |-> <<[zlib |-> s.zlib, data |-> "code"]>>, zlib |-> s.zlib,
   constants |-> [i \in DOMAIN s.constants |->
                    [slot |-> i - 1, type |-> s.constants[i].type, val |-> Value(s.constants[i])]]]

-----------------------------------------------------------------------------
\* srsvm_program_serialize: the fields in their order.

FieldNames == {"shebang", "magic", "word_size", "entry_point", "num_registers", "register",
               "num_vmem_segments", "vmem", "num_lmem_segments", "lmem", "num_constants",
               "constants_compressed", "block", "constant"}
Field(name, val) == <<name, val>>
NameOf(x) == x[1]
ValueOf(x) == x[2]
Fields(name, s) == [i \in DOMAIN s |-> Field(name, s[i])]
Counted(count, item, s) == <<Field(count, Len(s))>> \o Fields(item, s)

Deflate(data) == [deflated |-> data]
Inflate(block) == block.deflated

Metadata(p) == <<Field("magic", "SRS"), Field("word_size", p.ws), Field("entry_point", "0x1000")>>

LmemField(seg) == [seg EXCEPT !.data = IF seg.zlib THEN Deflate(@) ELSE @]

ConstantsFields(p) ==
  <<Field("num_constants", Len(p.constants)), Field("constants_compressed", p.zlib)>>
    \o IF p.zlib THEN <<Field("block", Deflate(p.constants))>> ELSE Fields("constant", p.constants)

Serialized(p) ==
  Metadata(p)
    \o Counted("num_registers", "register", p.registers)
    \o Counted("num_vmem_segments", "vmem", p.vmem)
    \o Counted("num_lmem_segments", "lmem", [i \in DOMAIN p.lmem |-> LmemField(p.lmem[i])])
    \o ConstantsFields(p)

-----------------------------------------------------------------------------
\* srsvm_program_deserialize: what the fields read so far come to.  `at` is the
\* field expected next, or "end", "refused" or, where the behaviour is, "undefined".

Refuse(a) == [a EXCEPT !.at = "refused"]
Expect(a, at) == [a EXCEPT !.at = at]
Marked(a, at) == [a EXCEPT !.at = at, !.prog.shebang = TRUE]
Sized(a, at, ws) == [a EXCEPT !.at = at, !.prog.ws = ws]

\* A counted list: the count, then the elements.
Count(a, x, item, next) == [a EXCEPT !.left = ValueOf(x), !.at = IF ValueOf(x) = 0 THEN next ELSE item]
Element(a, list, v, next) ==
  [a EXCEPT !.prog[list] = Append(@, v), !.left = @ - 1, !.at = IF a.left = 1 THEN next ELSE @]

\* Only a build with WORD_SIZE knows the line of a script, and it looks for one
\* only once; a build without stops at the word size.
ReadMetadata(b, a, x) ==
  CASE a.at = "magic" /\ NameOf(x) = "shebang" /\ b # Wrapper -> Marked(a, "magic2")
    [] a.at \in {"magic", "magic2"} /\ x = Field("magic", "SRS") -> Expect(a, "word_size")
    [] a.at = "word_size" /\ b = Wrapper -> Sized(a, "end", ValueOf(x))
    [] a.at = "word_size" /\ b # Wrapper /\ b.ws = ValueOf(x) -> Sized(a, "entry_point", ValueOf(x))
    [] a.at = "entry_point" -> Expect(a, "num_registers")
    [] OTHER -> Refuse(a)

\* A bug: a machine full of registers is one too many.
ReadRegistersStrict(a, x) ==
  IF a.at = "register" THEN Element(a, "registers", ValueOf(x), "num_vmem_segments")
  ELSE IF ValueOf(x) >= MaxRegs THEN Refuse(a)
  ELSE Count(a, x, "register", "num_vmem_segments")

\* The index of a register is its place in the list, never stored.
ReadRegisters(a, x) ==
  IF a.at = "register" THEN Element(a, "registers", ValueOf(x), "num_vmem_segments")
  ELSE IF ValueOf(x) > MaxRegs THEN Refuse(a)
  ELSE Count(a, x, "register", "num_vmem_segments")

ReadVmem(a, x) ==
  IF a.at = "vmem" THEN Element(a, "vmem", ValueOf(x), "num_lmem_segments")
  ELSE Count(a, x, "vmem", "num_lmem_segments")

ReadLmem(b, a, x) ==
  IF a.at = "num_lmem_segments" THEN Count(a, x, "lmem", "num_constants")
  ELSE IF ~ValueOf(x).zlib THEN Element(a, "lmem", ValueOf(x), "num_constants")
  ELSE IF ~b.zlib THEN Refuse(a)
  ELSE Element(a, "lmem", [ValueOf(x) EXCEPT !.data = Inflate(@)], "num_constants")

Claimed(a, slot) == \E i \in DOMAIN a.prog.constants : a.prog.constants[i].slot = slot

\* The slot MaxConsts passes the test, and claimed_slots is read, and written,
\* one past its end.
ReadConst(a, c) ==
  IF a.at \in {"refused", "undefined"} THEN a
  ELSE IF c.slot = MaxConsts THEN Expect(a, "undefined")
  ELSE IF c.slot > MaxConsts \/ Claimed(a, c.slot) THEN Refuse(a)
  ELSE Element(a, "constants", c, "end")

ReadBlock(a, consts) ==
  LET read[n \in 0 .. Len(consts)] == IF n = 0 THEN a ELSE ReadConst(read[n - 1], consts[n])
      all == read[Len(consts)]
  IN  IF all.at \in {"refused", "undefined"} THEN all ELSE Expect(all, "end")

ReadConstants(b, a, x) ==
  CASE a.at = "num_constants" -> [a EXCEPT !.left = ValueOf(x), !.at = "constants_compressed"]
    [] a.at = "constants_compressed" /\ ~ValueOf(x) ->
         [a EXCEPT !.prog.zlib = FALSE, !.at = IF a.left = 0 THEN "end" ELSE "constant"]
    [] a.at = "constants_compressed" /\ ValueOf(x) /\ b.zlib -> [a EXCEPT !.prog.zlib = TRUE, !.at = "block"]
    [] a.at = "block" -> ReadBlock(a, Inflate(ValueOf(x)))
    [] a.at = "constant" -> ReadConst(a, ValueOf(x))
    [] OTHER -> Refuse(a)

NoFields == [at |-> "magic", left |-> 0,
             prog |-> [ws |-> 0, shebang |-> FALSE, registers |-> <<>>, vmem |-> <<>>,
                       lmem |-> <<>>, zlib |-> FALSE, constants |-> <<>>]]

ReadField(b, a, x) ==
  CASE a.at \in {"end", "refused", "undefined"} -> a
    [] a.at \in {"magic", "magic2", "word_size", "entry_point"} -> ReadMetadata(b, a, x)
    [] a.at \in {"num_registers", "register"} -> ReadRegisters(a, x)
    [] a.at \in {"num_vmem_segments", "vmem"} -> ReadVmem(a, x)
    [] a.at \in {"num_lmem_segments", "lmem"} -> ReadLmem(b, a, x)
    [] OTHER -> ReadConstants(b, a, x)

Deserialized(b, fields) ==
  LET read[n \in 0 .. Len(fields)] == IF n = 0 THEN NoFields ELSE ReadField(b, read[n - 1], fields[n])
  IN  read[Len(fields)]

-----------------------------------------------------------------------------
\* srsvm_vm_load_program: what the machine holds, unless it refuses.  Module Mmu
\* models the segments.

CString(bytes) == SelectInSeq(bytes, LAMBDA x : x = "NUL")
Text(bytes) == IF CString(bytes) = 0 THEN bytes ELSE SubSeq(bytes, 1, CString(bytes) - 1)

LoadedConst(c) ==
  CASE c.type = "STR" -> [type |-> "STR", val |-> Text(c.val)]
    [] c.type = "PTR" -> [type |-> "WORD", val |-> c.val]
    [] OTHER -> [type |-> c.type, val |-> c.val]

Loads(p) == \A i \in DOMAIN p.constants : p.constants[i].slot < MaxConsts

Load(p) ==
  [registers |-> [i \in 0 .. MaxRegs - 1 |->
                    IF i < Len(p.registers) THEN p.registers[i + 1] ELSE NULL],
   constants |-> [k \in 0 .. MaxConsts - 1 |->
                    IF \E c \in ToSet(p.constants) : c.slot = k
                    THEN LoadedConst(CHOOSE c \in ToSet(p.constants) : c.slot = k)
                    ELSE NULL]]

-----------------------------------------------------------------------------
NoWriter == [pc |-> "idle", prog |-> NULL, left |-> <<>>, buf |-> <<>>, wasFull |-> FALSE]
NoReader == [pc |-> "idle", build |-> NULL, pos |-> 0, torn |-> FALSE, prog |-> NULL]

Shebang == Field("shebang", "#!")
NotAProgram == <<Field("magic", "something else")>>

Init ==
  /\ file \in {NULL, NotAProgram} \cup {<<Shebang>> \o Serialized(Assembled(s)) : s \in Scripts}
  /\ writer = NoWriter
  /\ report = "none"
  /\ full \in BOOLEAN
  /\ reader = NoReader

\* fopen for writing empties the file, under whoever has it open.
Emptied ==
  /\ file' = <<>>
  /\ reader' = [reader EXCEPT !.torn = @ \/ reader.pos > 0]

Open(s) ==
  /\ writer.pc = "idle"
  /\ Emptied
  /\ writer' = [pc |-> "writing", prog |-> Assembled(s), left |-> Serialized(Assembled(s)),
                buf |-> <<>>, wasFull |-> full]
  /\ report' = "none"
  /\ UNCHANGED full

\* The program could not be emitted: srsvm_program_serialize gets NULL, opens
\* the file all the same and dies of it.
OpenNothing ==
  /\ writer.pc = "idle"
  /\ Emptied
  /\ report' = "none"
  /\ writer' = NoWriter
  /\ UNCHANGED full

Fwrite ==
  /\ writer.pc = "writing" /\ writer.left # <<>>
  /\ writer' = [writer EXCEPT !.left = Tail(@), !.buf = Append(@, Head(writer.left))]
  /\ UNCHANGED <<file, report, full, reader>>

Reaches(n) == file' = file \o SubSeq(writer.buf, 1, n)

\* A bug: what was written stays in the buffer.
FlushKeepsBuffer ==
  /\ writer.pc = "writing" /\ ~full
  /\ \E n \in 1 .. Len(writer.buf) : Reaches(n)
  /\ UNCHANGED <<writer, report, full, reader>>

\* stdio writes some of its buffer when it likes.
Flush ==
  /\ writer.pc = "writing" /\ ~full
  /\ \E n \in 1 .. Len(writer.buf) :
       /\ Reaches(n)
       /\ writer' = [writer EXCEPT !.buf = SubSeq(@, n + 1, Len(@))]
  /\ UNCHANGED <<report, full, reader>>

\* fwrite had to write the buffer and could not: serialize gives up, and fclose
\* writes what there may be room for by then.
FwriteFails ==
  /\ writer.pc = "writing" /\ writer.left # <<>> /\ full
  /\ \E n \in 0 .. Len(writer.buf) : Reaches(n)
  /\ writer' = NoWriter
  /\ report' = "failed"
  /\ UNCHANGED <<full, reader>>

\* A bug: success is reported by a process that ends without fclose.
CloseForgotten ==
  /\ writer.pc = "writing" /\ writer.left = <<>>
  /\ writer' = [NoWriter EXCEPT !.prog = writer.prog, !.wasFull = writer.wasFull]
  /\ report' = "stored"
  /\ UNCHANGED <<file, full, reader>>

\* fclose writes what the buffer still holds, or as much as the disk takes;
\* nobody looks at what it returns.
Close ==
  /\ writer.pc = "writing" /\ writer.left = <<>>
  /\ \E n \in 0 .. Len(writer.buf) :
       /\ IF full THEN n = 0 ELSE n = Len(writer.buf)
       /\ Reaches(n)
  /\ writer' = [NoWriter EXCEPT !.prog = writer.prog, !.wasFull = writer.wasFull]
  /\ report' = "stored"
  /\ UNCHANGED <<full, reader>>

\* The assembler is killed, and its buffer with it.
Kill ==
  /\ writer.pc = "writing"
  /\ writer' = NoWriter
  /\ UNCHANGED <<file, report, full, reader>>

\* Others fill the disk and make room on it.
Disk ==
  /\ full' = ~full
  /\ writer' = [writer EXCEPT !.wasFull = @ \/ (writer.pc = "writing" /\ full')]
  /\ UNCHANGED <<file, report, reader>>

-----------------------------------------------------------------------------
\* Somebody runs the file, by the wrapper or by a runtime.
Start(b) ==
  /\ reader.pc = "idle" /\ file # NULL
  /\ reader' = [NoReader EXCEPT !.pc = "reading", !.build = b]
  /\ UNCHANGED <<file, writer, report, full>>

Runtimes(ws) == {b \in Builds : b.ws = ws}

Ends(p) == [NoReader EXCEPT !.prog = p]

\* What a reader does with the first n fields: read on, give up, run into undefined
\* behaviour, run the program, or, the wrapper, execute the runtime of that word size, if there is
\* one, which opens the file again.
Reads(n) ==
  LET a == Deserialized(reader.build, SubSeq(file, 1, n)) IN
  CASE a.at = "refused" -> {Ends(NULL)}
    [] a.at = "undefined" -> {[Ends(NULL) EXCEPT !.pc = "undefined"]}
    [] a.at = "end" /\ reader.build = Wrapper ->
         IF Runtimes(a.prog.ws) = {} THEN {Ends(NULL)}
         ELSE {[NoReader EXCEPT !.pc = "reading", !.build = b] : b \in Runtimes(a.prog.ws)}
    [] a.at = "end" /\ reader.build # Wrapper -> {Ends(IF Loads(a.prog) THEN a.prog ELSE NULL)}
    [] OTHER -> {[reader EXCEPT !.pos = n]}

Read ==
  /\ reader.pc = "reading" /\ ~reader.torn
  /\ \E n \in reader.pos + 1 .. Len(file) : reader' \in Reads(n)
  /\ UNCHANGED <<file, writer, report, full>>

\* The end of the file, where a field should be.
ReadShort ==
  /\ reader.pc = "reading"
  /\ reader.pos >= Len(file) \/ reader.torn
  /\ reader' = [Ends(NULL) EXCEPT !.torn = reader.torn]
  /\ UNCHANGED <<file, writer, report, full>>

\* The old beginning and the new rest may pass for some program.
ReadTorn ==
  /\ reader.pc = "reading" /\ reader.torn
  /\ reader.pos < Len(file)
  /\ \E s \in Sources : reader' = [Ends(Assembled(s)) EXCEPT !.torn = TRUE]
  /\ UNCHANGED <<file, writer, report, full>>

Next ==
  \/ \E s \in Sources : Open(s)
  \/ OpenNothing \/ Fwrite \/ Flush \/ FwriteFails \/ Close \/ Kill \/ Disk
  \/ \E b \in Builds \cup {Wrapper} : Start(b)
  \/ Read \/ ReadShort \/ ReadTorn

Spec == Init /\ [][Next]_vars

-----------------------------------------------------------------------------
TypeOK ==
  /\ file # NULL => \A i \in DOMAIN file : NameOf(file[i]) \in FieldNames
  /\ writer.pc \in {"idle", "writing"} /\ writer.wasFull \in BOOLEAN
  /\ writer.pc = "writing" => Serialized(writer.prog) = file \o writer.buf \o writer.left
  /\ report \in {"none", "stored", "failed"}
  /\ full \in BOOLEAN
  /\ reader.pc \in {"idle", "reading", "undefined"} /\ reader.torn \in BOOLEAN
  /\ reader.build \in Builds \cup {Wrapper, NULL} /\ (reader.build = NULL <=> reader.pc # "reading")
  /\ reader.pos \in Nat

\* The program at the path, if the file holds the whole of one.
Written(p) == (IF p.shebang THEN <<Shebang>> ELSE <<>>) \o Serialized(p)
Whole(p) == file = Written(p)
Programs == {Assembled(s) : s \in Sources} \cup {[Assembled(s) EXCEPT !.shebang = TRUE] : s \in Scripts}

ASSUME NullOK == NULL \notin Programs \cup {Written(p) : p \in Programs}

Stored == IF file # NULL /\ \E p \in Programs : Whole(p) THEN CHOOSE p \in Programs : Whole(p) ELSE NULL

\* What a build can run: the wrapper no script, and what there is a runtime for; a
\* runtime no other word size, nothing compressed that it cannot inflate, and as many registers
\* and constants as a machine has places for, the last one included.
CanRun(b, p) ==
  IF b = Wrapper THEN ~p.shebang /\ Runtimes(p.ws) # {}
  ELSE /\ p.ws = b.ws
       /\ p.zlib => b.zlib
       /\ Len(p.registers) <= MaxRegs /\ Len(p.constants) <= MaxConsts

Store == INSTANCE ProgramStore
  WITH NULL <- NULL, Runs <- CanRun, store <- Stored,
       job <- (IF writer.pc = "writing" THEN writer.prog ELSE NULL),
       asks <- reader.build, answer <- reader.prog

\* The step in which a runtime's behaviour becomes undefined, and the only files it
\* may become so on: what there is of a program with more constants than a machine
\* has places for.
Dies == reader.pc = "reading" /\ reader'.pc = "undefined"
Oversized == \E p \in Programs : Len(p.constants) > MaxConsts /\ IsPrefix(file, Written(p))

\* However the assembler's writes fall, fail or are cut off, a run gets the
\* whole program that is at the path when its last field is read, or none when
\* there is no whole one or the runtime cannot run it, as long as nobody
\* empties the file under the open stream.  A runtime whose behaviour becomes
\* undefined promises nothing; none does but on a program that is too large.
ImplementsStore ==
  [][~reader.torn' => IF Dies THEN Oversized ELSE Store!Next \/ UNCHANGED Store!vars]_vars

\* An assembler that says it stored the program did, unless the disk was full
\* on the way: the last of it is written by fclose, whose result is ignored.
StoredIfReported == report = "stored" /\ ~writer.wasFull => file = Serialized(writer.prog)

\* A program that runs finds under the slots its instructions name the
\* registers and the values its source named: strings end where the text ends
\* although str_len counts escape sequences twice; a PTR has become a WORD.
Meant(c) ==
  CASE c.type = "STR" -> [type |-> "STR", val |-> Raw(c.val)]
    [] c.type = "PTR" -> [type |-> "WORD", val |-> c.val]
    [] OTHER -> c

MachineAsAssembled ==
  reader.prog # NULL /\ ~reader.torn =>
    LET m == Load(reader.prog) IN
    Loads(reader.prog) /\ \E s \in Sources :
      /\ [reader.prog EXCEPT !.shebang = FALSE] = Assembled(s)
      /\ \A i \in DOMAIN s.registers : m.registers[i - 1] = s.registers[i]
      /\ \A i \in DOMAIN s.constants : m.constants[i - 1] = Meant(s.constants[i])
==============================================================================
