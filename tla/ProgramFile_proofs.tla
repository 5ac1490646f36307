-------------------------- MODULE ProgramFile_proofs --------------------------
(***************************************************************************)
(* What is proved of ProgramFile for all sources, builds and limits.       *)
(***************************************************************************)
EXTENDS ProgramFile, FiniteSetTheorems, SequenceTheorems, TLAPS

\* The lemmas on induction: there is no tree here.
Shared == INSTANCE SharedLemmas WITH Dangling <- 0

-----------------------------------------------------------------------------
\* What is written is a sequence of fields, each with its name.

Named(A) == \A a \in A : NameOf(a) \in FieldNames
IsFields(x) == x \in Seq(ToSet(x)) /\ Named(ToSet(x))

LEMMA IsSequence ==
  ASSUME NEW x, NEW A, x \in Seq(A)
  PROVE  x \in Seq(ToSet(x)) /\ ToSet(x) \subseteq A
<1>1. x \in [1 .. Len(x) -> A] /\ Len(x) \in Nat /\ DOMAIN x = 1 .. Len(x)
  BY LenProperties
<1>2. x \in [1 .. Len(x) -> ToSet(x)] /\ ToSet(x) \subseteq A
  BY <1>1 DEF ToSet
<1> QED
  BY <1>1, <1>2, SeqDef

\* A function on the places of a sequence is a sequence.
LEMMA MapIsSequence ==
  ASSUME NEW x, x \in Seq(ToSet(x)), NEW f, f = [i \in DOMAIN x |-> f[i]]
  PROVE  f \in Seq(ToSet(f))
<1>1. Len(x) \in Nat /\ DOMAIN x = 1 .. Len(x)
  BY LenProperties
<1>2. f \in [1 .. Len(x) -> ToSet(f)]
  BY <1>1 DEF ToSet
<1> QED
  BY <1>1, <1>2, SeqDef

LEMMA ConcatIsFields ==
  ASSUME NEW x, NEW y, IsFields(x), IsFields(y)
  PROVE  IsFields(x \o y)
<1> DEFINE A == ToSet(x) \cup ToSet(y)
<1>1. x \in Seq(A) /\ y \in Seq(A)
  BY SeqMonotonic DEF IsFields
<1>2. x \o y \in Seq(A)
  BY <1>1, ConcatProperties
<1>3. Named(A)
  BY DEF IsFields, Named
<1> QED
  BY <1>2, <1>3, IsSequence DEF IsFields, Named

LEMMA FieldIsFields ==
  ASSUME NEW name \in FieldNames, NEW v
  PROVE  IsFields(<<Field(name, v)>>)
  BY DEF IsFields, Named, ToSet, NameOf, Field

LEMMA FieldsIsFields ==
  ASSUME NEW name \in FieldNames, NEW x, x \in Seq(ToSet(x))
  PROVE  IsFields(Fields(name, x))
<1> DEFINE f == Fields(name, x)
<1>1. f = [i \in DOMAIN x |-> f[i]]
  BY DEF Fields
<1>2. f \in Seq(ToSet(f))
  BY <1>1, MapIsSequence
<1>3. Named(ToSet(f))
  BY DEF Fields, Field, ToSet, Named, NameOf
<1> QED
  BY <1>2, <1>3 DEF IsFields

LEMMA CountedIsFields ==
  ASSUME NEW count \in FieldNames, NEW item \in FieldNames, NEW x, x \in Seq(ToSet(x))
  PROVE  IsFields(Counted(count, item, x))
<1>1. IsFields(<<Field(count, Len(x))>>)
  BY FieldIsFields
<1>2. IsFields(Fields(item, x))
  BY FieldsIsFields
<1> QED
  BY <1>1, <1>2, ConcatIsFields DEF Counted

LEMMA SerializedIsFields ==
  ASSUME NEW s \in Sources
  PROVE  IsFields(Serialized(Assembled(s)))
<1> DEFINE p == Assembled(s)
           lmem == [i \in DOMAIN p.lmem |-> LmemField(p.lmem[i])]
<1>1. p.registers = s.registers /\ p.vmem = s.vmem
  BY DEF Assembled
<1>2. p.registers \in Seq(ToSet(p.registers)) /\ p.vmem \in Seq(ToSet(p.vmem))
  BY <1>1, ProgramFileOK
<1>3. s.constants \in Seq(ToSet(s.constants))
  BY ProgramFileOK
<1>4. p.constants = [i \in DOMAIN s.constants |-> p.constants[i]]
  BY DEF Assembled
<1>5. p.constants \in Seq(ToSet(p.constants))
  BY <1>3, <1>4, MapIsSequence
<1>6. p.lmem \in Seq(ToSet(p.lmem))
  BY DEF Assembled, ToSet
<1>7. lmem \in Seq(ToSet(lmem))
  <2>1. lmem = [i \in DOMAIN p.lmem |-> lmem[i]]
    OBVIOUS
  <2> QED
    BY <1>6, <2>1, MapIsSequence
<1>8. IsFields(Metadata(p))
  <2>1. Metadata(p) = (<<Field("magic", "SRS")>> \o <<Field("word_size", p.ws)>>)
                        \o <<Field("entry_point", "0x1000")>>
    BY DEF Metadata
  <2>2. IsFields(<<Field("magic", "SRS")>>)
    BY FieldIsFields DEF FieldNames
  <2>3. IsFields(<<Field("word_size", p.ws)>>)
    BY FieldIsFields DEF FieldNames
  <2>4. IsFields(<<Field("entry_point", "0x1000")>>)
    BY FieldIsFields DEF FieldNames
  <2>5. IsFields(<<Field("magic", "SRS")>> \o <<Field("word_size", p.ws)>>)
    BY <2>2, <2>3, ConcatIsFields
  <2> QED
    BY <2>1, <2>4, <2>5, ConcatIsFields
<1>9. IsFields(ConstantsFields(p))
  <2> DEFINE head == <<Field("num_constants", Len(p.constants)), Field("constants_compressed", p.zlib)>>
             tail == IF p.zlib THEN <<Field("block", Deflate(p.constants))>> ELSE Fields("constant", p.constants)
  <2>1. IsFields(head)
    <3>1. head = <<Field("num_constants", Len(p.constants))>> \o <<Field("constants_compressed", p.zlib)>>
      OBVIOUS
    <3>2. IsFields(<<Field("num_constants", Len(p.constants))>>)
      BY FieldIsFields DEF FieldNames
    <3>3. IsFields(<<Field("constants_compressed", p.zlib)>>)
      BY FieldIsFields DEF FieldNames
    <3> QED
      BY <3>1, <3>2, <3>3, ConcatIsFields
  <2>2. IsFields(tail)
    <3>1. IsFields(<<Field("block", Deflate(p.constants))>>)
      BY FieldIsFields DEF FieldNames
    <3>2. IsFields(Fields("constant", p.constants))
      BY <1>5, FieldsIsFields DEF FieldNames
    <3> QED
      BY <3>1, <3>2
  <2>3. ConstantsFields(p) = head \o tail
    BY DEF ConstantsFields
  <2> QED
    BY <2>1, <2>2, <2>3, ConcatIsFields
<1>10. /\ IsFields(Counted("num_registers", "register", p.registers))
       /\ IsFields(Counted("num_vmem_segments", "vmem", p.vmem))
       /\ IsFields(Counted("num_lmem_segments", "lmem", lmem))
  <2>0. \A count, item \in FieldNames : \A x : x \in Seq(ToSet(x)) => IsFields(Counted(count, item, x))
    BY CountedIsFields
  <2>1. IsFields(Counted("num_registers", "register", p.registers))
    BY <1>2, <2>0 DEF FieldNames
  <2>2. IsFields(Counted("num_vmem_segments", "vmem", p.vmem))
    BY <1>2, <2>0 DEF FieldNames
  <2>3. IsFields(Counted("num_lmem_segments", "lmem", lmem))
    BY <1>7, <2>0 DEF FieldNames
  <2> QED
    BY <2>1, <2>2, <2>3
<1>11. IsFields(Metadata(p) \o Counted("num_registers", "register", p.registers))
  BY <1>8, <1>10, ConcatIsFields
<1>12. IsFields(Metadata(p) \o Counted("num_registers", "register", p.registers)
                  \o Counted("num_vmem_segments", "vmem", p.vmem))
  BY <1>10, <1>11, ConcatIsFields
<1>13. IsFields(Metadata(p) \o Counted("num_registers", "register", p.registers)
                  \o Counted("num_vmem_segments", "vmem", p.vmem)
                  \o Counted("num_lmem_segments", "lmem", lmem))
  BY <1>10, <1>12, ConcatIsFields
<1> QED
  BY <1>9, <1>13, ConcatIsFields DEF Serialized

-----------------------------------------------------------------------------
\* How the writer's fields move from the program to the buffer and the file.

LEMMA Regroup ==
  ASSUME NEW F, NEW x \in Seq(F), NEW y \in Seq(F), NEW z \in Seq(F), NEW w \in Seq(F)
  PROVE  x \o (y \o z) \o w = x \o y \o (z \o w)
<1>1. x \o (y \o z) = (x \o y) \o z
  OBVIOUS
<1> DEFINE u == x \o y
<1>2. u \in Seq(F)
  OBVIOUS
<1>3. (u \o z) \o w = u \o (z \o w)
  <2> HIDE DEF u
  <2> QED
    BY <1>2
<1> QED
  BY <1>1, <1>3

LEMMA SplitOff ==
  ASSUME NEW F, NEW s \in Seq(F), s # <<>>
  PROVE  Head(s) \in F /\ Tail(s) \in Seq(F) /\ s = <<Head(s)>> \o Tail(s)
<1>1. Head(s) \in F /\ Tail(s) \in Seq(F)
  BY HeadTailProperties
<1>2. Len(s) \in Nat \ {0} /\ s = SubSeq(s, 1, Len(s))
  BY EmptySeq, SubSeqFull
<1>3. SubSeq(s, 1, Len(s)) = <<s[1]>> \o SubSeq(s, 2, Len(s))
  BY <1>2, SubSeqRecursiveFirst
<1>4. Tail(s) = SubSeq(s, 2, Len(s)) /\ Head(s) = s[1]
  BY TailIsSubSeq
<1> QED
  BY <1>1, <1>2, <1>3, <1>4

LEMMA FlushMovesNothingElse ==
  ASSUME NEW F
  PROVE  \A x, buf \in Seq(F) : \A n \in 0 .. Len(buf) :
           /\ SubSeq(buf, n + 1, Len(buf)) \in Seq(F)
           /\ x \o SubSeq(buf, 1, n) \in Seq(F)
           /\ (x \o SubSeq(buf, 1, n)) \o SubSeq(buf, n + 1, Len(buf)) = x \o buf
<1> TAKE x, buf \in Seq(F)
<1> TAKE n \in 0 .. Len(buf)
<1> DEFINE a == SubSeq(buf, 1, n)
           b == SubSeq(buf, n + 1, Len(buf))
<1>1. Len(buf) \in Nat /\ buf \in [1 .. Len(buf) -> F]
  BY LenProperties
<1>2. a \in Seq(F)
  BY <1>1, SubSeqProperties
<1>3. b \in Seq(F)
  BY <1>1, SubSeqProperties
<1>4. a \o b = SubSeq(buf, 1, Len(buf))
  <2>1. 1 \in 1 .. Len(buf) + 1 /\ n \in 1 - 1 .. Len(buf) /\ Len(buf) \in n .. Len(buf)
    BY <1>1
  <2> QED
    BY <2>1, ConcatAdjacentSubSeq
<1>5. a \o b = buf
  BY <1>4, SubSeqFull
<1>6. (x \o a) \o b = x \o (a \o b)
  <2> HIDE DEF a, b
  <2> QED
    BY <1>2, <1>3, ConcatAssociative, SMTT(60)
<1>7. x \o a \in Seq(F)
  BY <1>2, ConcatProperties
<1> QED
  BY <1>2, <1>3, <1>5, <1>6, <1>7

LEMMA WriteMovesNothingElse ==
  ASSUME NEW F
  PROVE  \A x, buf, t \in Seq(F) : \A h \in F :
           x \o Append(buf, h) \o t = x \o buf \o (<<h>> \o t) /\ Append(buf, h) \in Seq(F)
<1> TAKE x, buf, t \in Seq(F)
<1> TAKE h \in F
<1>1. <<h>> \in Seq(F)
  OBVIOUS
<1>2. Append(buf, h) = buf \o <<h>> /\ Append(buf, h) \in Seq(F)
  BY AppendIsConcat, AppendProperties
<1>3. x \o (buf \o <<h>>) \o t = x \o buf \o (<<h>> \o t)
  <2> DEFINE g == <<h>>
  <2>1. g \in Seq(F)
    BY <1>1
  <2> HIDE DEF g
  <2>2. x \o (buf \o g) \o t = x \o buf \o (g \o t)
    BY <2>1, Regroup, SMTT(120)
  <2> QED
    BY <2>2 DEF g
<1> QED
  BY <1>2, <1>3

-----------------------------------------------------------------------------
\* The invariant.

ProgramFields == UNION {ToSet(Serialized(Assembled(s))) : s \in Sources}
OtherFields == {Shebang, Field("magic", "something else")}
AllFields == ProgramFields \cup OtherFields

Writers == [pc : {"idle", "writing"}, prog : {Assembled(s) : s \in Sources} \cup {NULL},
            left : Seq(AllFields), buf : Seq(AllFields), wasFull : BOOLEAN]

Readers(r) ==
  /\ r = [pc |-> r.pc, build |-> r.build, pos |-> r.pos, torn |-> r.torn, prog |-> r.prog]
  /\ r.pc \in {"idle", "reading", "undefined"} /\ r.torn \in BOOLEAN /\ r.pos \in Nat
  /\ r.build \in Builds \cup {Wrapper, NULL} /\ (r.build = NULL <=> r.pc # "reading")

\* Nothing of the program is lost between its end, the buffer and the file while
\* the assembler writes; it has reported nothing yet, and knows of a full disk.
Writing ==
  /\ file \in Seq(AllFields)
  /\ Serialized(writer.prog) = file \o writer.buf \o writer.left
  /\ report = "none"
  /\ full => writer.wasFull

FileInv ==
  /\ writer \in Writers
  /\ full \in BOOLEAN
  /\ report \in {"none", "stored", "failed"}
  /\ file # NULL => file \in Seq(AllFields)
  /\ writer.pc = "writing" => Writing
  /\ StoredIfReported

Inv == FileInv /\ Readers(reader)

LEMMA SerializedInFields ==
  ASSUME NEW s \in Sources
  PROVE  Serialized(Assembled(s)) \in Seq(AllFields)
<1>1. Serialized(Assembled(s)) \in Seq(ToSet(Serialized(Assembled(s))))
  BY SerializedIsFields DEF IsFields
<1>2. ToSet(Serialized(Assembled(s))) \subseteq AllFields
  BY DEF AllFields, ProgramFields
<1> QED
  BY <1>1, <1>2, SeqMonotonic

LEMMA AllFieldsNamed == Named(AllFields)
<1>1. \A s \in Sources : Named(ToSet(Serialized(Assembled(s))))
  BY SerializedIsFields DEF IsFields
<1>2. NameOf(Shebang) \in FieldNames /\ NameOf(Field("magic", "something else")) \in FieldNames
  BY DEF Shebang, Field, NameOf, FieldNames
<1> QED
  <2> SUFFICES ASSUME NEW x \in AllFields PROVE NameOf(x) \in FieldNames
    BY DEF Named
  <2>1. CASE x \in OtherFields
    BY <1>2, <2>1 DEF OtherFields
  <2>2. CASE x \in ProgramFields
    BY <1>1, <2>2 DEF Named, ProgramFields
  <2> QED
    BY <2>1, <2>2 DEF AllFields

LEMMA SingleField == ASSUME NEW F, NEW x \in F PROVE <<x>> \in Seq(F)
OBVIOUS

LEMMA InitInv == Init => Inv
<1> SUFFICES ASSUME Init PROVE Inv
  OBVIOUS
<1>1. <<>> \in Seq(AllFields)
  BY EmptySeq
<1>2. NoWriter \in Writers
  BY <1>1 DEF NoWriter, Writers
<1>3. file # NULL => file \in Seq(AllFields)
  <2>1. CASE file = NotAProgram
    <3>1. Field("magic", "something else") \in AllFields
      BY DEF AllFields, OtherFields
    <3> QED
      BY <2>1, <3>1, SingleField DEF NotAProgram
  <2>2. CASE \E s \in Scripts : file = <<Shebang>> \o Serialized(Assembled(s))
    <3>1. PICK s \in Scripts : file = <<Shebang>> \o Serialized(Assembled(s))
      BY <2>2
    <3>2. Serialized(Assembled(s)) \in Seq(AllFields)
      BY SerializedInFields, ProgramFileOK
    <3>3. <<Shebang>> \in Seq(AllFields)
      <4>1. Shebang \in AllFields
        BY DEF AllFields, OtherFields
      <4> QED
        BY <4>1, SingleField
    <3> QED
      BY <3>1, <3>2, <3>3, ConcatProperties
  <2> QED
    BY <2>1, <2>2 DEF Init
<1>4. Readers(reader)
  BY ProgramFileOK DEF Init, NoReader, Readers
<1>5. writer.pc = "idle" /\ report = "none" /\ full \in BOOLEAN
  BY DEF Init, NoWriter
<1> QED
  BY <1>2, <1>3, <1>4, <1>5 DEF Init, Inv, FileInv, StoredIfReported
-----------------------------------------------------------------------------
\* The steps.

LEMMA OpenInv == ASSUME Inv, NEW s \in Sources, Open(s) PROVE Inv'
<1>1. Serialized(Assembled(s)) \in Seq(AllFields)
  BY SerializedInFields
<1>2. <<>> \in Seq(AllFields) /\ Serialized(Assembled(s)) = <<>> \o <<>> \o Serialized(Assembled(s))
  BY <1>1, EmptySeq, ConcatEmptySeq
<1>3. writer' \in Writers
  BY <1>1, <1>2 DEF Inv, FileInv, Open, Writers
<1>4. Readers(reader)'
  BY DEF Inv, Readers, Open, Emptied
<1>5. Writing'
  BY <1>2 DEF Writing, Open, Emptied
<1>6. StoredIfReported'
  BY DEF StoredIfReported, Open
<1> QED
  BY <1>2, <1>3, <1>4, <1>5, <1>6 DEF Inv, FileInv, Open, Emptied

LEMMA OpenNothingInv == ASSUME Inv, OpenNothing PROVE Inv'
<1>1. <<>> \in Seq(AllFields)
  BY EmptySeq
<1>2. writer' \in Writers /\ writer'.pc = "idle"
  BY <1>1 DEF OpenNothing, NoWriter, Writers
<1>3. Readers(reader)'
  BY DEF Inv, Readers, OpenNothing, Emptied
<1> QED
  BY <1>1, <1>2, <1>3 DEF Inv, FileInv, OpenNothing, Emptied, StoredIfReported

LEMMA FwriteInv == ASSUME Inv, Fwrite PROVE Inv'
<1>1. writer \in Writers /\ Writing /\ file \in Seq(AllFields)
  BY DEF Inv, FileInv, Fwrite, Writing
<1>2. writer.left \in Seq(AllFields) /\ writer.buf \in Seq(AllFields) /\ writer.left # <<>>
  BY <1>1 DEF Writers, Fwrite
<1>3. /\ Head(writer.left) \in AllFields /\ Tail(writer.left) \in Seq(AllFields)
      /\ writer.left = <<Head(writer.left)>> \o Tail(writer.left)
  BY <1>2, SplitOff
<1>4. /\ Append(writer.buf, Head(writer.left)) \in Seq(AllFields)
      /\ file \o Append(writer.buf, Head(writer.left)) \o Tail(writer.left)
           = file \o writer.buf \o writer.left
  <2> DEFINE h == Head(writer.left)
             l == Tail(writer.left)
             b == writer.buf
  <2>1. h \in AllFields /\ l \in Seq(AllFields) /\ b \in Seq(AllFields) /\ writer.left = <<h>> \o l
    BY <1>2, <1>3
  <2>2. file \o Append(b, h) \o l = file \o b \o (<<h>> \o l) /\ Append(b, h) \in Seq(AllFields)
    <3>1. file \in Seq(AllFields) /\ h \in AllFields /\ l \in Seq(AllFields) /\ b \in Seq(AllFields)
      BY <1>1, <2>1
    <3> HIDE DEF h, l, b
    <3> QED
      <4>1. \A k \in AllFields :
              file \o Append(b, k) \o l = file \o b \o (<<k>> \o l) /\ Append(b, k) \in Seq(AllFields)
        BY <3>1, WriteMovesNothingElse, ZenonT(60)
      <4> QED
        BY <3>1, <4>1, ZenonT(60)
  <2> QED
    BY <2>1, <2>2
<1>5. writer' = [writer EXCEPT !.left = Tail(writer.left), !.buf = Append(writer.buf, Head(writer.left))]
  BY DEF Fwrite
<1>6. /\ writer' \in Writers
      /\ writer'.left = Tail(writer.left) /\ writer'.buf = Append(writer.buf, Head(writer.left))
      /\ writer'.pc = writer.pc /\ writer'.prog = writer.prog /\ writer'.wasFull = writer.wasFull
  <2> DEFINE l == Tail(writer.left)
             b == Append(writer.buf, Head(writer.left))
  <2>1. l \in Seq(AllFields) /\ b \in Seq(AllFields) /\ writer' = [writer EXCEPT !.left = l, !.buf = b]
    BY <1>3, <1>4, <1>5
  <2> HIDE DEF l, b
  <2>2. writer' \in Writers /\ writer'.left = l /\ writer'.buf = b
        /\ writer'.pc = writer.pc /\ writer'.prog = writer.prog /\ writer'.wasFull = writer.wasFull
    BY <1>1, <2>1 DEF Writers
  <2> QED
    BY <2>2 DEF l, b
<1>7. file' = file /\ report' = report /\ full' = full /\ reader' = reader
  BY DEF Fwrite
<1>8. Writing'
  BY <1>1, <1>4, <1>6, <1>7 DEF Writing
<1>9. StoredIfReported'
  BY <1>1, <1>7 DEF Writing, StoredIfReported
<1>10. Readers(reader)'
  BY <1>7 DEF Inv, Readers
<1> QED
  BY <1>1, <1>6, <1>7, <1>8, <1>9, <1>10 DEF Inv, FileInv

LEMMA FlushInv == ASSUME Inv, Flush PROVE Inv'
<1>1. writer \in Writers /\ Writing /\ file \in Seq(AllFields) /\ writer.pc = "writing"
  BY DEF Inv, FileInv, Flush, Writing
<1>2. writer.left \in Seq(AllFields) /\ writer.buf \in Seq(AllFields)
  BY <1>1 DEF Writers
<1>3. PICK n \in 1 .. Len(writer.buf) :
        /\ Reaches(n)
        /\ writer' = [writer EXCEPT !.buf = SubSeq(writer.buf, n + 1, Len(writer.buf))]
  BY DEF Flush
<1>4. n \in 0 .. Len(writer.buf)
  BY <1>3
<1> DEFINE rest == SubSeq(writer.buf, n + 1, Len(writer.buf))
           sent == file \o SubSeq(writer.buf, 1, n)
<1>5. /\ rest \in Seq(AllFields) /\ sent \in Seq(AllFields)
      /\ sent \o rest = file \o writer.buf
  <2> DEFINE b == writer.buf
  <2>1. file \in Seq(AllFields) /\ b \in Seq(AllFields) /\ n \in 0 .. Len(b)
    BY <1>1, <1>2, <1>4
  <2> HIDE DEF b
  <2>2. /\ SubSeq(b, n + 1, Len(b)) \in Seq(AllFields)
        /\ file \o SubSeq(b, 1, n) \in Seq(AllFields)
        /\ (file \o SubSeq(b, 1, n)) \o SubSeq(b, n + 1, Len(b)) = file \o b
    <3>1. \A k \in 0 .. Len(b) :
            /\ SubSeq(b, k + 1, Len(b)) \in Seq(AllFields)
            /\ file \o SubSeq(b, 1, k) \in Seq(AllFields)
            /\ (file \o SubSeq(b, 1, k)) \o SubSeq(b, k + 1, Len(b)) = file \o b
      BY <2>1, FlushMovesNothingElse, ZenonT(60)
    <3> QED
      BY <2>1, <3>1, ZenonT(60)
  <2> QED
    BY <2>2 DEF b
<1>6. file' = sent /\ writer' = [writer EXCEPT !.buf = rest]
  BY <1>3 DEF Reaches
<1> HIDE DEF rest, sent
<1>7. /\ writer' \in Writers /\ writer'.buf = rest
      /\ writer'.left = writer.left /\ writer'.pc = writer.pc
      /\ writer'.prog = writer.prog /\ writer'.wasFull = writer.wasFull
  BY <1>1, <1>5, <1>6 DEF Writers
<1>8. report' = report /\ full' = full /\ reader' = reader
  BY DEF Flush
<1>9. Writing'
  BY <1>1, <1>5, <1>6, <1>7, <1>8 DEF Writing
<1>10. StoredIfReported'
  BY <1>1, <1>8 DEF Writing, StoredIfReported
<1>11. Readers(reader)'
  BY <1>8 DEF Inv, Readers
<1> QED
  BY <1>1, <1>5, <1>6, <1>7, <1>8, <1>9, <1>10, <1>11 DEF Inv, FileInv

LEMMA FwriteFailsInv == ASSUME Inv, FwriteFails PROVE Inv'
<1>1. writer \in Writers /\ file \in Seq(AllFields)
  BY DEF Inv, FileInv, FwriteFails, Writing
<1>2. writer.buf \in Seq(AllFields)
  BY <1>1 DEF Writers
<1>3. file' \in Seq(AllFields)
  BY <1>1, <1>2, FlushMovesNothingElse DEF FwriteFails, Reaches
<1>4. writer' \in Writers /\ writer'.pc = "idle"
  BY EmptySeq DEF FwriteFails, NoWriter, Writers
<1>5. report' = "failed" /\ full' = full /\ reader' = reader
  BY DEF FwriteFails
<1>6. Readers(reader)'
  BY <1>5 DEF Inv, Readers
<1> QED
  BY <1>3, <1>4, <1>5, <1>6 DEF Inv, FileInv, StoredIfReported

\* Unless the disk was full, nothing is left: neither to write nor in the buffer.
LEMMA CloseInv == ASSUME Inv, Close PROVE Inv'
<1>1. writer \in Writers /\ Writing /\ file \in Seq(AllFields) /\ writer.left = <<>>
  BY DEF Inv, FileInv, Close, Writing
<1>2. writer.buf \in Seq(AllFields)
  BY <1>1 DEF Writers
<1>3. PICK n \in 0 .. Len(writer.buf) : n = (IF full THEN 0 ELSE Len(writer.buf)) /\ Reaches(n)
  BY DEF Close
<1>4. file' \in Seq(AllFields)
  BY <1>1, <1>2, <1>3, FlushMovesNothingElse DEF Reaches
<1>5. /\ writer' \in Writers /\ writer'.pc = "idle"
      /\ writer'.prog = writer.prog /\ writer'.wasFull = writer.wasFull
  BY <1>1, EmptySeq DEF Close, NoWriter, Writers
<1>6. report' = "stored" /\ full' = full /\ reader' = reader
  BY DEF Close
<1>7. StoredIfReported'
  <2> SUFFICES ASSUME ~writer.wasFull PROVE file' = Serialized(writer.prog)
    BY <1>5 DEF StoredIfReported
  <2>1. ~full
    BY <1>1 DEF Writing
  <2>2. file' = file \o SubSeq(writer.buf, 1, Len(writer.buf))
    BY <1>3, <2>1 DEF Reaches
  <2>3. file' = file \o writer.buf /\ file' = file \o writer.buf \o writer.left
    BY <1>1, <1>2, <2>2, SubSeqFull, ConcatProperties, ConcatEmptySeq
  <2> QED
    BY <1>1, <2>3 DEF Writing
<1>8. Readers(reader)'
  BY <1>6 DEF Inv, Readers
<1> QED
  BY <1>4, <1>5, <1>6, <1>7, <1>8 DEF Inv, FileInv

LEMMA KillInv == ASSUME Inv, Kill PROVE Inv'
<1>1. writer' \in Writers /\ writer'.pc = "idle"
  BY EmptySeq DEF Kill, NoWriter, Writers
<1>2. file' = file /\ report' = "none" /\ report = "none" /\ full' = full /\ reader' = reader
  BY DEF Kill, Inv, FileInv, Writing
<1>3. Readers(reader)'
  BY <1>2 DEF Inv, Readers
<1> QED
  BY <1>1, <1>2, <1>3 DEF Inv, FileInv, StoredIfReported

LEMMA DiskInv == ASSUME Inv, Disk PROVE Inv'
<1>1. writer \in Writers
  BY DEF Inv, FileInv
<1> DEFINE w == writer.wasFull \/ (writer.pc = "writing" /\ full')
<1>2. w \in BOOLEAN /\ writer' = [writer EXCEPT !.wasFull = w]
  BY <1>1 DEF Disk, Writers
<1>3. /\ writer' \in Writers /\ writer'.wasFull = w
      /\ writer'.left = writer.left /\ writer'.buf = writer.buf
      /\ writer'.pc = writer.pc /\ writer'.prog = writer.prog
  <2> HIDE DEF w
  <2> QED
    BY <1>1, <1>2 DEF Writers
<1>4. file' = file /\ report' = report /\ full' \in BOOLEAN /\ reader' = reader
  BY DEF Disk
<1>5. writer.pc = "writing" => Writing'
  BY <1>3, <1>4 DEF Inv, FileInv, Writing
<1>6. StoredIfReported'
  BY <1>3, <1>4 DEF Inv, FileInv, StoredIfReported
<1>7. Readers(reader)'
  BY <1>4 DEF Inv, Readers
<1> QED
  BY <1>3, <1>4, <1>5, <1>6, <1>7 DEF Inv, FileInv

\* A reader leaves the file, the writer and the disk alone.
LEMMA ReaderInv ==
  ASSUME Inv, UNCHANGED <<file, writer, report, full>>, Readers(reader)' PROVE Inv'
BY DEF Inv, FileInv, Writing, StoredIfReported

LEMMA StartInv == ASSUME Inv, NEW b \in Builds \cup {Wrapper}, Start(b) PROVE Inv'
<1>1. Readers(reader)'
  BY ProgramFileOK DEF Start, NoReader, Readers
<1> QED
  BY <1>1, ReaderInv DEF Start

LEMMA ReadInv == ASSUME Inv, Read PROVE Inv'
<1>1. Readers(reader) /\ reader.pc = "reading" /\ file # NULL => file \in Seq(AllFields)
  BY DEF Inv, FileInv, Read
<1>2. PICK n \in reader.pos + 1 .. Len(file) : reader' \in Reads(n)
  BY DEF Read
<1>3. Readers(reader)'
  <2>1. n \in Nat
    BY <1>2 DEF Inv, Readers
  <2>2. CASE \E p : reader' = Ends(p)
    <3>1. PICK p : reader' = Ends(p)
      BY <2>2
    <3>2. reader' = [pc |-> "idle", build |-> NULL, pos |-> 0, torn |-> FALSE, prog |-> p]
      BY <3>1 DEF Ends, NoReader
    <3> QED
      BY <3>2 DEF Readers
  <2>3. CASE \E b \in Builds : reader' = [NoReader EXCEPT !.pc = "reading", !.build = b]
    <3>1. PICK b \in Builds : reader' = [NoReader EXCEPT !.pc = "reading", !.build = b]
      BY <2>3
    <3>2. reader' = [pc |-> "reading", build |-> b, pos |-> 0, torn |-> FALSE, prog |-> NULL]
      BY <3>1 DEF NoReader
    <3> QED
      BY <3>2, ProgramFileOK DEF Readers
  <2>4. CASE reader' = [reader EXCEPT !.pos = n]
    BY <2>1, <2>4 DEF Inv, Readers
  <2>5. CASE reader' = [Ends(NULL) EXCEPT !.pc = "undefined"]
    <3>1. reader' = [pc |-> "undefined", build |-> NULL, pos |-> 0, torn |-> FALSE, prog |-> NULL]
      BY <2>5 DEF Ends, NoReader
    <3> QED
      BY <3>1 DEF Readers
  <2>6. \/ \E p : reader' = Ends(p)
        \/ reader' = [Ends(NULL) EXCEPT !.pc = "undefined"]
        \/ \E b \in Builds : reader' = [NoReader EXCEPT !.pc = "reading", !.build = b]
        \/ reader' = [reader EXCEPT !.pos = n]
    BY <1>2 DEF Reads, Runtimes
  <2> QED
    BY <2>2, <2>3, <2>4, <2>5, <2>6
<1> QED
  BY <1>3, ReaderInv DEF Read

LEMMA ReadShortInv == ASSUME Inv, ReadShort PROVE Inv'
<1>1. Readers(reader)'
  <2>1. reader' = [pc |-> "idle", build |-> NULL, pos |-> 0, torn |-> reader.torn, prog |-> NULL]
    BY DEF ReadShort, Ends, NoReader
  <2> QED
    BY <2>1 DEF Inv, Readers
<1> QED
  BY <1>1, ReaderInv DEF ReadShort

LEMMA ReadTornInv == ASSUME Inv, ReadTorn PROVE Inv'
<1>1. Readers(reader)'
  <2>1. PICK p : reader' = [Ends(p) EXCEPT !.torn = TRUE]
    BY DEF ReadTorn
  <2>2. reader' = [pc |-> "idle", build |-> NULL, pos |-> 0, torn |-> TRUE, prog |-> p]
    BY <2>1 DEF Ends, NoReader
  <2> QED
    BY <2>2 DEF Readers
<1> QED
  BY <1>1, ReaderInv DEF ReadTorn

LEMMA NextInv == Inv /\ [Next]_vars => Inv'
<1> SUFFICES ASSUME Inv, [Next]_vars PROVE Inv'
  OBVIOUS
<1>1. CASE \E s \in Sources : Open(s)
  BY <1>1, OpenInv
<1>2. CASE OpenNothing
  BY <1>2, OpenNothingInv
<1>3. CASE Fwrite
  BY <1>3, FwriteInv
<1>4. CASE Flush
  BY <1>4, FlushInv
<1>5. CASE FwriteFails
  BY <1>5, FwriteFailsInv
<1>6. CASE Close
  BY <1>6, CloseInv
<1>7. CASE Kill
  BY <1>7, KillInv
<1>8. CASE Disk
  BY <1>8, DiskInv
<1>9. CASE \E b \in Builds \cup {Wrapper} : Start(b)
  BY <1>9, StartInv
<1>10. CASE Read
  BY <1>10, ReadInv
<1>11. CASE ReadShort
  BY <1>11, ReadShortInv
<1>12. CASE ReadTorn
  BY <1>12, ReadTornInv
<1>13. CASE UNCHANGED vars
  <2>1. Readers(reader)'
    BY <1>13 DEF vars, Inv, Readers
  <2> QED
    BY <1>13, <2>1, ReaderInv DEF vars
<1> QED
  BY <1>1, <1>2, <1>3, <1>4, <1>5, <1>6, <1>7, <1>8, <1>9, <1>10, <1>11, <1>12, <1>13 DEF Next

LEMMA Invariant == Spec => []Inv
BY InitInv, NextInv, PTL DEF Spec

-----------------------------------------------------------------------------
\* srsvm_program_serialize (src/lib/program.c): whatever is assembled, however
\* stdio writes its buffer out and whoever reads meanwhile, an assembler that
\* reports success without the disk having been full has left the whole
\* program in the file.
THEOREM ReportedIsStored == Spec => []StoredIfReported
<1>1. Inv => StoredIfReported
  BY DEF Inv, FileInv
<1> QED
  BY <1>1, Invariant, PTL

\* The types of program.c and its driver's states; and that the file, the buffer
\* of the stream and what is left to write are, in that order, the program.
THEOREM ProgramFileTypes == Spec => []TypeOK
<1>1. Inv => TypeOK
  <2> SUFFICES ASSUME Inv PROVE TypeOK
    OBVIOUS
  <2>1. file # NULL => \A i \in DOMAIN file : NameOf(file[i]) \in FieldNames
    <3> SUFFICES ASSUME file # NULL, NEW i \in DOMAIN file PROVE NameOf(file[i]) \in FieldNames
      OBVIOUS
    <3>1. file[i] \in AllFields
      <4>1. file \in Seq(AllFields)
        BY DEF Inv, FileInv
      <4> QED
        BY <4>1
    <3> QED
      BY <3>1, AllFieldsNamed DEF Named
  <2>2. writer.pc \in {"idle", "writing"} /\ writer.wasFull \in BOOLEAN
    BY DEF Inv, FileInv, Writers
  <2>3. writer.pc = "writing" => Serialized(writer.prog) = file \o writer.buf \o writer.left
    BY DEF Inv, FileInv, Writing
  <2> QED
    BY <2>1, <2>2, <2>3 DEF Inv, FileInv, Readers, TypeOK
<1> QED
  BY <1>1, Invariant, PTL

-----------------------------------------------------------------------------
\* Reading, field by field.

\* What the first n fields, of which there are at least n, come to.
ReadUpTo(b, F, n, r) == r[0] = NoFields /\ \A k \in 1 .. n : r[k] = ReadField(b, r[k - 1], F[k])

LEMMA ReadsExist ==
  ASSUME NEW b, NEW F, NEW n \in Nat
  PROVE  \E r : ReadUpTo(b, F, n, r)
<1> DEFINE X == {k \in Nat : \E r : ReadUpTo(b, F, k, r)}
<1>1. 0 \in X
  <2>1. ReadUpTo(b, F, 0, [k \in {0} |-> NoFields])
    BY DEF ReadUpTo
  <2> QED
    BY <2>1
<1>2. ASSUME NEW k \in Nat, k \in X PROVE k + 1 \in X
  <2>1. PICK r : ReadUpTo(b, F, k, r)
    BY <1>2
  <2> DEFINE next == ReadField(b, r[k], F[k + 1])
             q == [j \in 0 .. k + 1 |-> IF j = k + 1 THEN next ELSE r[j]]
  <2> HIDE DEF next
  <2>2. q[0] = NoFields
    BY <2>1 DEF ReadUpTo
  <2>3. ASSUME NEW j \in 1 .. k + 1 PROVE q[j] = ReadField(b, q[j - 1], F[j])
    <3>1. CASE j = k + 1
      <4>1. q[j] = next /\ j - 1 = k /\ q[k] = r[k]
        BY <3>1
      <4> QED
        BY <3>1, <4>1 DEF next
    <3>2. CASE j \in 1 .. k
      <4>1. q[j] = r[j] /\ q[j - 1] = r[j - 1]
        BY <3>2
      <4> QED
        BY <2>1, <3>2, <4>1 DEF ReadUpTo
    <3> QED
      BY <3>1, <3>2
  <2> HIDE DEF q
  <2>4. ReadUpTo(b, F, k + 1, q)
    BY <2>2, <2>3 DEF ReadUpTo
  <2> QED
    BY <2>4
<1> HIDE DEF X
<1>3. Nat \subseteq X
  BY <1>1, <1>2, Shared!InductionOnNat
<1> QED
  BY <1>3 DEF X

LEMMA ReadsAgree ==
  ASSUME NEW b, NEW F, NEW G, NEW n \in Nat, NEW m \in Nat, m <= n, NEW r, NEW q,
         ReadUpTo(b, F, n, r), ReadUpTo(b, G, m, q), \A k \in 1 .. m : F[k] = G[k]
  PROVE  q[m] = r[m]
<1> DEFINE X == {k \in Nat : k <= m => q[k] = r[k]}
<1>1. 0 \in X
  BY DEF ReadUpTo
<1>2. ASSUME NEW k \in Nat, k \in X PROVE k + 1 \in X
  <2>1. CASE k + 1 <= m
    <3>1. k + 1 \in 1 .. m /\ k + 1 \in 1 .. n /\ (k + 1) - 1 = k /\ q[k] = r[k]
      BY <1>2, <2>1
    <3>2. q[k + 1] = ReadField(b, q[k], G[k + 1]) /\ r[k + 1] = ReadField(b, r[k], F[k + 1])
      BY <3>1 DEF ReadUpTo
    <3> QED
      BY <3>1, <3>2
  <2> QED
    BY <2>1
<1> HIDE DEF X
<1>3. Nat \subseteq X
  BY <1>1, <1>2, Shared!InductionOnNat
<1> QED
  BY <1>3 DEF X

\* Deserialized is what that comes to.
LEMMA DeserializedIs ==
  ASSUME NEW b, NEW F, Len(F) \in Nat
  PROVE  \E r : ReadUpTo(b, F, Len(F), r) /\ Deserialized(b, F) = r[Len(F)]
<1> DEFINE N == Len(F)
           Def(r) == r = [k \in 0 .. N |-> IF k = 0 THEN NoFields ELSE ReadField(b, r[k - 1], F[k])]
           read == CHOOSE r : Def(r)
<1>1. PICK q : ReadUpTo(b, F, N, q)
  BY ReadsExist
<1> DEFINE s == [k \in 0 .. N |-> q[k]]
<1>2. Def(s)
  <2>1. ASSUME NEW k \in 0 .. N
        PROVE  s[k] = IF k = 0 THEN NoFields ELSE ReadField(b, s[k - 1], F[k])
    <3>1. CASE k = 0
      BY <1>1, <3>1 DEF ReadUpTo
    <3>2. CASE k # 0
      <4>1. k \in 1 .. N /\ s[k] = q[k] /\ s[k - 1] = q[k - 1]
        BY <3>2
      <4> QED
        BY <1>1, <3>2, <4>1 DEF ReadUpTo
    <3> QED
      BY <3>1, <3>2
  <2> QED
    BY <2>1
<1> HIDE DEF s
<1>3. Def(read)
  BY <1>2
<1>4. Deserialized(b, F) = read[N]
  BY DEF Deserialized
<1> HIDE DEF read
<1>5. ReadUpTo(b, F, N, read)
  <2>1. read[0] = NoFields
    BY <1>3
  <2>2. ASSUME NEW k \in 1 .. N PROVE read[k] = ReadField(b, read[k - 1], F[k])
    BY <1>3
  <2> QED
    BY <2>1, <2>2 DEF ReadUpTo
<1> QED
  BY <1>4, <1>5

\* The fields of a file that is read on: those of another that begins with it.
LEMMA ReadsOn ==
  ASSUME NEW b, NEW D, NEW F \in Seq(D), NEW n \in 0 .. Len(F), NEW r, ReadUpTo(b, F, Len(F), r)
  PROVE  Deserialized(b, SubSeq(F, 1, n)) = r[n]
<1> DEFINE G == SubSeq(F, 1, n)
<1>1. Len(F) \in Nat /\ n \in Nat /\ n <= Len(F)
  OBVIOUS
<1>2. Len(G) = n /\ \A k \in 1 .. n : G[k] = F[k]
  BY <1>1, SubSeqProperties
<1> HIDE DEF G
<1>3. PICK q : ReadUpTo(b, G, n, q) /\ Deserialized(b, G) = q[n]
  BY <1>1, <1>2, DeserializedIs
<1>4. \A k \in 1 .. n : F[k] = G[k]
  BY <1>2
<1> QED
  <2>1. q[n] = r[n]
    BY <1>1, <1>3, <1>4, ReadsAgree
  <2> QED
    BY <1>3, <2>1 DEF G

\* The same of the constants in a block.
ConstsUpTo(a, consts, n, r) == r[0] = a /\ \A k \in 1 .. n : r[k] = ReadConst(r[k - 1], consts[k])

LEMMA ConstsExist ==
  ASSUME NEW a, NEW consts, NEW n \in Nat
  PROVE  \E r : ConstsUpTo(a, consts, n, r)
<1> DEFINE X == {k \in Nat : \E r : ConstsUpTo(a, consts, k, r)}
<1>1. 0 \in X
  <2>1. ConstsUpTo(a, consts, 0, [k \in {0} |-> a])
    BY DEF ConstsUpTo
  <2> QED
    BY <2>1
<1>2. ASSUME NEW k \in Nat, k \in X PROVE k + 1 \in X
  <2>1. PICK r : ConstsUpTo(a, consts, k, r)
    BY <1>2
  <2> DEFINE next == ReadConst(r[k], consts[k + 1])
             q == [j \in 0 .. k + 1 |-> IF j = k + 1 THEN next ELSE r[j]]
  <2> HIDE DEF next
  <2>2. q[0] = a
    BY <2>1 DEF ConstsUpTo
  <2>3. ASSUME NEW j \in 1 .. k + 1 PROVE q[j] = ReadConst(q[j - 1], consts[j])
    <3>1. CASE j = k + 1
      <4>1. q[j] = next /\ j - 1 = k /\ q[k] = r[k]
        BY <3>1
      <4> QED
        BY <3>1, <4>1 DEF next
    <3>2. CASE j \in 1 .. k
      <4>1. q[j] = r[j] /\ q[j - 1] = r[j - 1]
        BY <3>2
      <4> QED
        BY <2>1, <3>2, <4>1 DEF ConstsUpTo
    <3> QED
      BY <3>1, <3>2
  <2> HIDE DEF q
  <2>4. ConstsUpTo(a, consts, k + 1, q)
    BY <2>2, <2>3 DEF ConstsUpTo
  <2> QED
    BY <2>4
<1> HIDE DEF X
<1>3. Nat \subseteq X
  BY <1>1, <1>2, Shared!InductionOnNat
<1> QED
  BY <1>3 DEF X

LEMMA ReadBlockIs ==
  ASSUME NEW a, NEW consts, Len(consts) \in Nat
  PROVE  \E r : /\ ConstsUpTo(a, consts, Len(consts), r)
                /\ ReadBlock(a, consts) = IF r[Len(consts)].at \in {"refused", "undefined"} THEN r[Len(consts)]
                                          ELSE Expect(r[Len(consts)], "end")
<1> DEFINE N == Len(consts)
           Def(r) == r = [k \in 0 .. N |-> IF k = 0 THEN a ELSE ReadConst(r[k - 1], consts[k])]
           read == CHOOSE r : Def(r)
<1>1. PICK q : ConstsUpTo(a, consts, N, q)
  BY ConstsExist
<1> DEFINE s == [k \in 0 .. N |-> q[k]]
<1>2. Def(s)
  <2>1. ASSUME NEW k \in 0 .. N
        PROVE  s[k] = IF k = 0 THEN a ELSE ReadConst(s[k - 1], consts[k])
    <3>1. CASE k = 0
      BY <1>1, <3>1 DEF ConstsUpTo
    <3>2. CASE k # 0
      <4>1. k \in 1 .. N /\ s[k] = q[k] /\ s[k - 1] = q[k - 1]
        BY <3>2
      <4> QED
        BY <1>1, <3>2, <4>1 DEF ConstsUpTo
    <3> QED
      BY <3>1, <3>2
  <2> QED
    BY <2>1
<1> HIDE DEF s
<1>3. Def(read)
  BY <1>2
<1>4. ReadBlock(a, consts) = IF read[N].at \in {"refused", "undefined"} THEN read[N] ELSE Expect(read[N], "end")
  BY DEF ReadBlock
<1> HIDE DEF read
<1>5. ConstsUpTo(a, consts, N, read)
  <2>1. read[0] = a
    BY <1>3
  <2>2. ASSUME NEW k \in 1 .. N PROVE read[k] = ReadConst(read[k - 1], consts[k])
    BY <1>3
  <2> QED
    BY <2>1, <2>2 DEF ConstsUpTo
<1> QED
  BY <1>4, <1>5

-----------------------------------------------------------------------------
\* The fields of a program, by their places.

Before(p)  == IF p.shebang THEN 1 ELSE 0

\* The first place of each part but the one before.
VmemAt(p)  == Before(p) + 5 + Len(p.registers)
LmemAt(p)  == VmemAt(p) + 1 + Len(p.vmem)
ConstAt(p) == LmemAt(p) + 2
EndAt(p)   == ConstAt(p) + 1 + IF p.zlib THEN 1 ELSE Len(p.constants)

\* F begins with what is written of p.
Holds(p, F) ==
  /\ p.shebang => F[1] = Shebang
  /\ F[Before(p) + 1] = Field("magic", "SRS")
  /\ F[Before(p) + 2] = Field("word_size", p.ws)
  /\ F[Before(p) + 3] = Field("entry_point", "0x1000")
  /\ F[Before(p) + 4] = Field("num_registers", Len(p.registers))
  /\ \A k \in 1 .. Len(p.registers) : F[Before(p) + 4 + k] = Field("register", p.registers[k])
  /\ F[VmemAt(p)] = Field("num_vmem_segments", Len(p.vmem))
  /\ \A k \in 1 .. Len(p.vmem) : F[VmemAt(p) + k] = Field("vmem", p.vmem[k])
  /\ F[LmemAt(p)] = Field("num_lmem_segments", 1)
  /\ F[LmemAt(p) + 1] = Field("lmem", LmemField(p.lmem[1]))
  /\ F[ConstAt(p)] = Field("num_constants", Len(p.constants))
  /\ F[ConstAt(p) + 1] = Field("constants_compressed", p.zlib)
  /\ IF p.zlib THEN F[ConstAt(p) + 2] = Field("block", Deflate(p.constants))
     ELSE \A k \in 1 .. Len(p.constants) : F[ConstAt(p) + 1 + k] = Field("constant", p.constants[k])

Joined(x, y, z) ==
  /\ Len(z) = Len(x) + Len(y)
  /\ \A k \in 1 .. Len(x) : z[k] = x[k]
  /\ \A k \in 1 .. Len(y) : z[Len(x) + k] = y[k]

LEMMA ConcatAt ==
  ASSUME NEW U, NEW x \in Seq(U), NEW y \in Seq(U)
  PROVE  x \o y \in Seq(U) /\ Joined(x, y, x \o y)
<1>1. Len(x) \in Nat /\ Len(y) \in Nat
  OBVIOUS
<1> QED
  BY <1>1, ConcatProperties DEF Joined

LEMMA SameLen ==
  ASSUME NEW S, NEW f \in Seq(S), NEW n \in Nat, DOMAIN f = 1 .. n
  PROVE  Len(f) = n
<1>1. Len(f) \in Nat /\ 1 .. Len(f) = 1 .. n
  BY LenProperties
<1> SUFFICES ASSUME NEW m \in Nat, 1 .. m = 1 .. n, m # n PROVE FALSE
  BY <1>1
<1>2. m \in 1 .. m <=> m \in 1 .. n
  OBVIOUS
<1>3. n \in 1 .. m <=> n \in 1 .. n
  OBVIOUS
<1> QED
  BY <1>2, <1>3

LEMMA FieldsAt ==
  ASSUME NEW name, NEW s, s \in Seq(ToSet(s))
  PROVE  /\ Fields(name, s) \in Seq(ToSet(Fields(name, s))) /\ Len(Fields(name, s)) = Len(s)
         /\ \A k \in 1 .. Len(s) : Fields(name, s)[k] = Field(name, s[k])
<1> DEFINE f == Fields(name, s)
<1>1. Len(s) \in Nat /\ DOMAIN s = 1 .. Len(s)
  BY LenProperties
<1>2. f = [i \in 1 .. Len(s) |-> Field(name, s[i])] /\ f = [i \in DOMAIN s |-> f[i]]
  BY <1>1 DEF Fields
<1> HIDE DEF f
<1>3. f \in Seq(ToSet(f))
  BY <1>2, MapIsSequence
<1>4. Len(f) = Len(s)
  BY <1>1, <1>2, <1>3, SameLen
<1> QED
  BY <1>1, <1>2, <1>3, <1>4 DEF f

LEMMA CountedAt ==
  ASSUME NEW count, NEW name, NEW s, s \in Seq(ToSet(s)),
         NEW z, z = Counted(count, name, s)
  PROVE  /\ z \in Seq(ToSet(z)) /\ Len(z) = 1 + Len(s)
         /\ z[1] = Field(count, Len(s))
         /\ \A k \in 1 .. Len(s) : z[1 + k] = Field(name, s[k])
<1> DEFINE x == <<Field(count, Len(s))>>
           f == Fields(name, s)
           V == ToSet(f) \cup {Field(count, Len(s))}
<1>1. f \in Seq(ToSet(f)) /\ Len(f) = Len(s) /\ \A k \in 1 .. Len(s) : f[k] = Field(name, s[k])
  BY FieldsAt
<1>2. f \in Seq(V)
  BY <1>1, SeqMonotonic
<1>3. x \in Seq(V) /\ Len(x) = 1 /\ x[1] = Field(count, Len(s))
  OBVIOUS
<1>4. z = x \o f
  BY DEF Counted
<1> HIDE DEF x, f, V
<1>5. z \in Seq(V) /\ Joined(x, f, z)
  BY <1>2, <1>3, <1>4, ConcatAt
<1>6. z \in Seq(ToSet(z))
  BY <1>5, IsSequence
<1>7. 1 \in 1 .. Len(x)
  BY <1>3
<1> QED
  BY <1>1, <1>3, <1>5, <1>6, <1>7 DEF Joined

\* What is assembled, or made a script of.
IsProgram(p) ==
  /\ p = [ws |-> p.ws, shebang |-> p.shebang, registers |-> p.registers, vmem |-> p.vmem,
          lmem |-> <<[zlib |-> p.zlib, data |-> "code"]>>, zlib |-> p.zlib, constants |-> p.constants]
  /\ p.shebang \in BOOLEAN /\ p.zlib \in BOOLEAN
  /\ p.registers \in Seq(ToSet(p.registers)) /\ p.vmem \in Seq(ToSet(p.vmem))
  /\ p.constants \in Seq(ToSet(p.constants))
  /\ \A k \in 1 .. Len(p.constants) : p.constants[k].slot = k - 1

LEMMA AssembledIs ==
  ASSUME NEW s \in Sources
  PROVE  /\ IsProgram(Assembled(s)) /\ Assembled(s).shebang = FALSE
         /\ Len(Assembled(s).constants) = Len(s.constants)
         /\ \A k \in 1 .. Len(s.constants) :
              Assembled(s).constants[k] = [slot |-> k - 1, type |-> s.constants[k].type,
                                           val |-> Value(s.constants[k])]
<1> DEFINE p == Assembled(s)
           c == p.constants
<1>1. /\ p.ws = s.ws /\ p.shebang = FALSE /\ p.registers = s.registers /\ p.vmem = s.vmem
      /\ p.lmem = <<[zlib |-> s.zlib, data |-> "code"]>> /\ p.zlib = s.zlib
      /\ p = [ws |-> p.ws, shebang |-> p.shebang, registers |-> p.registers, vmem |-> p.vmem,
              lmem |-> p.lmem, zlib |-> p.zlib, constants |-> p.constants]
  BY DEF Assembled
<1>2. c = [i \in DOMAIN s.constants |->
             [slot |-> i - 1, type |-> s.constants[i].type, val |-> Value(s.constants[i])]]
  BY DEF Assembled
<1>3. s.constants \in Seq(ToSet(s.constants))
  BY ProgramFileOK
<1>4. Len(s.constants) \in Nat /\ DOMAIN s.constants = 1 .. Len(s.constants)
  BY <1>3, LenProperties
<1> HIDE DEF p, c
<1>5. c = [i \in DOMAIN s.constants |-> c[i]]
  BY <1>2
<1>6. c \in Seq(ToSet(c))
  BY <1>3, <1>5, MapIsSequence
<1>7. Len(c) = Len(s.constants)
  BY <1>2, <1>4, <1>6, SameLen
<1>8. \A k \in 1 .. Len(s.constants) :
        c[k] = [slot |-> k - 1, type |-> s.constants[k].type, val |-> Value(s.constants[k])]
  BY <1>2, <1>4
<1>9. s.registers \in Seq(ToSet(s.registers)) /\ s.vmem \in Seq(ToSet(s.vmem)) /\ s.zlib \in BOOLEAN
  BY ProgramFileOK
<1>10. \A k \in 1 .. Len(c) : c[k].slot = k - 1
  <2> TAKE k \in 1 .. Len(c)
  <2>1. c[k] = [slot |-> k - 1, type |-> s.constants[k].type, val |-> Value(s.constants[k])]
    BY <1>7, <1>8
  <2> QED
    BY <2>1
<1>11. IsProgram(p)
  BY <1>1, <1>6, <1>9, <1>10 DEF IsProgram, c
<1> QED
  BY <1>1, <1>7, <1>8, <1>11 DEF p, c

LEMMA ProgramIs ==
  ASSUME NEW p \in Programs
  PROVE  /\ IsProgram(p)
         /\ \E s \in Sources : /\ [p EXCEPT !.shebang = FALSE] = Assembled(s)
                               /\ p.shebang => s \in Scripts
<1>1. CASE \E s \in Sources : p = Assembled(s)
  <2>1. PICK s \in Sources : p = Assembled(s)
    BY <1>1
  <2>2. IsProgram(p) /\ p.shebang = FALSE
    BY <2>1, AssembledIs
  <2>3. [p EXCEPT !.shebang = FALSE] = p
    BY <2>2 DEF IsProgram
  <2> QED
    BY <2>1, <2>2, <2>3
<1>2. CASE \E s \in Scripts : p = [Assembled(s) EXCEPT !.shebang = TRUE]
  <2>1. PICK s \in Scripts : p = [Assembled(s) EXCEPT !.shebang = TRUE]
    BY <1>2
  <2> DEFINE q == Assembled(s)
  <2>2. s \in Sources /\ IsProgram(q) /\ q.shebang = FALSE
    BY AssembledIs, ProgramFileOK
  <2> HIDE DEF q
  <2>3. p = [q EXCEPT !.shebang = TRUE]
    BY <2>1 DEF q
  <2>4. q = [ws |-> q.ws, shebang |-> q.shebang, registers |-> q.registers, vmem |-> q.vmem,
             lmem |-> <<[zlib |-> q.zlib, data |-> "code"]>>, zlib |-> q.zlib, constants |-> q.constants]
    BY <2>2 DEF IsProgram
  <2>5. p = [ws |-> q.ws, shebang |-> TRUE, registers |-> q.registers, vmem |-> q.vmem,
             lmem |-> <<[zlib |-> q.zlib, data |-> "code"]>>, zlib |-> q.zlib, constants |-> q.constants]
    <3>1. PICK w, r, v, l, z, c :
            /\ q = [ws |-> w, shebang |-> FALSE, registers |-> r, vmem |-> v, lmem |-> l, zlib |-> z, constants |-> c]
            /\ l = <<[zlib |-> z, data |-> "code"]>>
      BY <2>2, <2>4, Zenon
    <3> DEFINE T == [ws : {w}, shebang : BOOLEAN, registers : {r}, vmem : {v}, lmem : {l}, zlib : {z},
                     constants : {c}]
    <3>2. q \in T
      BY <3>1
    <3>3. p \in T /\ p.shebang = TRUE
      BY <2>3, <3>2
    <3>4. p = [ws |-> w, shebang |-> TRUE, registers |-> r, vmem |-> v, lmem |-> l, zlib |-> z, constants |-> c]
      BY <3>3
    <3>5. q.ws = w /\ q.registers = r /\ q.vmem = v /\ q.zlib = z /\ q.constants = c
      BY <3>1
    <3> QED
      BY <3>1, <3>4, <3>5
  <2>6. IsProgram(p)
    BY <2>2, <2>5 DEF IsProgram
  <2>7. [p EXCEPT !.shebang = FALSE] = q
    BY <2>2, <2>4, <2>5
  <2> QED
    BY <2>1, <2>2, <2>6, <2>7 DEF q
<1> QED
  BY <1>1, <1>2 DEF Programs

\* The parts of what is written of p.
LEMMA ConstantsAt ==
  ASSUME NEW p, IsProgram(p), NEW z, z = ConstantsFields(p)
  PROVE  /\ z \in Seq(ToSet(z)) /\ Len(z) = 2 + IF p.zlib THEN 1 ELSE Len(p.constants)
         /\ z[1] = Field("num_constants", Len(p.constants))
         /\ z[2] = Field("constants_compressed", p.zlib)
         /\ IF p.zlib THEN z[3] = Field("block", Deflate(p.constants))
            ELSE \A k \in 1 .. Len(p.constants) : z[2 + k] = Field("constant", p.constants[k])
<1> DEFINE n1 == Field("num_constants", Len(p.constants))
           n2 == Field("constants_compressed", p.zlib)
           head == <<n1, n2>>
           block == Field("block", Deflate(p.constants))
           tail == IF p.zlib THEN <<block>> ELSE Fields("constant", p.constants)
           V == ToSet(tail) \cup {n1, n2}
<1>1. /\ tail \in Seq(ToSet(tail))
      /\ Len(tail) = IF p.zlib THEN 1 ELSE Len(p.constants)
      /\ IF p.zlib THEN tail[1] = block
         ELSE \A k \in 1 .. Len(p.constants) : tail[k] = Field("constant", p.constants[k])
  <2>1. CASE p.zlib
    <3>1. tail = <<block>>
      BY <2>1
    <3> HIDE DEF tail, block
    <3>2. tail \in Seq(ToSet(tail))
      BY <3>1 DEF ToSet
    <3> QED
      BY <2>1, <3>1, <3>2
  <2>2. CASE ~p.zlib
    <3>1. tail = Fields("constant", p.constants)
      BY <2>2
    <3>2. p.constants \in Seq(ToSet(p.constants))
      BY DEF IsProgram
    <3> HIDE DEF tail
    <3> QED
      BY <2>2, <3>1, <3>2, FieldsAt
  <2> QED
    BY <2>1, <2>2
<1>2. z = head \o tail
  BY DEF ConstantsFields
<1> HIDE DEF tail, n1, n2, block
<1>3. tail \in Seq(V)
  BY <1>1, SeqMonotonic
<1>4. head \in Seq(V) /\ Len(head) = 2 /\ head[1] = n1 /\ head[2] = n2
  OBVIOUS
<1> HIDE DEF head, V
<1>5. z \in Seq(V) /\ Joined(head, tail, z)
  BY <1>2, <1>3, <1>4, ConcatAt
<1>6. z \in Seq(ToSet(z))
  BY <1>5, IsSequence
<1>7. 1 \in 1 .. Len(head) /\ 2 \in 1 .. Len(head)
  BY <1>4
<1>8. Len(z) = 2 + Len(tail) /\ z[1] = n1 /\ z[2] = n2 /\ \A k \in 1 .. Len(tail) : z[2 + k] = tail[k]
  BY <1>4, <1>5, <1>7 DEF Joined
<1>9. p.zlib => Len(tail) = 1 /\ 1 \in 1 .. Len(tail) /\ z[2 + 1] = block
  BY <1>1, <1>8
<1>10. ~p.zlib => \A k \in 1 .. Len(p.constants) : z[2 + k] = Field("constant", p.constants[k])
  BY <1>1, <1>8
<1>11. IF p.zlib THEN z[3] = block
       ELSE \A k \in 1 .. Len(p.constants) : z[2 + k] = Field("constant", p.constants[k])
  BY <1>9, <1>10
<1> QED
  BY <1>1, <1>6, <1>8, <1>11 DEF n1, n2, block

LEMMA LmemAtOne ==
  ASSUME NEW p, IsProgram(p), NEW z, z = [i \in DOMAIN p.lmem |-> LmemField(p.lmem[i])]
  PROVE  z \in Seq(ToSet(z)) /\ Len(z) = 1 /\ z[1] = LmemField(p.lmem[1])
<1>1. p.lmem = <<[zlib |-> p.zlib, data |-> "code"]>>
  BY DEF IsProgram
<1>2. DOMAIN p.lmem = 1 .. 1
  BY <1>1
<1>3. p.lmem \in Seq(ToSet(p.lmem))
  BY <1>1 DEF ToSet
<1>4. z \in Seq(ToSet(z))
  <2>1. z = [i \in DOMAIN p.lmem |-> z[i]]
    OBVIOUS
  <2> QED
    BY <1>3, <2>1, MapIsSequence
<1>5. DOMAIN z = 1 .. 1 /\ z[1] = LmemField(p.lmem[1])
  BY <1>2
<1>6. Len(z) = 1
  BY <1>4, <1>5, SameLen
<1> QED
  BY <1>4, <1>5, <1>6

LEMMA MetadataAt ==
  ASSUME NEW p, NEW z, z = Metadata(p)
  PROVE  /\ z \in Seq(ToSet(z)) /\ Len(z) = 3
         /\ z[1] = Field("magic", "SRS") /\ z[2] = Field("word_size", p.ws)
         /\ z[3] = Field("entry_point", "0x1000")
<1> DEFINE m == Field("magic", "SRS")
           w == Field("word_size", p.ws)
           e == Field("entry_point", "0x1000")
<1>1. z = <<m, w, e>>
  BY DEF Metadata
<1> HIDE DEF m, w, e
<1>2. z \in Seq({m, w, e}) /\ Len(z) = 3 /\ z[1] = m /\ z[2] = w /\ z[3] = e
  BY <1>1
<1>3. z \in Seq(ToSet(z))
  BY <1>2, IsSequence
<1> QED
  BY <1>2, <1>3 DEF m, w, e

\* Where the parts lie: a, b, c, d and e one behind the other.
Parts(a, b, c, d, e, z) ==
  /\ Len(z) = Len(a) + Len(b) + Len(c) + Len(d) + Len(e)
  /\ \A k \in 1 .. Len(a) : z[k] = a[k]
  /\ \A k \in 1 .. Len(b) : z[Len(a) + k] = b[k]
  /\ \A k \in 1 .. Len(c) : z[Len(a) + Len(b) + k] = c[k]
  /\ \A k \in 1 .. Len(d) : z[Len(a) + Len(b) + Len(c) + k] = d[k]
  /\ \A k \in 1 .. Len(e) : z[Len(a) + Len(b) + Len(c) + Len(d) + k] = e[k]

LEMMA FiveParts ==
  ASSUME NEW U, NEW a \in Seq(U), NEW b \in Seq(U), NEW c \in Seq(U), NEW d \in Seq(U), NEW e \in Seq(U)
  PROVE  a \o b \o c \o d \o e \in Seq(U) /\ Parts(a, b, c, d, e, a \o b \o c \o d \o e)
<1> DEFINE z == a \o b \o c \o d \o e
<1> DEFINE ab == a \o b
           abc == ab \o c
           abcd == abc \o d
<1>0. Len(a) \in Nat /\ Len(b) \in Nat /\ Len(c) \in Nat /\ Len(d) \in Nat /\ Len(e) \in Nat
  OBVIOUS
<1>1. ab \in Seq(U) /\ Joined(a, b, ab)
  BY ConcatAt
<1> HIDE DEF ab
<1>2. abc \in Seq(U) /\ Joined(ab, c, abc)
  BY <1>1, ConcatAt
<1> HIDE DEF abc
<1>3. abcd \in Seq(U) /\ Joined(abc, d, abcd)
  BY <1>2, ConcatAt
<1> HIDE DEF abcd
<1>4. z = abcd \o e
  BY DEF abcd, abc, ab
<1> HIDE DEF z
<1>5. z \in Seq(U) /\ Joined(abcd, e, z)
  BY <1>3, <1>4, ConcatAt
<1>6. /\ Len(ab) = Len(a) + Len(b) /\ Len(abc) = Len(ab) + Len(c)
      /\ Len(abcd) = Len(abc) + Len(d) /\ Len(z) = Len(abcd) + Len(e)
  BY <1>1, <1>2, <1>3, <1>5 DEF Joined
<1>7. \A k \in 1 .. Len(a) : z[k] = a[k]
  <2> TAKE k \in 1 .. Len(a)
  <2>1. k \in 1 .. Len(ab) /\ k \in 1 .. Len(abc) /\ k \in 1 .. Len(abcd)
    BY <1>0, <1>6
  <2>2. ab[k] = a[k] /\ abc[k] = ab[k] /\ abcd[k] = abc[k] /\ z[k] = abcd[k]
    BY <1>1, <1>2, <1>3, <1>5, <2>1 DEF Joined
  <2> QED
    BY <2>2
<1>8. \A k \in 1 .. Len(b) : z[Len(a) + k] = b[k]
  <2> TAKE k \in 1 .. Len(b)
  <2> DEFINE n == Len(a) + k
  <2>1. n \in 1 .. Len(ab) /\ n \in 1 .. Len(abc) /\ n \in 1 .. Len(abcd)
    BY <1>0, <1>6
  <2>2. ab[n] = b[k]
    BY <1>1 DEF Joined
  <2> HIDE DEF n
  <2>3. abc[n] = ab[n] /\ abcd[n] = abc[n] /\ z[n] = abcd[n]
    BY <1>2, <1>3, <1>5, <2>1 DEF Joined
  <2> QED
    BY <2>2, <2>3 DEF n
<1>9. \A k \in 1 .. Len(c) : z[Len(a) + Len(b) + k] = c[k]
  <2> TAKE k \in 1 .. Len(c)
  <2> DEFINE n == Len(ab) + k
  <2>1. n \in 1 .. Len(abc) /\ n \in 1 .. Len(abcd) /\ n = Len(a) + Len(b) + k
    BY <1>0, <1>6
  <2>2. abc[n] = c[k]
    BY <1>2 DEF Joined
  <2> HIDE DEF n
  <2>3. abcd[n] = abc[n] /\ z[n] = abcd[n]
    BY <1>3, <1>5, <2>1 DEF Joined
  <2> QED
    BY <2>1, <2>2, <2>3
<1>10. \A k \in 1 .. Len(d) : z[Len(a) + Len(b) + Len(c) + k] = d[k]
  <2> TAKE k \in 1 .. Len(d)
  <2> DEFINE n == Len(abc) + k
  <2>1. n \in 1 .. Len(abcd) /\ n = Len(a) + Len(b) + Len(c) + k
    BY <1>0, <1>6
  <2>2. abcd[n] = d[k]
    BY <1>3 DEF Joined
  <2> HIDE DEF n
  <2>3. z[n] = abcd[n]
    BY <1>5, <2>1 DEF Joined
  <2> QED
    BY <2>1, <2>2, <2>3
<1>11. \A k \in 1 .. Len(e) : z[Len(a) + Len(b) + Len(c) + Len(d) + k] = e[k]
  <2> TAKE k \in 1 .. Len(e)
  <2>1. Len(abcd) + k = Len(a) + Len(b) + Len(c) + Len(d) + k
    BY <1>0, <1>6
  <2>2. z[Len(abcd) + k] = e[k]
    BY <1>5 DEF Joined
  <2> QED
    BY <2>1, <2>2
<1>12. Len(z) = Len(a) + Len(b) + Len(c) + Len(d) + Len(e)
  BY <1>0, <1>6
<1> QED
  BY <1>5, <1>7, <1>8, <1>9, <1>10, <1>11, <1>12 DEF Parts, z

LEMMA WholeHolds ==
  ASSUME NEW p, IsProgram(p)
  PROVE  /\ Written(p) \in Seq(ToSet(Written(p))) /\ Len(Written(p)) = EndAt(p)
         /\ Holds(p, Written(p))
<1> DEFINE R == Len(p.registers)
           V == Len(p.vmem)
           C == Len(p.constants)
           L == IF p.zlib THEN 1 ELSE C
           lm == [i \in DOMAIN p.lmem |-> LmemField(p.lmem[i])]
           a == Metadata(p)
           b == Counted("num_registers", "register", p.registers)
           c == Counted("num_vmem_segments", "vmem", p.vmem)
           d == Counted("num_lmem_segments", "lmem", lm)
           e == ConstantsFields(p)
           z == Serialized(p)
           s == IF p.shebang THEN <<Shebang>> ELSE <<>>
           w == Written(p)
           U == ToSet(a) \cup ToSet(b) \cup ToSet(c) \cup ToSet(d) \cup ToSet(e) \cup {Shebang}
<1>0. R \in Nat /\ V \in Nat /\ C \in Nat /\ L \in Nat
  BY LenProperties DEF IsProgram
<1>1. /\ a \in Seq(ToSet(a)) /\ Len(a) = 3
      /\ a[1] = Field("magic", "SRS") /\ a[2] = Field("word_size", p.ws)
      /\ a[3] = Field("entry_point", "0x1000")
  BY MetadataAt
<1>2. /\ b \in Seq(ToSet(b)) /\ Len(b) = 1 + R /\ b[1] = Field("num_registers", R)
      /\ \A k \in 1 .. R : b[1 + k] = Field("register", p.registers[k])
  <2>1. p.registers \in Seq(ToSet(p.registers))
    BY DEF IsProgram
  <2> QED
    BY <2>1, CountedAt
<1>3. /\ c \in Seq(ToSet(c)) /\ Len(c) = 1 + V /\ c[1] = Field("num_vmem_segments", V)
      /\ \A k \in 1 .. V : c[1 + k] = Field("vmem", p.vmem[k])
  <2>1. p.vmem \in Seq(ToSet(p.vmem))
    BY DEF IsProgram
  <2> QED
    BY <2>1, CountedAt
<1>4. /\ d \in Seq(ToSet(d)) /\ Len(d) = 2 /\ d[1] = Field("num_lmem_segments", 1)
      /\ d[2] = Field("lmem", LmemField(p.lmem[1]))
  <2>1. lm \in Seq(ToSet(lm)) /\ Len(lm) = 1 /\ lm[1] = LmemField(p.lmem[1])
    BY LmemAtOne
  <2> HIDE DEF lm
  <2>2. /\ d \in Seq(ToSet(d)) /\ Len(d) = 1 + Len(lm) /\ d[1] = Field("num_lmem_segments", Len(lm))
        /\ \A k \in 1 .. Len(lm) : d[1 + k] = Field("lmem", lm[k])
    <3>1. lm \in Seq(ToSet(lm))
      BY <2>1
    <3>2. \A x : x \in Seq(ToSet(x)) =>
            \A y : y = Counted("num_lmem_segments", "lmem", x) =>
              /\ y \in Seq(ToSet(y)) /\ Len(y) = 1 + Len(x) /\ y[1] = Field("num_lmem_segments", Len(x))
              /\ \A k \in 1 .. Len(x) : y[1 + k] = Field("lmem", x[k])
      BY CountedAt
    <3>3. d = Counted("num_lmem_segments", "lmem", lm)
      OBVIOUS
    <3> HIDE DEF d
    <3> QED
      BY <3>1, <3>2, <3>3, Zenon
  <2> HIDE DEF d
  <2>3. 1 \in 1 .. Len(lm) /\ d[1 + 1] = Field("lmem", lm[1])
    BY <2>1, <2>2
  <2> QED
    BY <2>1, <2>2, <2>3
<1>5. /\ e \in Seq(ToSet(e)) /\ Len(e) = 2 + L
      /\ e[1] = Field("num_constants", C)
      /\ e[2] = Field("constants_compressed", p.zlib)
      /\ IF p.zlib THEN e[3] = Field("block", Deflate(p.constants))
         ELSE \A k \in 1 .. C : e[2 + k] = Field("constant", p.constants[k])
  BY ConstantsAt
<1>6. z = a \o b \o c \o d \o e
  BY DEF Serialized
<1>7. w = s \o z
  BY DEF Written
<1>8. Len(s) = Before(p) /\ (p.shebang => s[1] = Shebang) /\ s \in Seq({Shebang})
  <2>1. CASE p.shebang
    BY <2>1 DEF Before
  <2>2. CASE ~p.shebang
    <3>1. s = <<>>
      BY <2>2
    <3> QED
      BY <2>2, <3>1, EmptySeq DEF Before
  <2> QED
    BY <2>1, <2>2
<1>p. /\ Before(p) \in Nat
      /\ VmemAt(p) = Before(p) + 5 + R /\ LmemAt(p) = Before(p) + 6 + R + V
      /\ ConstAt(p) = Before(p) + 8 + R + V /\ ConstAt(p) + 1 = Before(p) + 9 + R + V
      /\ EndAt(p) = Before(p) + 9 + R + V + L
  <2>1. Before(p) \in Nat
    BY DEF Before
  <2>2. VmemAt(p) = Before(p) + 5 + R
    BY DEF VmemAt
  <2> HIDE DEF R
  <2>3. LmemAt(p) = Before(p) + 6 + R + V
    BY <1>0, <2>1, <2>2 DEF LmemAt
  <2> HIDE DEF V
  <2>4. ConstAt(p) = Before(p) + 8 + R + V
    BY <1>0, <2>1, <2>3 DEF ConstAt
  <2>5. EndAt(p) = ConstAt(p) + 1 + L
    BY DEF EndAt
  <2> HIDE DEF C, L
  <2> QED
    BY <1>0, <2>1, <2>2, <2>3, <2>4, <2>5
<1> HIDE DEF lm, a, b, c, d, e, z, s, w, R, V, C, L
<1>9. a \in Seq(U) /\ b \in Seq(U) /\ c \in Seq(U) /\ d \in Seq(U) /\ e \in Seq(U) /\ s \in Seq(U)
  BY <1>1, <1>2, <1>3, <1>4, <1>5, <1>8, SeqMonotonic
<1> HIDE DEF U
<1>10. /\ z \in Seq(U) /\ Len(z) = Len(a) + Len(b) + Len(c) + Len(d) + Len(e)
       /\ \A k \in 1 .. Len(a) : z[k] = a[k]
       /\ \A k \in 1 .. Len(b) : z[Len(a) + k] = b[k]
       /\ \A k \in 1 .. Len(c) : z[Len(a) + Len(b) + k] = c[k]
       /\ \A k \in 1 .. Len(d) : z[Len(a) + Len(b) + Len(c) + k] = d[k]
       /\ \A k \in 1 .. Len(e) : z[Len(a) + Len(b) + Len(c) + Len(d) + k] = e[k]
  <2>1. a \in Seq(U) /\ b \in Seq(U) /\ c \in Seq(U) /\ d \in Seq(U) /\ e \in Seq(U)
    BY <1>9
  <2>2. z \in Seq(U) /\ Parts(a, b, c, d, e, z)
    BY <1>6, <2>1, FiveParts
  <2> QED
    BY <2>2 DEF Parts
<1>11. w \in Seq(U) /\ Joined(s, z, w)
  BY <1>7, <1>9, <1>10, ConcatAt
<1>12. w \in Seq(ToSet(w))
  BY <1>11, IsSequence
<1>13. Len(z) = 3 + (1 + R) + (1 + V) + 2 + Len(e) /\ Len(w) = Before(p) + Len(z)
  BY <1>1, <1>2, <1>3, <1>4, <1>8, <1>10, <1>11 DEF Joined
<1>14. Len(w) = EndAt(p)
  <2>1. Len(w) = Before(p) + (3 + (1 + R) + (1 + V) + 2 + (2 + L))
    <3>1. Len(e) = 2 + L
      BY <1>5
    <3> QED
      BY <1>13, <3>1, Zenon
  <2>2. \A x, r, v, l \in Nat : x + (3 + (1 + r) + (1 + v) + 2 + (2 + l)) = x + 9 + r + v + l
    OBVIOUS
  <2>3. Before(p) \in Nat /\ EndAt(p) = Before(p) + 9 + R + V + L
    BY <1>p
  <2> QED
    <3>1. Before(p) + (3 + (1 + R) + (1 + V) + 2 + (2 + L)) = Before(p) + 9 + R + V + L
      BY <1>0, <2>2, <2>3
    <3> QED
      BY <2>1, <2>3, <3>1, Zenon
<1>15. Before(p) \in Nat /\ Len(z) \in Nat /\ \A k \in 1 .. Len(z) : w[Before(p) + k] = z[k]
  <2>1. Len(s) = Before(p) /\ Before(p) \in Nat
    BY <1>8 DEF Before
  <2>2. Len(z) \in Nat
    BY <1>10
  <2>3. \A k \in 1 .. Len(z) : w[Len(s) + k] = z[k]
    BY <1>11, Zenon DEF Joined
  <2> QED
    BY <2>1, <2>2, <2>3, Zenon
<1>16. p.shebang => w[1] = Shebang
  <2>1. p.shebang => 1 \in 1 .. Len(s)
    BY <1>8 DEF Before
  <2> QED
    BY <1>8, <1>11, <2>1 DEF Joined
<1>17. /\ w[Before(p) + 1] = Field("magic", "SRS")
       /\ w[Before(p) + 2] = Field("word_size", p.ws)
       /\ w[Before(p) + 3] = Field("entry_point", "0x1000")
  <2>1. {1, 2, 3} \subseteq 1 .. Len(z) /\ {1, 2, 3} \subseteq 1 .. Len(a)
    BY <1>0, <1>1, <1>5, <1>13
  <2> QED
    BY <1>1, <1>10, <1>15, <2>1
<1>18. /\ w[Before(p) + 4] = Field("num_registers", R)
       /\ \A k \in 1 .. R : w[Before(p) + 4 + k] = Field("register", p.registers[k])
  <2>1. \A k \in 1 .. 1 + R : w[Before(p) + 3 + k] = b[k]
    <3> TAKE k \in 1 .. 1 + R
    <3>1. 3 + k \in 1 .. Len(z) /\ k \in 1 .. Len(b)
      BY <1>0, <1>2, <1>5, <1>13
    <3>2. z[3 + k] = b[k]
      BY <1>1, <1>10, <3>1
    <3>3. w[Before(p) + (3 + k)] = z[3 + k]
      BY <1>15, <3>1
    <3>4. Before(p) + (3 + k) = Before(p) + 3 + k
      BY <1>15, <3>1
    <3> QED
      BY <3>2, <3>3, <3>4
  <2>2. w[Before(p) + 4] = b[1]
    BY <1>0, <1>15, <2>1
  <2>3. \A k \in 1 .. R : w[Before(p) + 4 + k] = b[1 + k]
    <3> TAKE k \in 1 .. R
    <3>1. 1 + k \in 1 .. 1 + R /\ Before(p) + 3 + (1 + k) = Before(p) + 4 + k
      BY <1>0, <1>15
    <3> QED
      BY <2>1, <3>1
  <2> QED
    BY <1>2, <2>2, <2>3
<1>19. /\ w[VmemAt(p)] = Field("num_vmem_segments", V)
       /\ \A k \in 1 .. V : w[VmemAt(p) + k] = Field("vmem", p.vmem[k])
  <2>1. \A k \in 1 .. 1 + V : w[Before(p) + 4 + R + k] = c[k]
    <3> TAKE k \in 1 .. 1 + V
    <3>1. 4 + R + k \in 1 .. Len(z) /\ k \in 1 .. Len(c) /\ Len(a) + Len(b) + k = 4 + R + k
      BY <1>0, <1>1, <1>2, <1>3, <1>5, <1>13
    <3>2. z[4 + R + k] = c[k]
      BY <1>10, <3>1
    <3>3. w[Before(p) + (4 + R + k)] = z[4 + R + k]
      BY <1>15, <3>1
    <3>4. Before(p) + (4 + R + k) = Before(p) + 4 + R + k
      BY <1>0, <1>15, <3>1
    <3> QED
      BY <3>2, <3>3, <3>4
  <2>2. VmemAt(p) = Before(p) + 4 + R + 1
    BY <1>0, <1>p
  <2>3. w[VmemAt(p)] = c[1]
    BY <1>0, <2>1, <2>2
  <2>4. \A k \in 1 .. V : w[VmemAt(p) + k] = c[1 + k]
    <3> TAKE k \in 1 .. V
    <3>1. 1 + k \in 1 .. 1 + V /\ Before(p) + 4 + R + (1 + k) = VmemAt(p) + k
      BY <1>0, <1>15, <2>2
    <3> QED
      BY <2>1, <3>1
  <2> QED
    BY <1>3, <2>3, <2>4
<1>20. /\ w[LmemAt(p)] = Field("num_lmem_segments", 1)
       /\ w[LmemAt(p) + 1] = Field("lmem", LmemField(p.lmem[1]))
  <2>1. \A k \in {1, 2} : w[Before(p) + 5 + R + V + k] = d[k]
    <3> TAKE k \in {1, 2}
    <3>1. /\ 5 + R + V + k \in 1 .. Len(z) /\ k \in 1 .. Len(d)
          /\ Len(a) + Len(b) + Len(c) + k = 5 + R + V + k
      BY <1>0, <1>1, <1>2, <1>3, <1>4, <1>5, <1>13
    <3>2. z[5 + R + V + k] = d[k]
      BY <1>10, <3>1
    <3>3. w[Before(p) + (5 + R + V + k)] = z[5 + R + V + k]
      BY <1>15, <3>1
    <3>4. Before(p) + (5 + R + V + k) = Before(p) + 5 + R + V + k
      BY <1>0, <1>15, <3>1
    <3> QED
      BY <3>2, <3>3, <3>4
  <2>2. LmemAt(p) = Before(p) + 5 + R + V + 1 /\ LmemAt(p) + 1 = Before(p) + 5 + R + V + 2
    BY <1>0, <1>p
  <2> QED
    BY <1>4, <2>1, <2>2
<1>21. /\ w[ConstAt(p)] = Field("num_constants", C)
       /\ w[ConstAt(p) + 1] = Field("constants_compressed", p.zlib)
       /\ IF p.zlib THEN w[ConstAt(p) + 2] = Field("block", Deflate(p.constants))
          ELSE \A k \in 1 .. C : w[ConstAt(p) + 1 + k] = Field("constant", p.constants[k])
  <2>1. \A k \in 1 .. Len(e) : w[Before(p) + 7 + R + V + k] = e[k]
    <3> TAKE k \in 1 .. Len(e)
    <3>0. Len(e) \in Nat
      BY <1>0, <1>5
    <3>1. /\ 7 + R + V + k \in 1 .. Len(z)
          /\ Len(a) + Len(b) + Len(c) + Len(d) + k = 7 + R + V + k
      BY <1>0, <1>1, <1>2, <1>3, <1>4, <1>13, <3>0
    <3>2. z[7 + R + V + k] = e[k]
      BY <1>10, <3>1
    <3>3. w[Before(p) + (7 + R + V + k)] = z[7 + R + V + k]
      BY <1>15, <3>1
    <3>4. Before(p) + (7 + R + V + k) = Before(p) + 7 + R + V + k
      BY <1>0, <1>15, <3>0
    <3> QED
      BY <3>2, <3>3, <3>4
  <2>2. ConstAt(p) \in Nat /\ ConstAt(p) = Before(p) + 7 + R + V + 1
    BY <1>0, <1>p
  <2>3. ConstAt(p) + 1 = Before(p) + 7 + R + V + 2 /\ {1, 2} \subseteq 1 .. Len(e)
    BY <1>0, <1>5, <1>15, <2>2
  <2>4. w[ConstAt(p)] = e[1] /\ w[ConstAt(p) + 1] = e[2]
    BY <2>1, <2>2, <2>3
  <2>5. p.zlib => w[ConstAt(p) + 2] = e[3]
    <3> HAVE p.zlib
    <3>1. 3 \in 1 .. Len(e) /\ ConstAt(p) + 2 = Before(p) + 7 + R + V + 3
      BY <1>0, <1>5, <1>15, <2>2 DEF L
    <3> QED
      BY <2>1, <3>1
  <2>6. ~p.zlib => \A k \in 1 .. C : w[ConstAt(p) + 1 + k] = e[2 + k]
    <3> HAVE ~p.zlib
    <3> TAKE k \in 1 .. C
    <3>0. Len(e) = 2 + C
      BY <1>5 DEF L
    <3>1. 2 + k \in 1 .. Len(e)
      BY <1>0, <3>0
    <3>2. ConstAt(p) + 1 + k = Before(p) + 7 + R + V + (2 + k)
      BY <1>0, <1>p
    <3> QED
      BY <2>1, <3>1, <3>2
  <2> QED
    BY <1>5, <2>4, <2>5, <2>6
<1>22. Holds(p, w)
  BY <1>16, <1>17, <1>18, <1>19, <1>20, <1>21 DEF Holds, R, V, C
<1> QED
  BY <1>12, <1>14, <1>22 DEF w
-----------------------------------------------------------------------------
\* What the fields read so far come to, and how a field changes it.

Acc(at, left, q) == [at |-> at, left |-> left, prog |-> q]
Part(p, R, V, L, z, C) ==
  [ws |-> p.ws, shebang |-> p.shebang, registers |-> R, vmem |-> V, lmem |-> L, zlib |-> z, constants |-> C]

Updated(a, at, left, q) == [a EXCEPT !.prog = q, !.left = left, !.at = at]
Moved(a, at, q) == [a EXCEPT !.prog = q, !.at = at]
Begun(a, at, q) == [a EXCEPT !.at = at, !.prog = q]
Recounted(a, at, left) == [a EXCEPT !.left = left, !.at = at]
Compressed(a, at, z) == [a EXCEPT !.prog.zlib = z, !.at = at]
Yes(t) == t = TRUE
WithSize(q, w) == [q EXCEPT !.ws = w]
WithMark(q, sh) == [q EXCEPT !.shebang = sh]
WithZlib(q, z) == [q EXCEPT !.zlib = z]

LEMMA AccWith ==
  ASSUME NEW a, NEW at, NEW left, NEW q, a = Acc(at, left, q), NEW at2, NEW left2, NEW q2
  PROVE  /\ Updated(a, at2, left2, q2) = Acc(at2, left2, q2)
         /\ Moved(a, at2, q2) = Acc(at2, left, q2)
         /\ Begun(a, at2, q2) = Acc(at2, left, q2)
         /\ Recounted(a, at2, left2) = Acc(at2, left2, q)
         /\ Expect(a, at2) = Acc(at2, left, q)
<1> DEFINE S == [at : {at, at2}, left : {left, left2}, prog : {q, q2}]
<1>1. a \in S /\ a.at = at /\ a.left = left /\ a.prog = q
  BY DEF Acc
<1>2. \A s \in S : [s EXCEPT !.prog = q2] \in S /\ [s EXCEPT !.prog = q2].prog = q2
         /\ [s EXCEPT !.prog = q2].at = s.at  /\ [s EXCEPT !.prog = q2].left = s.left
   OBVIOUS
<1>3. \A s \in S : [s EXCEPT !.left = left2] \in S /\ [s EXCEPT !.left = left2].left = left2
         /\ [s EXCEPT !.left = left2].at = s.at  /\ [s EXCEPT !.left = left2].prog = s.prog
   OBVIOUS
<1>4. \A s \in S : [s EXCEPT !.at = at2] \in S /\ [s EXCEPT !.at = at2].at = at2
         /\ [s EXCEPT !.at = at2].left = s.left  /\ [s EXCEPT !.at = at2].prog = s.prog
   OBVIOUS
<1>5. \A s \in S : s = Acc(s.at, s.left, s.prog)
  BY DEF Acc
<1> HIDE DEF S
<1>6. [a EXCEPT !.prog = q2] \in S /\ [a EXCEPT !.left = left2] \in S /\ [a EXCEPT !.at = at2] \in S
  BY <1>1, <1>2, <1>3, <1>4, Zenon
<1> DEFINE b == [a EXCEPT !.prog = q2]
           c == [b EXCEPT !.left = left2]
           d == [c EXCEPT !.at = at2]
           e == [b EXCEPT !.at = at2]
           f == [a EXCEPT !.left = left2]
           g == [f EXCEPT !.at = at2]
           h == [a EXCEPT !.at = at2]
           i == [h EXCEPT !.prog = q2]
<1>7. b \in S /\ b.at = at /\ b.left = left /\ b.prog = q2
  BY <1>1, <1>2, Zenon
<1> HIDE DEF b
<1>8. c \in S /\ c.at = at /\ c.left = left2 /\ c.prog = q2
  BY <1>7, <1>3, Zenon
<1> HIDE DEF c
<1>9. d \in S /\ d.at = at2 /\ d.left = left2 /\ d.prog = q2
  BY <1>8, <1>4, Zenon
<1>10. e \in S /\ e.at = at2 /\ e.left = left /\ e.prog = q2
  BY <1>7, <1>4, Zenon
<1>11. f \in S /\ f.at = at /\ f.left = left2 /\ f.prog = q
  BY <1>1, <1>3, Zenon
<1> HIDE DEF f
<1>12. g \in S /\ g.at = at2 /\ g.left = left2 /\ g.prog = q
  BY <1>11, <1>4, Zenon
<1>13. h \in S /\ h.at = at2 /\ h.left = left /\ h.prog = q
  BY <1>1, <1>4, Zenon
<1> HIDE DEF h
<1>14. i \in S /\ i.at = at2 /\ i.left = left /\ i.prog = q2
  BY <1>13, <1>2, Zenon
<1> HIDE DEF d, e, g, i
<1>15. d = Acc(at2, left2, q2) /\ e = Acc(at2, left, q2) /\ g = Acc(at2, left2, q) /\ i = Acc(at2, left, q2)
       /\ h = Acc(at2, left, q)
  <2>1. d = Acc(at2, left2, q2)
    BY <1>5, <1>9, Zenon
  <2>2. e = Acc(at2, left, q2)
    BY <1>5, <1>10, Zenon
  <2>3. g = Acc(at2, left2, q)
    BY <1>5, <1>12, Zenon
  <2>4. i = Acc(at2, left, q2)
    BY <1>5, <1>14, Zenon
  <2>5. h = Acc(at2, left, q)
    BY <1>5, <1>13, Zenon
  <2> QED
    BY <2>1, <2>2, <2>3, <2>4, <2>5
<1> QED
  BY <1>15 DEF b, c, d, e, f, g, h, i, Updated, Moved, Begun, Recounted, Expect

LEMMA PartWith ==
  ASSUME NEW p, NEW R, NEW V, NEW L, NEW z, NEW C, NEW q, q = Part(p, R, V, L, z, C), NEW v
  PROVE  /\ [q EXCEPT !.registers = v] = Part(p, v, V, L, z, C)
         /\ [q EXCEPT !.vmem = v] = Part(p, R, v, L, z, C)
         /\ [q EXCEPT !.lmem = v] = Part(p, R, V, v, z, C)
         /\ [q EXCEPT !.zlib = v] = Part(p, R, V, L, v, C)
         /\ [q EXCEPT !.constants = v] = Part(p, R, V, L, z, v)
<1> DEFINE Q == [ws : {p.ws}, shebang : {p.shebang}, registers : {R, v}, vmem : {V, v}, lmem : {L, v},
                 zlib : {z, v}, constants : {C, v}]
<1>1. /\ q \in Q /\ q.ws = p.ws /\ q.shebang = p.shebang
      /\ q.registers = R /\ q.vmem = V /\ q.lmem = L /\ q.zlib = z /\ q.constants = C
  BY DEF Part
<1>2. [q EXCEPT !.registers = v] = Part(p, v, V, L, z, C)
  BY <1>1 DEF Part
<1>3. [q EXCEPT !.vmem = v] = Part(p, R, v, L, z, C)
  BY <1>1 DEF Part
<1>4. [q EXCEPT !.lmem = v] = Part(p, R, V, v, z, C)
  BY <1>1 DEF Part
<1>5. [q EXCEPT !.zlib = v] = Part(p, R, V, L, v, C)
  BY <1>1 DEF Part
<1>6. [q EXCEPT !.constants = v] = Part(p, R, V, L, z, v)
  BY <1>1 DEF Part
<1> QED
  BY <1>2, <1>3, <1>4, <1>5, <1>6

LEMMA ElementIs ==
  ASSUME NEW at, NEW left, NEW p, NEW R, NEW V, NEW L, NEW z, NEW C, NEW v, NEW next,
     NEW a, a = Acc(at, left, Part(p, R, V, L, z, C))
  PROVE /\ Element(a, "registers", v, next)
            = Acc(IF left = 1 THEN next ELSE at, left - 1, Part(p, Append(R, v), V, L, z, C))
        /\ Element(a, "vmem", v, next)
            = Acc(IF left = 1 THEN next ELSE at, left - 1, Part(p, R, Append(V, v), L, z, C))
        /\ Element(a, "lmem", v, next)
            = Acc(IF left = 1 THEN next ELSE at, left - 1, Part(p, R, V, Append(L, v), z, C))
        /\ Element(a, "constants", v, next)
            = Acc(IF left = 1 THEN next ELSE at, left - 1, Part(p, R, V, L, z, Append(C, v)))
<1> DEFINE q == Part(p, R, V, L, z, C)
           at2 == IF left = 1 THEN next ELSE at
<1>1. q.registers = R /\ q.vmem = V /\ q.lmem = L /\ q.zlib = z /\ q.constants = C
  BY DEF Part
<1>2. a.at = at /\ a.left = left /\ a.prog = q
  BY DEF Acc
<1>0. a = Acc(at, left, q) /\ q = Part(p, R, V, L, z, C)
  OBVIOUS
<1> HIDE DEF q
<1> DEFINE qr == [q EXCEPT !.registers = Append(R, v)]
           qv == [q EXCEPT !.vmem = Append(V, v)]
           ql == [q EXCEPT !.lmem = Append(L, v)]
           qc == [q EXCEPT !.constants = Append(C, v)]
<1>3. /\ Element(a, "registers", v, next) = Updated(a, at2, left - 1, qr)
      /\ Element(a, "vmem", v, next) = Updated(a, at2, left - 1, qv)
      /\ Element(a, "lmem", v, next) = Updated(a, at2, left - 1, ql)
      /\ Element(a, "constants", v, next) = Updated(a, at2, left - 1, qc)
  BY <1>1, <1>2 DEF Element, Updated
<1>4. /\ qr = Part(p, Append(R, v), V, L, z, C) /\ qv = Part(p, R, Append(V, v), L, z, C)
      /\ ql = Part(p, R, V, Append(L, v), z, C) /\ qc = Part(p, R, V, L, z, Append(C, v))
  <2>1. \A w : /\ [q EXCEPT !.registers = w] = Part(p, w, V, L, z, C)
               /\ [q EXCEPT !.vmem = w] = Part(p, R, w, L, z, C)
               /\ [q EXCEPT !.lmem = w] = Part(p, R, V, w, z, C)
               /\ [q EXCEPT !.constants = w] = Part(p, R, V, L, z, w)
    BY <1>0, PartWith
  <2> QED
    BY <2>1, Zenon
<1> HIDE DEF at2, qr, qv, ql, qc
<1>5. \A x : Updated(a, at2, left - 1, x) = Acc(at2, left - 1, x)
  BY <1>0, AccWith
<1> QED
  BY <1>3, <1>4, <1>5 DEF at2

\* Which part of the reader a field is for.
LEMMA ReadFieldIs ==
  ASSUME NEW b, NEW a, NEW x
  PROVE  /\ a.at \in {"end", "refused", "undefined"} => ReadField(b, a, x) = a
         /\ a.at \in {"magic", "magic2", "word_size", "entry_point"} => ReadField(b, a, x) = ReadMetadata(b, a, x)
         /\ a.at \in {"num_registers", "register"} => ReadField(b, a, x) = ReadRegisters(a, x)
         /\ a.at \in {"num_vmem_segments", "vmem"} => ReadField(b, a, x) = ReadVmem(a, x)
         /\ a.at \in {"num_lmem_segments", "lmem"} => ReadField(b, a, x) = ReadLmem(b, a, x)
         /\ a.at \in {"num_constants", "constants_compressed", "block", "constant"} =>
              ReadField(b, a, x) = ReadConstants(b, a, x)
<1>1. a.at \in {"end", "refused", "undefined"} => ReadField(b, a, x) = a
  BY Zenon DEF ReadField
<1>2. a.at \in {"magic", "magic2", "word_size", "entry_point"} => ReadField(b, a, x) = ReadMetadata(b, a, x)
  BY Zenon DEF ReadField
<1>3. a.at \in {"num_registers", "register"} => ReadField(b, a, x) = ReadRegisters(a, x)
  BY Zenon DEF ReadField
<1>4. a.at \in {"num_vmem_segments", "vmem"} => ReadField(b, a, x) = ReadVmem(a, x)
  BY Zenon DEF ReadField
<1>5. a.at \in {"num_lmem_segments", "lmem"} => ReadField(b, a, x) = ReadLmem(b, a, x)
  BY Zenon DEF ReadField
<1>6. a.at \in {"num_constants", "constants_compressed", "block", "constant"} =>
        ReadField(b, a, x) = ReadConstants(b, a, x)
  BY Zenon DEF ReadField
<1> QED
  BY <1>1, <1>2, <1>3, <1>4, <1>5, <1>6

LEMMA ReadMetadataIs ==
  ASSUME NEW b, NEW a
  PROVE  /\ a.at = "magic" /\ b # Wrapper => ReadMetadata(b, a, Shebang) = Marked(a, "magic2")
         /\ a.at = "magic" /\ b = Wrapper => ReadMetadata(b, a, Shebang) = Refuse(a)
         /\ a.at \in {"magic", "magic2"} => ReadMetadata(b, a, Field("magic", "SRS")) = Expect(a, "word_size")
         /\ a.at = "word_size" /\ b = Wrapper =>
              \A v : ReadMetadata(b, a, Field("word_size", v)) = Sized(a, "end", v)
         /\ a.at = "word_size" /\ b # Wrapper =>
              \A v : ReadMetadata(b, a, Field("word_size", v))
                       = IF b.ws = v THEN Sized(a, "entry_point", v) ELSE Refuse(a)
         /\ a.at = "entry_point" =>
              \A v : ReadMetadata(b, a, Field("entry_point", v)) = Expect(a, "num_registers")
<1>0. /\ NameOf(Shebang) = "shebang" /\ Shebang # Field("magic", "SRS")
      /\ NameOf(Field("magic", "SRS")) = "magic"
      /\ \A w : ValueOf(Field("word_size", w)) = w /\ NameOf(Field("word_size", w)) = "word_size"
                /\ NameOf(Field("entry_point", w)) = "entry_point"
  BY DEF NameOf, ValueOf, Field, Shebang
<1>1. a.at = "magic" /\ b # Wrapper => ReadMetadata(b, a, Shebang) = Marked(a, "magic2")
  BY <1>0, Zenon DEF ReadMetadata
<1>2. a.at = "magic" /\ b = Wrapper => ReadMetadata(b, a, Shebang) = Refuse(a)
  BY <1>0, Zenon DEF ReadMetadata
<1>3. a.at \in {"magic", "magic2"} => ReadMetadata(b, a, Field("magic", "SRS")) = Expect(a, "word_size")
  BY <1>0, Zenon DEF ReadMetadata
<1>4. ASSUME a.at = "word_size", NEW x
      PROVE  /\ b = Wrapper => ReadMetadata(b, a, x) = Sized(a, "end", ValueOf(x))
             /\ b # Wrapper /\ b.ws = ValueOf(x) => ReadMetadata(b, a, x) = Sized(a, "entry_point", ValueOf(x))
             /\ b # Wrapper /\ b.ws # ValueOf(x) => ReadMetadata(b, a, x) = Refuse(a)
  <2>1. b = Wrapper => ReadMetadata(b, a, x) = Sized(a, "end", ValueOf(x))
    BY <1>4, Zenon DEF ReadMetadata
  <2>2. b # Wrapper /\ b.ws = ValueOf(x) => ReadMetadata(b, a, x) = Sized(a, "entry_point", ValueOf(x))
    BY <1>4, Zenon DEF ReadMetadata
  <2>3. b # Wrapper /\ b.ws # ValueOf(x) => ReadMetadata(b, a, x) = Refuse(a)
    BY <1>4, Zenon DEF ReadMetadata
  <2> QED
    BY <2>1, <2>2, <2>3
<1>5. ASSUME NEW v, a.at = "word_size"
      PROVE  /\ b = Wrapper => ReadMetadata(b, a, Field("word_size", v)) = Sized(a, "end", v)
             /\ b # Wrapper => ReadMetadata(b, a, Field("word_size", v))
                                 = IF b.ws = v THEN Sized(a, "entry_point", v) ELSE Refuse(a)
  <2> DEFINE x == Field("word_size", v)
  <2>1. ValueOf(x) = v
    BY <1>0
  <2> HIDE DEF x
  <2> QED
    BY <1>4, <1>5, <2>1 DEF x
<1>6. ASSUME a.at = "entry_point", NEW v
      PROVE  ReadMetadata(b, a, Field("entry_point", v)) = Expect(a, "num_registers")
  BY <1>0, <1>6, Zenon DEF ReadMetadata
<1> QED
  BY <1>1, <1>2, <1>3, <1>4, <1>5, <1>6

LEMMA ReadConstantsIs ==
  ASSUME NEW b, NEW a
  PROVE  /\ a.at = "num_constants" =>
              \A v : ReadConstants(b, a, Field("num_constants", v)) = Recounted(a, "constants_compressed", v)
         /\ a.at = "constants_compressed" =>
              \A v \in BOOLEAN :
                ReadConstants(b, a, Field("constants_compressed", v))
                  = IF ~v THEN Compressed(a, IF a.left = 0 THEN "end" ELSE "constant", FALSE)
                    ELSE IF b.zlib THEN Compressed(a, "block", TRUE) ELSE Refuse(a)
         /\ a.at = "block" => \A v : ReadConstants(b, a, Field("block", Deflate(v))) = ReadBlock(a, v)
         /\ a.at = "constant" => \A v : ReadConstants(b, a, Field("constant", v)) = ReadConst(a, v)
<1>0. (\A n, w : ValueOf(Field(n, w)) = w) /\ \A v : Inflate(Deflate(v)) = v
  BY DEF ValueOf, Field, Inflate, Deflate
<1>1. ASSUME a.at = "num_constants", NEW v
      PROVE  ReadConstants(b, a, Field("num_constants", v)) = Recounted(a, "constants_compressed", v)
  BY <1>0, <1>1, Zenon DEF ReadConstants, Recounted
<1>2. ASSUME a.at = "constants_compressed", NEW v \in BOOLEAN
      PROVE  ReadConstants(b, a, Field("constants_compressed", v))
               = IF ~v THEN Compressed(a, IF a.left = 0 THEN "end" ELSE "constant", FALSE)
                 ELSE IF b.zlib THEN Compressed(a, "block", TRUE) ELSE Refuse(a)
  <2>1. CASE ~v
    BY <1>0, <1>2, <2>1, Zenon DEF ReadConstants, Compressed
  <2>2. CASE v /\ b.zlib
    BY <1>0, <1>2, <2>2, Zenon DEF ReadConstants, Compressed
  <2>3. CASE v /\ ~b.zlib
    BY <1>0, <1>2, <2>3, Zenon DEF ReadConstants
  <2> QED
    BY <2>1, <2>2, <2>3, Zenon
<1>5. ASSUME a.at = "block", NEW v PROVE ReadConstants(b, a, Field("block", Deflate(v))) = ReadBlock(a, v)
  BY <1>0, <1>5, Zenon DEF ReadConstants
<1>6. ASSUME a.at = "constant", NEW v PROVE ReadConstants(b, a, Field("constant", v)) = ReadConst(a, v)
  BY <1>0, <1>6, Zenon DEF ReadConstants
<1> QED
  BY <1>1, <1>2, <1>5, <1>6, Zenon

\* The fields one by one, from what was read before them.

LEMMA BeginningsOf ==
  ASSUME NEW S, NEW s \in Seq(S)
  PROVE  /\ SubSeq(s, 1, 0) = <<>> /\ SubSeq(s, 1, Len(s)) = s
         /\ \A k \in Nat : k < Len(s) => Append(SubSeq(s, 1, k), s[k + 1]) = SubSeq(s, 1, k + 1)
<1>1. Len(s) \in Nat
  OBVIOUS
<1>2. SubSeq(s, 1, 0) = <<>> /\ SubSeq(s, 1, Len(s)) = s
  BY SubSeqFull, SubSeqEmpty
<1>3. ASSUME NEW k \in Nat, k < Len(s)
      PROVE  Append(SubSeq(s, 1, k), s[k + 1]) = SubSeq(s, 1, k + 1)
  <2> DEFINE x == Append(SubSeq(s, 1, k), s[k + 1])
             y == SubSeq(s, 1, k + 1)
  <2>1. x \in Seq(S) /\ Len(x) = k + 1 /\ \A i \in 1 .. k + 1 : x[i] = s[i]
    <3>1. SubSeq(s, 1, k) \in Seq(S) /\ Len(SubSeq(s, 1, k)) = k /\ \A i \in 1 .. k : SubSeq(s, 1, k)[i] = s[i]
      BY <1>1, <1>3, SubSeqProperties
    <3>2. s[k + 1] \in S
      BY <1>1, <1>3
    <3> QED
      BY <3>1, <3>2
  <2>2. y \in Seq(S) /\ Len(y) = k + 1 /\ \A i \in 1 .. k + 1 : y[i] = s[i]
    BY <1>1, <1>3, SubSeqProperties
  <2> HIDE DEF x, y
  <2>3. x = y
    BY <2>1, <2>2, SeqEqual
  <2> QED
    BY <2>3 DEF x, y
<1> QED
  BY <1>2, <1>3

Blank(w, sh) == [ws |-> w, shebang |-> sh, registers |-> <<>>, vmem |-> <<>>, lmem |-> <<>>,
                 zlib |-> FALSE, constants |-> <<>>]
No == FALSE
NoParts(p) == Part(p, <<>>, <<>>, <<>>, No, <<>>)

LEMMA AccParts ==
  ASSUME NEW at, NEW left, NEW q
  PROVE  Acc(at, left, q).at = at /\ Acc(at, left, q).left = left /\ Acc(at, left, q).prog = q
BY DEF Acc

LEMMA BlankWith ==
  ASSUME NEW w, NEW sh, NEW v
  PROVE  WithSize(Blank(w, sh), v) = Blank(v, sh) /\ WithMark(Blank(w, sh), v) = Blank(w, v)
<1>0. PICK e, z : e = <<>> /\ z = FALSE
  OBVIOUS
<1> DEFINE R(x, y) == [ws |-> x, shebang |-> y, registers |-> e, vmem |-> e, lmem |-> e, zlib |-> z, constants |-> e]
           Q == [ws : {w, v}, shebang : {sh, v}, registers : {e}, vmem : {e}, lmem : {e}, zlib : {z}, constants : {e}]
           q == R(w, sh)
<1>1. \A x, y : Blank(x, y) = R(x, y)
  BY <1>0 DEF Blank
<1>2. /\ q \in Q /\ q.ws = w /\ q.shebang = sh
      /\ q.registers = e /\ q.vmem = e /\ q.lmem = e /\ q.zlib = z /\ q.constants = e
  OBVIOUS
<1> HIDE DEF q
<1>3. [q EXCEPT !.ws = v] = R(v, sh)
  BY <1>2
<1>4. [q EXCEPT !.shebang = v] = R(w, v)
  BY <1>2
<1>5. q = Blank(w, sh)
  BY <1>1 DEF q
<1> HIDE DEF R
<1> QED
  BY <1>1, <1>3, <1>4, <1>5 DEF WithSize, WithMark

\* `at' set first, as the code does, and then a member of the program.
LEMMA BegunWith ==
  ASSUME NEW a, NEW at, NEW left, NEW q, a = Acc(at, left, q), NEW at2, NEW v
  PROVE  /\ Sized(a, at2, v) = Acc(at2, left, WithSize(q, v))
         /\ Yes(v) => Marked(a, at2) = Acc(at2, left, WithMark(q, v))
         /\ Compressed(a, at2, v) = Acc(at2, left, WithZlib(q, v))
<1> DEFINE c == [a EXCEPT !.at = at2]
<1>1. a.prog = q
  BY AccParts
<1>2. c = Acc(at2, left, q)
  <2>1. Expect(a, at2) = Acc(at2, left, q)
    BY AccWith
  <2> QED
    BY <2>1 DEF Expect
<1> HIDE DEF c
<1>3. c.prog = q /\ c.at = at2
  BY <1>2, AccParts
<1>4. [c EXCEPT !.prog.ws = v] = Acc(at2, left, WithSize(q, v))
  <2> DEFINE x == [q EXCEPT !.ws = v]
  <2>1. [c EXCEPT !.prog.ws = v] = Begun(c, at2, x)
    BY <1>2, <1>3 DEF Begun, Acc
  <2> QED
    BY <1>2, <2>1, AccWith DEF WithSize
<1>5. [c EXCEPT !.prog.shebang = v] = Acc(at2, left, WithMark(q, v))
  <2> DEFINE x == [q EXCEPT !.shebang = v]
  <2>1. [c EXCEPT !.prog.shebang = v] = Begun(c, at2, x)
    BY <1>2, <1>3 DEF Begun, Acc
  <2> QED
    BY <1>2, <2>1, AccWith DEF WithMark
<1>6. Compressed(a, at2, v) = Acc(at2, left, WithZlib(q, v))
  <2> DEFINE x == [q EXCEPT !.zlib = v]
  <2>1. Compressed(a, at2, v) = Moved(a, at2, x)
    BY <1>1 DEF Moved, Compressed
  <2> HIDE DEF x
  <2>2. Moved(a, at2, x) = Acc(at2, left, x)
    BY AccWith
  <2> QED
    BY <2>1, <2>2 DEF x, WithZlib
<1>7. Sized(a, at2, v) = [c EXCEPT !.prog.ws = v]
  BY DEF c, Sized
<1>8. Yes(v) => Marked(a, at2) = [c EXCEPT !.prog.shebang = v]
  BY DEF c, Marked, Yes
<1> QED
  BY <1>4, <1>5, <1>6, <1>7, <1>8

LEMMA MarkedIs ==
  ASSUME NEW a, NEW at, NEW left, NEW q, a = Acc(at, left, q), NEW at2, NEW v, Yes(v)
  PROVE  Marked(a, at2) = Acc(at2, left, WithMark(q, v))
BY BegunWith

LEMMA NoPartsIs == ASSUME NEW p PROVE NoParts(p) = Blank(p.ws, p.shebang)
BY DEF NoParts, Part, Blank, No

Refused(a) == \E left, q : a = Acc("refused", left, q)

LEMMA RefuseIs == ASSUME NEW a, NEW at, NEW left, NEW q, a = Acc(at, left, q) PROVE Refused(Refuse(a))
<1>1. Expect(a, "refused") = Acc("refused", left, q)
  BY AccWith
<1> QED
  BY <1>1 DEF Expect, Refuse, Refused

LEMMA RefusedIs == ASSUME NEW a, Refused(a) PROVE a.at = "refused" /\ Refused(Refuse(a))
BY AccParts, RefuseIs DEF Refused

\* A constant had a slot one past the last.
Undefined(a) == \E left, q : a = Acc("undefined", left, q)

LEMMA UndefinedIs == ASSUME NEW a, Undefined(a) PROVE a.at = "undefined"
BY AccParts DEF Undefined

\* What was read of the line of a script, before the size of a word.
Started(at, sh) == Acc(at, 0, Blank(0, sh))

LEMMA ShebangStep ==
  ASSUME NEW b, NEW f, NEW a, a = Started("magic", f), NEW t, Yes(t)
  PROVE  /\ b # Wrapper => ReadField(b, a, Shebang) = Started("magic2", t)
         /\ b = Wrapper => Refused(ReadField(b, a, Shebang))
<1>1. a = Acc("magic", 0, Blank(0, f)) /\ a.at = "magic"
  BY AccParts DEF Started
<1>2. ReadField(b, a, Shebang) = ReadMetadata(b, a, Shebang)
  BY <1>1, ReadFieldIs
<1>3. ASSUME b # Wrapper
      PROVE  ReadField(b, a, Shebang) = Acc("magic2", 0, Blank(0, t))
  <2>1. ReadMetadata(b, a, Shebang) = Marked(a, "magic2")
    BY <1>1, <1>3, ReadMetadataIs
  <2>2. Marked(a, "magic2") = Acc("magic2", 0, WithMark(Blank(0, f), t))
    BY <1>1, MarkedIs
  <2>3. WithMark(Blank(0, f), t) = Blank(0, t)
    BY BlankWith
  <2> QED
    BY <1>2, <2>1, <2>2, <2>3
<1>4. ASSUME b = Wrapper
      PROVE  Refused(ReadField(b, a, Shebang))
  <2>1. ReadMetadata(b, a, Shebang) = Refuse(a)
    BY <1>1, <1>4, ReadMetadataIs
  <2> QED
    BY <1>1, <1>2, <2>1, RefuseIs
<1> QED
  BY <1>3, <1>4 DEF Started

LEMMA MagicStep ==
  ASSUME NEW b, NEW at \in {"magic", "magic2"}, NEW sh, NEW a, a = Started(at, sh)
  PROVE  ReadField(b, a, Field("magic", "SRS")) = Started("word_size", sh)
<1>1. a = Acc(at, 0, Blank(0, sh)) /\ a.at = at
  BY AccParts DEF Started
<1>2. ReadField(b, a, Field("magic", "SRS")) = ReadMetadata(b, a, Field("magic", "SRS"))
  BY <1>1, ReadFieldIs
<1>3. ReadMetadata(b, a, Field("magic", "SRS")) = Expect(a, "word_size")
  BY <1>1, ReadMetadataIs
<1>4. Expect(a, "word_size") = Acc("word_size", 0, Blank(0, sh))
  BY <1>1, AccWith
<1> QED
  BY <1>2, <1>3, <1>4 DEF Started

LEMMA WordSizeStep ==
  ASSUME NEW b, NEW p, NEW a, a = Started("word_size", p.shebang),
         NEW x, x = Field("word_size", p.ws)
  PROVE  /\ b = Wrapper => ReadField(b, a, x) = Acc("end", 0, NoParts(p))
         /\ b # Wrapper /\ b.ws = p.ws => ReadField(b, a, x) = Acc("entry_point", 0, NoParts(p))
         /\ b # Wrapper /\ b.ws # p.ws => Refused(ReadField(b, a, x))
<1>1. a = Acc("word_size", 0, Blank(0, p.shebang)) /\ a.at = "word_size"
  BY AccParts DEF Started
<1>2. ReadField(b, a, x) = ReadMetadata(b, a, x)
  BY <1>1, ReadFieldIs
<1>3. ASSUME NEW at
      PROVE  Sized(a, at, p.ws) = Acc(at, 0, NoParts(p))
  <2>1. Sized(a, at, p.ws) = Acc(at, 0, WithSize(Blank(0, p.shebang), p.ws))
    BY <1>1, BegunWith
  <2>2. WithSize(Blank(0, p.shebang), p.ws) = NoParts(p)
    BY BlankWith, NoPartsIs
  <2> QED
    BY <2>1, <2>2
<1>4. ASSUME b = Wrapper PROVE ReadField(b, a, x) = Acc("end", 0, NoParts(p))
  <2>1. ReadMetadata(b, a, x) = Sized(a, "end", p.ws)
    BY <1>1, <1>4, ReadMetadataIs
  <2> QED
    BY <1>2, <1>3, <2>1
<1>5. ASSUME b # Wrapper, b.ws = p.ws PROVE ReadField(b, a, x) = Acc("entry_point", 0, NoParts(p))
  <2>1. ReadMetadata(b, a, x) = Sized(a, "entry_point", p.ws)
    BY <1>1, <1>5, ReadMetadataIs
  <2> QED
    BY <1>2, <1>3, <2>1
<1>6. ASSUME b # Wrapper, b.ws # p.ws PROVE Refused(ReadField(b, a, x))
  <2>1. ReadMetadata(b, a, x) = Refuse(a)
    BY <1>1, <1>6, ReadMetadataIs
  <2> QED
    BY <1>1, <1>2, <2>1, RefuseIs
<1> QED
  BY <1>4, <1>5, <1>6

LEMMA EntryStep ==
  ASSUME NEW b, NEW q, NEW a, a = Acc("entry_point", 0, q)
  PROVE  ReadField(b, a, Field("entry_point", "0x1000")) = Acc("num_registers", 0, q)
<1> DEFINE x == Field("entry_point", "0x1000")
<1>1. a.at = "entry_point"
  BY AccParts
<1>2. ReadField(b, a, x) = ReadMetadata(b, a, x)
  BY <1>1, ReadFieldIs
<1>3. ReadMetadata(b, a, x) = Expect(a, "num_registers")
  BY <1>1, ReadMetadataIs
<1>4. Expect(a, "num_registers") = Acc("num_registers", 0, q)
  BY AccWith
<1> QED
  BY <1>2, <1>3, <1>4

\* What was read when k elements of a list were.
AfterRegisters(p, k) ==
  Acc(IF k = Len(p.registers) THEN "num_vmem_segments" ELSE "register", Len(p.registers) - k,
      Part(p, SubSeq(p.registers, 1, k), <<>>, <<>>, No, <<>>))
AfterVmem(p, k) ==
  Acc(IF k = Len(p.vmem) THEN "num_lmem_segments" ELSE "vmem", Len(p.vmem) - k,
      Part(p, p.registers, SubSeq(p.vmem, 1, k), <<>>, No, <<>>))
BeforeLmem(p) == Acc("lmem", 1, Part(p, p.registers, p.vmem, <<>>, No, <<>>))
AfterLmem(p, at, left) == Acc(at, left, Part(p, p.registers, p.vmem, p.lmem, No, <<>>))
AfterConsts(p, at, k) ==
  Acc(IF k = Len(p.constants) THEN "end" ELSE at, Len(p.constants) - k,
      Part(p, p.registers, p.vmem, p.lmem, p.zlib, SubSeq(p.constants, 1, k)))

LEMMA CountIs ==
  ASSUME NEW a, NEW at, NEW left, NEW q, a = Acc(at, left, q), NEW name, NEW v, NEW item, NEW next
  PROVE  Count(a, Field(name, v), item, next) = Acc(IF v = 0 THEN next ELSE item, v, q)
<1>1. ValueOf(Field(name, v)) = v
  BY DEF ValueOf, Field
<1> DEFINE to == IF v = 0 THEN next ELSE item
<1>2. Count(a, Field(name, v), item, next) = Recounted(a, to, v)
  BY <1>1 DEF Count, Recounted
<1> HIDE DEF to
<1>3. Recounted(a, to, v) = Acc(to, v, q)
  BY AccWith
<1> QED
  BY <1>2, <1>3 DEF to

\* One more of n elements.
LEMMA OneMore ==
  ASSUME NEW S, NEW s \in Seq(S), NEW k \in Nat, k < Len(s)
  PROVE  /\ Append(SubSeq(s, 1, k), s[k + 1]) = SubSeq(s, 1, k + 1)
         /\ Len(s) - k - 1 = Len(s) - (k + 1) /\ (Len(s) - k = 1 <=> k + 1 = Len(s))
         /\ k # Len(s)
<1>1. Len(s) \in Nat
  OBVIOUS
<1> QED
  BY <1>1, BeginningsOf

LEMMA RegistersBegin ==
  ASSUME NEW b, NEW p, IsProgram(p), NEW a, a = Acc("num_registers", 0, NoParts(p)),
         NEW x, x = Field("num_registers", Len(p.registers))
  PROVE  IF Len(p.registers) > MaxRegs THEN Refused(ReadField(b, a, x))
         ELSE ReadField(b, a, x) = AfterRegisters(p, 0)
<1> DEFINE R == Len(p.registers)
<1>0. p.registers \in Seq(ToSet(p.registers)) /\ R \in Nat
  BY DEF IsProgram
<1>1. a.at = "num_registers" /\ ValueOf(x) = R
  BY AccParts DEF ValueOf, Field
<1>2. ReadField(b, a, x) = ReadRegisters(a, x)
  BY <1>1, ReadFieldIs
<1>3. ReadRegisters(a, x) = IF R > MaxRegs THEN Refuse(a) ELSE Count(a, x, "register", "num_vmem_segments")
  BY <1>1 DEF ReadRegisters
<1>4. Refused(Refuse(a))
  BY RefuseIs
<1>5. Count(a, x, "register", "num_vmem_segments")
        = Acc(IF R = 0 THEN "num_vmem_segments" ELSE "register", R, NoParts(p))
  BY CountIs
<1>6. Acc(IF R = 0 THEN "num_vmem_segments" ELSE "register", R, NoParts(p)) = AfterRegisters(p, 0)
  <2>1. R - 0 = R /\ (R = 0 <=> 0 = R)
    BY <1>0
  <2>2. SubSeq(p.registers, 1, 0) = <<>>
    BY <1>0, BeginningsOf
  <2> QED
    BY <2>1, <2>2 DEF AfterRegisters, NoParts
<1> QED
  BY <1>2, <1>3, <1>4, <1>5, <1>6

LEMMA RegistersStep ==
  ASSUME NEW b, NEW p, IsProgram(p), NEW k \in Nat, k < Len(p.registers), NEW a, a = AfterRegisters(p, k)
  PROVE  ReadField(b, a, Field("register", p.registers[k + 1])) = AfterRegisters(p, k + 1)
<1> DEFINE x == Field("register", p.registers[k + 1])
           s == p.registers
           n == Len(s)
           q == Part(p, SubSeq(s, 1, k), <<>>, <<>>, No, <<>>)
           next == "num_vmem_segments"
<1>0. /\ Append(SubSeq(s, 1, k), s[k + 1]) = SubSeq(s, 1, k + 1)
      /\ n - k - 1 = n - (k + 1) /\ (n - k = 1 <=> k + 1 = n) /\ k # n
  BY OneMore DEF IsProgram
<1>1. a = Acc("register", n - k, q)
  BY <1>0 DEF AfterRegisters
<1>2. a.at = "register" /\ ValueOf(x) = s[k + 1]
  BY <1>1, AccParts DEF ValueOf, Field
<1>3. ReadField(b, a, x) = ReadRegisters(a, x)
  BY <1>2, ReadFieldIs
<1>4. ReadRegisters(a, x) = Element(a, "registers", s[k + 1], next)
  BY <1>2 DEF ReadRegisters
<1>5. Element(a, "registers", s[k + 1], next)
        = Acc(IF n - k = 1 THEN next ELSE "register", n - k - 1,
              Part(p, Append(SubSeq(s, 1, k), s[k + 1]), <<>>, <<>>, No, <<>>))
  BY <1>1, ElementIs
<1> QED
  BY <1>0, <1>3, <1>4, <1>5 DEF AfterRegisters

LEMMA VmemBegin ==
  ASSUME NEW b, NEW p, IsProgram(p), NEW a, a = AfterRegisters(p, Len(p.registers)),
         NEW x, x = Field("num_vmem_segments", Len(p.vmem))
  PROVE  ReadField(b, a, x) = AfterVmem(p, 0)
<1> DEFINE V == Len(p.vmem)
           q == Part(p, p.registers, <<>>, <<>>, No, <<>>)
<1>0. /\ p.registers \in Seq(ToSet(p.registers)) /\ p.vmem \in Seq(ToSet(p.vmem))
      /\ V \in Nat /\ Len(p.registers) \in Nat
  BY DEF IsProgram
<1>1. a = Acc("num_vmem_segments", 0, q)
  <2>1. SubSeq(p.registers, 1, Len(p.registers)) = p.registers /\ Len(p.registers) - Len(p.registers) = 0
    BY <1>0, BeginningsOf
  <2> QED
    BY <2>1 DEF AfterRegisters
<1>2. a.at = "num_vmem_segments"
  BY <1>1, AccParts
<1>3. ReadField(b, a, x) = ReadVmem(a, x)
  BY <1>2, ReadFieldIs
<1>4. ReadVmem(a, x) = Count(a, x, "vmem", "num_lmem_segments")
  BY <1>2 DEF ReadVmem
<1>5. Count(a, x, "vmem", "num_lmem_segments") = Acc(IF V = 0 THEN "num_lmem_segments" ELSE "vmem", V, q)
  BY <1>1, CountIs
<1>6. Acc(IF V = 0 THEN "num_lmem_segments" ELSE "vmem", V, q) = AfterVmem(p, 0)
  <2>1. V - 0 = V /\ (V = 0 <=> 0 = V) /\ SubSeq(p.vmem, 1, 0) = <<>>
    BY <1>0, BeginningsOf
  <2> QED
    BY <2>1 DEF AfterVmem
<1> QED
  BY <1>3, <1>4, <1>5, <1>6

LEMMA VmemStep ==
  ASSUME NEW b, NEW p, IsProgram(p), NEW k \in Nat, k < Len(p.vmem), NEW a, a = AfterVmem(p, k)
  PROVE  ReadField(b, a, Field("vmem", p.vmem[k + 1])) = AfterVmem(p, k + 1)
<1> DEFINE x == Field("vmem", p.vmem[k + 1])
           s == p.vmem
           n == Len(s)
           q == Part(p, p.registers, SubSeq(s, 1, k), <<>>, No, <<>>)
           next == "num_lmem_segments"
<1>0. /\ Append(SubSeq(s, 1, k), s[k + 1]) = SubSeq(s, 1, k + 1)
      /\ n - k - 1 = n - (k + 1) /\ (n - k = 1 <=> k + 1 = n) /\ k # n
  BY OneMore DEF IsProgram
<1>1. a = Acc("vmem", n - k, q)
  BY <1>0 DEF AfterVmem
<1>2. a.at = "vmem" /\ ValueOf(x) = s[k + 1]
  BY <1>1, AccParts DEF ValueOf, Field
<1>3. ReadField(b, a, x) = ReadVmem(a, x)
  BY <1>2, ReadFieldIs
<1>4. ReadVmem(a, x) = Element(a, "vmem", s[k + 1], next)
  BY <1>2 DEF ReadVmem
<1>5. Element(a, "vmem", s[k + 1], next)
        = Acc(IF n - k = 1 THEN next ELSE "vmem", n - k - 1,
              Part(p, p.registers, Append(SubSeq(s, 1, k), s[k + 1]), <<>>, No, <<>>))
  BY <1>1, ElementIs
<1> QED
  BY <1>0, <1>3, <1>4, <1>5 DEF AfterVmem

LEMMA LmemBegin ==
  ASSUME NEW b, NEW p, IsProgram(p), NEW a, a = AfterVmem(p, Len(p.vmem)),
         NEW x, x = Field("num_lmem_segments", 1)
  PROVE  ReadField(b, a, x) = BeforeLmem(p)
<1> DEFINE V == Len(p.vmem)
           q == Part(p, p.registers, p.vmem, <<>>, No, <<>>)
<1>0. p.vmem \in Seq(ToSet(p.vmem)) /\ V \in Nat
  BY DEF IsProgram
<1>1. a = Acc("num_lmem_segments", 0, q)
  <2>1. SubSeq(p.vmem, 1, V) = p.vmem /\ V - V = 0
    BY <1>0, BeginningsOf
  <2> QED
    BY <2>1 DEF AfterVmem
<1>2. a.at = "num_lmem_segments"
  BY <1>1, AccParts
<1>3. ReadField(b, a, x) = ReadLmem(b, a, x)
  BY <1>2, ReadFieldIs
<1>4. ReadLmem(b, a, x) = Count(a, x, "lmem", "num_constants")
  BY <1>2 DEF ReadLmem
<1>5. Count(a, x, "lmem", "num_constants") = Acc(IF 1 = 0 THEN "num_constants" ELSE "lmem", 1, q)
  BY <1>1, CountIs
<1> QED
  BY <1>3, <1>4, <1>5 DEF BeforeLmem

LEMMA LmemStep ==
  ASSUME NEW b, NEW p, IsProgram(p), NEW a, a = BeforeLmem(p),
         NEW x, x = Field("lmem", LmemField(p.lmem[1]))
  PROVE  IF p.zlib /\ ~b.zlib THEN Refused(ReadField(b, a, x))
         ELSE ReadField(b, a, x) = AfterLmem(p, "num_constants", 0)
<1> DEFINE q == Part(p, p.registers, p.vmem, <<>>, No, <<>>)
           seg == [zlib |-> p.zlib, data |-> "code"]
           v == LmemField(seg)
<1>0. a = Acc("lmem", 1, q)
  BY DEF BeforeLmem
<1>1. p.lmem = <<seg>> /\ p.lmem[1] = seg /\ p.zlib \in BOOLEAN
  BY DEF IsProgram
<1>2. a.at = "lmem" /\ ValueOf(x) = v
  BY <1>0, <1>1, AccParts DEF ValueOf, Field
<1>3. v.zlib = p.zlib /\ (~p.zlib => v = seg) /\ (p.zlib => [v EXCEPT !.data = Inflate(@)] = seg)
  <2>1. v = [zlib |-> p.zlib, data |-> IF p.zlib THEN Deflate("code") ELSE "code"]
    BY DEF LmemField
  <2>2. Inflate(Deflate("code")) = "code"
    BY DEF Inflate, Deflate
  <2> HIDE DEF v
  <2>3. p.zlib => [v EXCEPT !.data = Inflate(@)] = seg
    <3> HAVE p.zlib
    <3> DEFINE z == p.zlib
               d == Deflate("code")
    <3>1. v = [zlib |-> z, data |-> d] /\ Inflate(d) = "code"
      BY <2>1, <2>2
    <3> HIDE DEF z, d
    <3>2. v \in [zlib : {z}, data : {d, "code"}] /\ v.zlib = z /\ v.data = d
      BY <3>1
    <3>3. [v EXCEPT !.data = "code"] = [zlib |-> z, data |-> "code"]
      BY <3>2
    <3> QED
      BY <3>1, <3>2, <3>3 DEF z
  <2> QED
    BY <2>1, <2>3
<1> HIDE DEF v, seg
<1>4. ReadField(b, a, x) = ReadLmem(b, a, x)
  BY <1>2, ReadFieldIs
<1>5. Element(a, "lmem", seg, "num_constants") = AfterLmem(p, "num_constants", 0)
  <2>1. Element(a, "lmem", seg, "num_constants")
          = Acc(IF 1 = 1 THEN "num_constants" ELSE "lmem", 1 - 1,
                Part(p, p.registers, p.vmem, Append(<<>>, seg), No, <<>>))
    <3>1. PICK one, here, next, none : one = 1 /\ here = "lmem" /\ next = "num_constants" /\ none = <<>>
      OBVIOUS
    <3>2. a = Acc(here, one, Part(p, p.registers, p.vmem, none, No, none))
      BY <1>0, <3>1
    <3>3. Element(a, "lmem", seg, next)
            = Acc(IF one = 1 THEN next ELSE here, one - 1,
                  Part(p, p.registers, p.vmem, Append(none, seg), No, none))
      BY <3>2, ElementIs
    <3> QED
      BY <3>1, <3>3
  <2>2. Append(<<>>, seg) = <<seg>>
    OBVIOUS
  <2> QED
    BY <1>1, <2>1, <2>2 DEF AfterLmem
<1>6. ReadLmem(b, a, x) = IF ~p.zlib THEN Element(a, "lmem", seg, "num_constants")
                          ELSE IF ~b.zlib THEN Refuse(a) ELSE Element(a, "lmem", seg, "num_constants")
  BY <1>1, <1>2, <1>3 DEF ReadLmem
<1>7. Refused(Refuse(a))
  BY <1>0, RefuseIs
<1> QED
  BY <1>1, <1>4, <1>5, <1>6, <1>7

LEMMA RecountedIs ==
  ASSUME NEW a, NEW at, NEW left, NEW q, a = Acc(at, left, q), NEW to, NEW n
  PROVE  Recounted(a, to, n) = Acc(to, n, q)
BY AccWith

LEMMA ExpectIs ==
  ASSUME NEW a, NEW at, NEW left, NEW q, a = Acc(at, left, q), NEW to
  PROVE  Expect(a, to) = Acc(to, left, q)
BY AccWith

LEMMA ConstantsBegin ==
  ASSUME NEW b, NEW p, NEW a, a = AfterLmem(p, "num_constants", 0),
         NEW x, x = Field("num_constants", Len(p.constants))
  PROVE  ReadField(b, a, x) = AfterLmem(p, "constants_compressed", Len(p.constants))
<1> DEFINE q == Part(p, p.registers, p.vmem, p.lmem, No, <<>>)
           C == Len(p.constants)
<1>1. a = Acc("num_constants", 0, q)
  BY DEF AfterLmem
<1>2. a.at = "num_constants"
  BY <1>1, AccParts
<1>3. ReadField(b, a, x) = ReadConstants(b, a, x)
  BY <1>2, ReadFieldIs
<1>4. ReadConstants(b, a, x) = Recounted(a, "constants_compressed", C)
  BY <1>2, ReadConstantsIs
<1>5. Recounted(a, "constants_compressed", C) = Acc("constants_compressed", C, q)
  BY <1>1, RecountedIs
<1> QED
  BY <1>3, <1>4, <1>5 DEF AfterLmem

BeforeBlock(p) ==
  Acc("block", Len(p.constants), Part(p, p.registers, p.vmem, p.lmem, p.zlib, <<>>))

LEMMA PartZlib ==
  ASSUME NEW p, NEW R, NEW V, NEW L, NEW z, NEW C, NEW v
  PROVE  WithZlib(Part(p, R, V, L, z, C), v) = Part(p, R, V, L, v, C)
<1> DEFINE q == Part(p, R, V, L, z, C)
<1>1. q = Part(p, R, V, L, z, C)
  OBVIOUS
<1> HIDE DEF q
<1>2. [q EXCEPT !.zlib = v] = Part(p, R, V, L, v, C)
  BY <1>1, PartWith
<1> QED
  BY <1>1, <1>2 DEF WithZlib

LEMMA CompressedStep ==
  ASSUME NEW b, NEW p, IsProgram(p), p.zlib => b.zlib, NEW a, a = AfterLmem(p, "constants_compressed", Len(p.constants)),
         NEW x, x = Field("constants_compressed", p.zlib)
  PROVE  ReadField(b, a, x) = IF p.zlib THEN BeforeBlock(p) ELSE AfterConsts(p, "constant", 0)
<1> DEFINE q == Part(p, p.registers, p.vmem, p.lmem, No, <<>>)
           C == Len(p.constants)
<1>0. p.zlib \in BOOLEAN /\ p.constants \in Seq(ToSet(p.constants)) /\ C \in Nat
  BY DEF IsProgram
<1>1. a = Acc("constants_compressed", C, q)
  BY DEF AfterLmem
<1>2. a.at = "constants_compressed" /\ a.left = C
  BY <1>1, AccParts
<1>3. ReadField(b, a, x) = ReadConstants(b, a, x)
  BY <1>2, ReadFieldIs
<1>4. WithZlib(q, p.zlib) = Part(p, p.registers, p.vmem, p.lmem, p.zlib, <<>>)
  BY PartZlib
<1>5. ASSUME NEW at PROVE Compressed(a, at, p.zlib) = Acc(at, C, WithZlib(q, p.zlib))
  BY <1>1, BegunWith
<1>6. CASE p.zlib
  <2>1. ReadConstants(b, a, x) = Compressed(a, "block", p.zlib)
    BY <1>0, <1>2, <1>6, ReadConstantsIs, Zenon
  <2> QED
    BY <1>3, <1>4, <1>5, <1>6, <2>1 DEF BeforeBlock
<1>7. CASE ~p.zlib
  <2> DEFINE at == IF C = 0 THEN "end" ELSE "constant"
  <2>1. ReadConstants(b, a, x) = Compressed(a, at, p.zlib)
    BY <1>0, <1>2, <1>7, ReadConstantsIs, Zenon
  <2>2. C - 0 = C /\ (C = 0 <=> 0 = C) /\ SubSeq(p.constants, 1, 0) = <<>>
    BY <1>0, BeginningsOf
  <2>3. Acc(at, C, WithZlib(q, p.zlib)) = AfterConsts(p, "constant", 0)
    BY <1>4, <2>2 DEF AfterConsts
  <2> QED
    BY <1>3, <1>5, <1>7, <2>1, <2>3
<1> QED
  BY <1>6, <1>7

\* The slots of what is assembled are its places, and never claimed twice.
LEMMA ReadConstIs ==
  ASSUME NEW p, IsProgram(p), NEW at \in {"block", "constant"}, NEW k \in Nat, k < Len(p.constants),
         NEW a, a = AfterConsts(p, at, k), MaxConsts \in Nat, k <= MaxConsts
  PROVE  IF k = MaxConsts THEN Undefined(ReadConst(a, p.constants[k + 1]))
         ELSE ReadConst(a, p.constants[k + 1]) = AfterConsts(p, at, k + 1)
<1> DEFINE s == p.constants
           n == Len(s)
           done == SubSeq(s, 1, k)
           q == Part(p, p.registers, p.vmem, p.lmem, p.zlib, done)
           c == s[k + 1]
<1>0. s \in Seq(ToSet(s)) /\ n \in Nat
  BY DEF IsProgram
<1>1. /\ Append(done, c) = SubSeq(s, 1, k + 1)
      /\ n - k - 1 = n - (k + 1) /\ (n - k = 1 <=> k + 1 = n) /\ k # n
  BY <1>0, OneMore
<1>2. a = Acc(at, n - k, q)
  BY <1>1 DEF AfterConsts
<1>3. a.at = at /\ a.prog = q /\ q.constants = done
  <2>1. q.constants = done
    BY DEF Part
  <2> QED
    BY <1>2, <2>1, AccParts
<1>4. c.slot = k
  <2>1. \A i \in 1 .. n : s[i].slot = i - 1
    BY DEF IsProgram
  <2>2. k + 1 \in 1 .. n /\ (k + 1) - 1 = k
    BY <1>0
  <2> QED
    BY <2>1, <2>2
<1>5. \A i \in DOMAIN done : done[i].slot # k
  <2>1. DOMAIN done = 1 .. k /\ \A i \in 1 .. k : done[i] = s[i]
    BY <1>0, SubSeqProperties
  <2>2. \A i \in 1 .. k : s[i].slot = i - 1
    BY <1>0 DEF IsProgram
  <2> QED
    BY <2>1, <2>2
<1> HIDE DEF done, q, c
<1>6. ReadConst(a, c) = IF k = MaxConsts THEN Expect(a, "undefined") ELSE Element(a, "constants", c, "end")
  <2>1. ~Claimed(a, k) /\ ~(k > MaxConsts)
    BY <1>3, <1>5 DEF Claimed
  <2> QED
    BY <1>3, <1>4, <2>1 DEF ReadConst
<1>7. Undefined(Expect(a, "undefined"))
  BY <1>2, ExpectIs DEF Undefined
<1>8. Element(a, "constants", c, "end")
        = Acc(IF n - k = 1 THEN "end" ELSE at, n - k - 1,
              Part(p, p.registers, p.vmem, p.lmem, p.zlib, Append(done, c)))
  BY <1>2, ElementIs DEF q
<1>9. Element(a, "constants", c, "end") = AfterConsts(p, at, k + 1)
  BY <1>1, <1>8 DEF AfterConsts
<1> QED
  BY <1>6, <1>7, <1>9 DEF c

\* All that was written.
AtEnd(p) == Acc("end", 0, Part(p, p.registers, p.vmem, p.lmem, p.zlib, p.constants))

LEMMA ConstsEnd ==
  ASSUME NEW p, IsProgram(p), NEW at
  PROVE  AfterConsts(p, at, Len(p.constants)) = AtEnd(p)
<1>1. p.constants \in Seq(ToSet(p.constants)) /\ Len(p.constants) \in Nat
  BY DEF IsProgram
<1>2. SubSeq(p.constants, 1, Len(p.constants)) = p.constants /\ Len(p.constants) - Len(p.constants) = 0
  BY <1>1, BeginningsOf
<1> QED
  BY <1>2 DEF AfterConsts, AtEnd

LEMMA BlockStep ==
  ASSUME NEW b, NEW p, IsProgram(p), NEW a, a = BeforeBlock(p),
         NEW x, x = Field("block", Deflate(p.constants)), MaxConsts \in Nat
  PROVE  \/ Undefined(ReadField(b, a, x)) /\ Len(p.constants) > MaxConsts
         \/ ReadField(b, a, x) = AtEnd(p) /\ Len(p.constants) <= MaxConsts
<1> DEFINE C == Len(p.constants)
           cs == p.constants
           q == Part(p, p.registers, p.vmem, p.lmem, p.zlib, <<>>)
           y == ReadField(b, a, x)
<1>0. cs \in Seq(ToSet(cs)) /\ C \in Nat
  BY DEF IsProgram
<1>1. a = Acc("block", C, q)
  BY DEF BeforeBlock
<1>2. a.at = "block"
  BY <1>1, AccParts
<1>3. y = ReadBlock(a, cs)
  <2>1. ReadField(b, a, x) = ReadConstants(b, a, x)
    BY <1>2, ReadFieldIs
  <2>2. ReadConstants(b, a, x) = ReadBlock(a, cs)
    BY <1>2, ReadConstantsIs
  <2> QED
    BY <2>1, <2>2
<1> HIDE DEF y
<1>4. PICK r : /\ ConstsUpTo(a, cs, C, r)
               /\ y = IF r[C].at \in {"refused", "undefined"} THEN r[C] ELSE Expect(r[C], "end")
  BY <1>0, <1>3, ReadBlockIs
<1>5. r[0] = a
  BY <1>4 DEF ConstsUpTo
<1>6. CASE C = 0
  <2>1. y = Expect(a, "end")
    BY <1>2, <1>4, <1>5, <1>6
  <2>2. Expect(a, "end") = Acc("end", C, q)
    BY <1>1, ExpectIs
  <2>3. cs = <<>>
    BY <1>0, <1>6, EmptySeq
  <2>4. y = AtEnd(p)
    BY <1>6, <2>1, <2>2, <2>3 DEF AtEnd
  <2> QED
    BY <1>6, <2>4 DEF y
<1>7. CASE C # 0
  <2> DEFINE Good(k) == r[k] = AfterConsts(p, "block", k) /\ k <= MaxConsts
             X == {k \in Nat : k <= C => (Undefined(r[k]) /\ C > MaxConsts) \/ Good(k)}
  <2>1. 0 \in X
    <3>1. a = AfterConsts(p, "block", 0)
      <4>1. C - 0 = C /\ 0 # C /\ SubSeq(cs, 1, 0) = <<>>
        BY <1>0, <1>7, BeginningsOf
      <4> QED
        BY <1>1, <4>1 DEF AfterConsts
    <3> QED
      BY <1>5, <3>1
  <2>2. ASSUME NEW k \in Nat, k \in X PROVE k + 1 \in X
    <3> SUFFICES ASSUME k + 1 <= C PROVE (Undefined(r[k + 1]) /\ C > MaxConsts) \/ Good(k + 1)
      OBVIOUS
    <3>1. r[k + 1] = ReadConst(r[k], cs[k + 1])
      <4>1. k + 1 \in 1 .. C /\ (k + 1) - 1 = k
        BY <1>0
      <4> QED
        BY <1>4, <4>1 DEF ConstsUpTo
    <3>2. CASE Undefined(r[k]) /\ C > MaxConsts
      <4>1. ReadConst(r[k], cs[k + 1]) = r[k]
        BY <3>2, UndefinedIs DEF ReadConst
      <4> QED
        BY <3>1, <3>2, <4>1
    <3>3. CASE Good(k)
      <4>1. k < C
        BY <1>0
      <4>2. IF k = MaxConsts THEN Undefined(ReadConst(r[k], cs[k + 1]))
            ELSE ReadConst(r[k], cs[k + 1]) = AfterConsts(p, "block", k + 1)
        BY <3>3, <4>1, ReadConstIs
      <4>3. k = MaxConsts => C > MaxConsts
        BY <1>0, <4>1
      <4>4. k # MaxConsts => k + 1 <= MaxConsts
        BY <3>3
      <4> QED
        BY <3>1, <4>2, <4>3, <4>4
    <3> QED
      BY <1>0, <2>2, <3>2, <3>3
  <2> HIDE DEF X
  <2>3. Nat \subseteq X
    BY <2>1, <2>2, Shared!InductionOnNat
  <2>4. (Undefined(r[C]) /\ C > MaxConsts) \/ Good(C)
    BY <1>0, <2>3 DEF X
  <2>5. CASE Undefined(r[C]) /\ C > MaxConsts
    <3>1. y = r[C]
      BY <1>4, <2>5, UndefinedIs
    <3> QED
      BY <2>5, <3>1 DEF y
  <2>6. CASE Good(C)
    <3>1. r[C] = AtEnd(p)
      BY <2>6, ConstsEnd
    <3>2. r[C].at = "end" /\ Expect(r[C], "end") = r[C]
      BY <3>1, AccParts, AccWith DEF AtEnd
    <3> QED
      BY <1>4, <2>6, <3>1, <3>2 DEF y
  <2> QED
    BY <2>4, <2>5, <2>6
<1> QED
  BY <1>6, <1>7

-----------------------------------------------------------------------------
\* How far a reader comes: what the first n fields of a program come to.

InConsts(p, n, a) ==
  \/ n = LmemAt(p) + 1 /\ a = AfterLmem(p, "num_constants", 0)
  \/ n = ConstAt(p) /\ a = AfterLmem(p, "constants_compressed", Len(p.constants))
  \/ p.zlib /\ n = ConstAt(p) + 1 /\ a = BeforeBlock(p)
  \/ p.zlib /\ n = EndAt(p) /\ Len(p.constants) <= MaxConsts /\ a = AtEnd(p)
  \/ ~p.zlib /\ \E k \in 0 .. Len(p.constants) :
       n = ConstAt(p) + 1 + k /\ k <= MaxConsts /\ a = AfterConsts(p, "constant", k)

InLists(b, p, n, a) ==
  \/ \E k \in 0 .. Len(p.registers) : n = Before(p) + 4 + k /\ a = AfterRegisters(p, k)
  \/ \E k \in 0 .. Len(p.vmem) : n = VmemAt(p) + k /\ a = AfterVmem(p, k)
  \/ n = LmemAt(p) /\ a = BeforeLmem(p)
  \/ (p.zlib => b.zlib) /\ InConsts(p, n, a)

InBody(b, p, n, a) ==
  \/ n = Before(p) + 2 /\ a = Acc("entry_point", 0, NoParts(p))
  \/ n = Before(p) + 3 /\ a = Acc("num_registers", 0, NoParts(p))
  \/ Len(p.registers) <= MaxRegs /\ InLists(b, p, n, a)

Stage(b, p, n, a) ==
  \/ Refused(a) /\ ~CanRun(b, p)
  \/ Undefined(a) /\ b # Wrapper /\ Len(p.constants) > MaxConsts
  \/ n = 0 /\ a = NoFields
  \/ n = 1 /\ p.shebang /\ b # Wrapper /\ a = Started("magic2", p.shebang)
  \/ n = Before(p) + 1 /\ (b = Wrapper => ~p.shebang) /\ a = Started("word_size", p.shebang)
  \/ n >= 2 /\ b = Wrapper /\ ~p.shebang /\ a = Acc("end", 0, NoParts(p))
  \/ b # Wrapper /\ b.ws = p.ws /\ InBody(b, p, n, a)

LEMMA Places ==
  ASSUME NEW p, IsProgram(p)
  PROVE  /\ Len(p.registers) \in Nat /\ Len(p.vmem) \in Nat /\ Len(p.constants) \in Nat
         /\ Before(p) \in {0, 1} /\ (p.shebang <=> Before(p) = 1)
         /\ VmemAt(p) \in Nat /\ LmemAt(p) \in Nat /\ ConstAt(p) \in Nat /\ EndAt(p) \in Nat
         /\ VmemAt(p) = Before(p) + 4 + Len(p.registers) + 1
         /\ LmemAt(p) = VmemAt(p) + Len(p.vmem) + 1
         /\ ConstAt(p) = LmemAt(p) + 2
         /\ EndAt(p) >= ConstAt(p) + 1
         /\ p.zlib => EndAt(p) = ConstAt(p) + 2
         /\ ~p.zlib => EndAt(p) = ConstAt(p) + 1 + Len(p.constants)
<1> DEFINE R == Len(p.registers)
           V == Len(p.vmem)
           C == Len(p.constants)
<1>1. R \in Nat /\ V \in Nat /\ C \in Nat /\ p.shebang \in BOOLEAN
  BY DEF IsProgram
<1>2. Before(p) \in {0, 1} /\ (p.shebang <=> Before(p) = 1)
  BY DEF Before
<1>3. VmemAt(p) = Before(p) + 5 + R /\ LmemAt(p) = VmemAt(p) + 1 + V
  BY DEF VmemAt, LmemAt
<1>4. ConstAt(p) = LmemAt(p) + 2
  BY DEF ConstAt
<1>5. p.zlib => EndAt(p) = ConstAt(p) + 1 + 1
  BY DEF EndAt
<1>6. ~p.zlib => EndAt(p) = ConstAt(p) + 1 + C
  BY DEF EndAt
<1> HIDE DEF R, V, C
<1>7. VmemAt(p) \in Nat /\ VmemAt(p) = Before(p) + 4 + R + 1
  BY <1>1, <1>2, <1>3
<1>8. LmemAt(p) \in Nat /\ LmemAt(p) = VmemAt(p) + V + 1 /\ ConstAt(p) \in Nat
  BY <1>1, <1>3, <1>4, <1>7
<1>9. /\ EndAt(p) \in Nat /\ EndAt(p) >= ConstAt(p) + 1
      /\ p.zlib => EndAt(p) = ConstAt(p) + 2
  BY <1>1, <1>5, <1>6, <1>8
<1> QED
  BY <1>1, <1>2, <1>4, <1>6, <1>7, <1>8, <1>9 DEF R, V, C

LEMMA ConstsOn ==
  ASSUME NEW b, NEW p, IsProgram(p), p.zlib => b.zlib, NEW F, Holds(p, F),
         NEW n \in Nat, n < EndAt(p), NEW a, InConsts(p, n, a)
  PROVE  \/ Undefined(ReadField(b, a, F[n + 1])) /\ Len(p.constants) > MaxConsts
         \/ InConsts(p, n + 1, ReadField(b, a, F[n + 1]))
<1> DEFINE C == Len(p.constants)
           y == ReadField(b, a, F[n + 1])
<1>0. /\ C \in Nat /\ MaxConsts \in Nat /\ LmemAt(p) \in Nat /\ ConstAt(p) \in Nat /\ ConstAt(p) = LmemAt(p) + 2
      /\ p.zlib => EndAt(p) = ConstAt(p) + 2
      /\ ~p.zlib => EndAt(p) = ConstAt(p) + 1 + C
  BY Places, ProgramFileOK
<1>1. CASE n = LmemAt(p) + 1 /\ a = AfterLmem(p, "num_constants", 0)
  <2>1. n + 1 = ConstAt(p) /\ F[n + 1] = Field("num_constants", C)
    BY <1>0, <1>1 DEF Holds
  <2>2. y = AfterLmem(p, "constants_compressed", C)
    BY <1>1, <2>1, ConstantsBegin
  <2> QED
    BY <2>1, <2>2 DEF InConsts
<1>2. CASE n = ConstAt(p) /\ a = AfterLmem(p, "constants_compressed", C)
  <2>1. F[n + 1] = Field("constants_compressed", p.zlib)
    BY <1>2 DEF Holds
  <2>2. y = IF p.zlib THEN BeforeBlock(p) ELSE AfterConsts(p, "constant", 0)
    BY <1>2, <2>1, CompressedStep
  <2>3. n + 1 = ConstAt(p) + 1 + 0 /\ n + 1 = ConstAt(p) + 1 /\ 0 \in 0 .. C /\ 0 <= MaxConsts
    BY <1>0, <1>2
  <2> HIDE DEF y
  <2>4. InConsts(p, n + 1, y)
    BY <2>2, <2>3 DEF InConsts
  <2> QED
    BY <2>4 DEF y
<1>3. CASE p.zlib /\ n = ConstAt(p) + 1 /\ a = BeforeBlock(p)
  <2>1. n + 1 = ConstAt(p) + 2 /\ n + 1 = EndAt(p)
    BY <1>0, <1>3
  <2>2. F[n + 1] = Field("block", Deflate(p.constants))
    BY <1>3, <2>1 DEF Holds
  <2>3. \/ Undefined(y) /\ C > MaxConsts
        \/ y = AtEnd(p) /\ C <= MaxConsts
    BY <1>0, <1>3, <2>2, BlockStep
  <2> QED
    BY <1>3, <2>1, <2>3 DEF InConsts
<1>4. CASE p.zlib /\ n = EndAt(p)
  BY <1>0, <1>4
<1>5. CASE ~p.zlib /\ \E k \in 0 .. C : n = ConstAt(p) + 1 + k /\ k <= MaxConsts /\ a = AfterConsts(p, "constant", k)
  <2>1. PICK k \in 0 .. C : n = ConstAt(p) + 1 + k /\ k <= MaxConsts /\ a = AfterConsts(p, "constant", k)
    BY <1>5
  <2>2. /\ k \in Nat /\ k < C /\ k + 1 \in 1 .. C /\ k + 1 \in 0 .. C
        /\ n + 1 = ConstAt(p) + 1 + (k + 1)
    <3> HIDE DEF C
    <3>1. EndAt(p) = ConstAt(p) + 1 + C
      BY <1>0, <1>5
    <3> QED
      BY <1>0, <2>1, <3>1
  <2>3. F[n + 1] = Field("constant", p.constants[k + 1])
    BY <1>5, <2>2 DEF Holds
  <2>4. y = ReadConst(a, p.constants[k + 1])
    <3>1. a.at = "constant"
      <4>1. k # C
        BY <2>2
      <4>2. a = Acc("constant", C - k, Part(p, p.registers, p.vmem, p.lmem, p.zlib, SubSeq(p.constants, 1, k)))
        BY <2>1, <4>1 DEF AfterConsts
      <4> QED
        BY <4>2, AccParts
    <3>2. ReadField(b, a, F[n + 1]) = ReadConstants(b, a, F[n + 1])
      BY <3>1, ReadFieldIs
    <3>3. \A v : ReadConstants(b, a, Field("constant", v)) = ReadConst(a, v)
      BY <3>1, ReadConstantsIs
    <3>4. ReadConstants(b, a, F[n + 1]) = ReadConst(a, p.constants[k + 1])
      BY <2>3, <3>3
    <3> QED
      BY <3>2, <3>4
  <2>5. IF k = MaxConsts THEN Undefined(y) ELSE y = AfterConsts(p, "constant", k + 1)
    BY <1>0, <2>1, <2>2, <2>4, ReadConstIs
  <2> HIDE DEF y
  <2>6. CASE k = MaxConsts
    <3>1. C > MaxConsts
      BY <1>0, <2>2, <2>6
    <3> QED
      BY <2>5, <2>6, <3>1 DEF y
  <2>7. CASE k # MaxConsts
    <3>1. k + 1 <= MaxConsts
      BY <1>0, <2>1, <2>2, <2>7
    <3>2. InConsts(p, n + 1, y)
      BY <1>5, <2>2, <2>5, <2>7, <3>1 DEF InConsts
    <3> QED
      BY <3>2 DEF y
  <2> QED
    BY <2>6, <2>7
<1> QED
  BY <1>1, <1>2, <1>3, <1>4, <1>5 DEF InConsts

\* Of a program whose registers are too many, or that needs inflate or places for constants
\* that are not there, a part is read before it is refused or the reading undefined.
LEMMA ListsOn ==
  ASSUME NEW b, NEW p, IsProgram(p), NEW F, Holds(p, F),
         NEW n \in Nat, n < EndAt(p), NEW a, InLists(b, p, n, a)
  PROVE  \/ Refused(ReadField(b, a, F[n + 1])) /\ p.zlib /\ ~b.zlib
         \/ Undefined(ReadField(b, a, F[n + 1])) /\ Len(p.constants) > MaxConsts
         \/ InLists(b, p, n + 1, ReadField(b, a, F[n + 1]))
<1> DEFINE R == Len(p.registers)
           V == Len(p.vmem)
           y == ReadField(b, a, F[n + 1])
<1>0. /\ R \in Nat /\ V \in Nat /\ Before(p) \in Nat /\ VmemAt(p) \in Nat /\ LmemAt(p) \in Nat
      /\ VmemAt(p) = Before(p) + 4 + R + 1 /\ LmemAt(p) = VmemAt(p) + V + 1
  BY Places
<1>1. CASE \E k \in 0 .. R : n = Before(p) + 4 + k /\ a = AfterRegisters(p, k)
  <2>1. PICK k \in Nat : k \in 0 .. R /\ n = Before(p) + 4 + k /\ a = AfterRegisters(p, k)
    BY <1>1
  <2>2. CASE k = R
    <3>1. n + 1 = VmemAt(p) /\ n + 1 = VmemAt(p) + 0 /\ 0 \in 0 .. V
      BY <1>0, <2>1, <2>2
    <3>2. F[n + 1] = Field("num_vmem_segments", V)
      BY <3>1 DEF Holds
    <3>3. y = AfterVmem(p, 0)
      BY <2>1, <2>2, <3>2, VmemBegin
    <3> HIDE DEF y
    <3>4. InLists(b, p, n + 1, y)
      BY <3>1, <3>3 DEF InLists
    <3> QED
      BY <3>4 DEF y
  <2>3. CASE k # R
    <3> HIDE DEF R
    <3>1. k \in Nat /\ k < R /\ k + 1 \in 1 .. R /\ k + 1 \in 0 .. R /\ n + 1 = Before(p) + 4 + (k + 1)
      BY <1>0, <2>1, <2>3
    <3>2. F[n + 1] = Field("register", p.registers[k + 1])
      BY <3>1 DEF Holds, R
    <3>3. y = AfterRegisters(p, k + 1)
      <4>1. Len(p.registers) \in Nat /\ k \in Nat /\ k < Len(p.registers) /\ a = AfterRegisters(p, k)
        BY <1>0, <2>1, <3>1 DEF R
      <4> HIDE DEF y
      <4>2. ReadField(b, a, Field("register", p.registers[k + 1])) = AfterRegisters(p, k + 1)
        BY <4>1, RegistersStep
      <4> QED
        BY <3>2, <4>2 DEF y
    <3> HIDE DEF y
    <3>4. InLists(b, p, n + 1, y)
      BY <3>1, <3>3 DEF InLists, R
    <3> QED
      BY <3>4 DEF y
  <2> QED
    BY <2>2, <2>3
<1>2. CASE \E k \in 0 .. V : n = VmemAt(p) + k /\ a = AfterVmem(p, k)
  <2>1. PICK k \in Nat : k \in 0 .. V /\ n = VmemAt(p) + k /\ a = AfterVmem(p, k)
    BY <1>2
  <2>2. CASE k = V
    <3>1. n + 1 = LmemAt(p)
      BY <1>0, <2>1, <2>2
    <3>2. F[n + 1] = Field("num_lmem_segments", 1)
      BY <3>1 DEF Holds
    <3>3. y = BeforeLmem(p)
      BY <2>1, <2>2, <3>2, LmemBegin
    <3> HIDE DEF y
    <3>4. InLists(b, p, n + 1, y)
      BY <3>1, <3>3 DEF InLists
    <3> QED
      BY <3>4 DEF y
  <2>3. CASE k # V
    <3> HIDE DEF V
    <3>1. k \in Nat /\ k < V /\ k + 1 \in 1 .. V /\ k + 1 \in 0 .. V /\ n + 1 = VmemAt(p) + (k + 1)
      BY <1>0, <2>1, <2>3
    <3>2. F[n + 1] = Field("vmem", p.vmem[k + 1])
      BY <3>1 DEF Holds, V
    <3>3. y = AfterVmem(p, k + 1)
      <4>1. Len(p.vmem) \in Nat /\ k \in Nat /\ k < Len(p.vmem) /\ a = AfterVmem(p, k)
        BY <1>0, <2>1, <3>1 DEF V
      <4> HIDE DEF y
      <4>2. ReadField(b, a, Field("vmem", p.vmem[k + 1])) = AfterVmem(p, k + 1)
        BY <4>1, VmemStep
      <4> QED
        BY <3>2, <4>2 DEF y
    <3> HIDE DEF y
    <3>4. InLists(b, p, n + 1, y)
      BY <3>1, <3>3 DEF InLists, V
    <3> QED
      BY <3>4 DEF y
  <2> QED
    BY <2>2, <2>3
<1>3. CASE n = LmemAt(p) /\ a = BeforeLmem(p)
  <2>1. F[n + 1] = Field("lmem", LmemField(p.lmem[1]))
    BY <1>3 DEF Holds
  <2>2. IF p.zlib /\ ~b.zlib THEN Refused(y) ELSE y = AfterLmem(p, "num_constants", 0)
    BY <1>3, <2>1, LmemStep
  <2> HIDE DEF y
  <2>3. CASE p.zlib /\ ~b.zlib
    BY <2>2, <2>3 DEF y
  <2>4. CASE p.zlib => b.zlib
    <3>1. y = AfterLmem(p, "num_constants", 0) /\ n + 1 = LmemAt(p) + 1
      BY <1>3, <2>2, <2>4
    <3>2. InConsts(p, n + 1, y)
      BY <3>1 DEF InConsts
    <3> QED
      BY <2>4, <3>2 DEF InLists, y
  <2> QED
    BY <2>3, <2>4
<1>4. CASE (p.zlib => b.zlib) /\ InConsts(p, n, a)
  BY <1>4, ConstsOn DEF InLists
<1> QED
  BY <1>1, <1>2, <1>3, <1>4 DEF InLists

LEMMA BodyOn ==
  ASSUME NEW b, b # Wrapper, NEW p, IsProgram(p), b.ws = p.ws, NEW F, Holds(p, F),
         NEW n \in Nat, n < EndAt(p), NEW a, InBody(b, p, n, a)
  PROVE  \/ Refused(ReadField(b, a, F[n + 1])) /\ ~CanRun(b, p)
         \/ Undefined(ReadField(b, a, F[n + 1])) /\ Len(p.constants) > MaxConsts
         \/ InBody(b, p, n + 1, ReadField(b, a, F[n + 1]))
<1> DEFINE R == Len(p.registers)
           C == Len(p.constants)
           y == ReadField(b, a, F[n + 1])
<1>0. R \in Nat /\ C \in Nat /\ MaxRegs \in Nat /\ MaxConsts \in Nat /\ Before(p) \in Nat
  BY Places, ProgramFileOK
<1>1. CASE n = Before(p) + 2 /\ a = Acc("entry_point", 0, NoParts(p))
  <2>1. n + 1 = Before(p) + 3
    BY <1>0, <1>1
  <2>2. F[n + 1] = Field("entry_point", "0x1000")
    BY <2>1 DEF Holds
  <2>3. y = Acc("num_registers", 0, NoParts(p))
    BY <1>1, <2>2, EntryStep
  <2> QED
    BY <2>1, <2>3 DEF InBody
<1>2. CASE n = Before(p) + 3 /\ a = Acc("num_registers", 0, NoParts(p))
  <2>1. n + 1 = Before(p) + 4 /\ n + 1 = Before(p) + 4 + 0 /\ 0 \in 0 .. R
    BY <1>0, <1>2
  <2>2. F[n + 1] = Field("num_registers", R)
    BY <2>1 DEF Holds
  <2>3. IF R > MaxRegs THEN Refused(y) ELSE y = AfterRegisters(p, 0)
    BY <1>2, <2>2, RegistersBegin
  <2> HIDE DEF y
  <2>4. CASE R > MaxRegs
    <3>1. ~(R <= MaxRegs)
      BY <1>0, <2>4
    <3>2. ~CanRun(b, p)
      BY <3>1 DEF CanRun
    <3> QED
      BY <2>3, <2>4, <3>2 DEF y
  <2>5. CASE ~(R > MaxRegs)
    <3>1. R <= MaxRegs
      BY <1>0, <2>5
    <3>2. InLists(b, p, n + 1, y)
      BY <2>1, <2>3, <2>5 DEF InLists
    <3> QED
      BY <3>1, <3>2 DEF InBody, y
  <2> QED
    BY <2>4, <2>5
<1>3. CASE R <= MaxRegs /\ InLists(b, p, n, a)
  <2>1. \/ Refused(y) /\ p.zlib /\ ~b.zlib
        \/ Undefined(y) /\ C > MaxConsts
        \/ InLists(b, p, n + 1, y)
    BY <1>3, ListsOn
  <2> HIDE DEF y
  <2>2. CASE Refused(y) /\ p.zlib /\ ~b.zlib
    <3>1. ~CanRun(b, p)
      BY <2>2 DEF CanRun
    <3> QED
      BY <2>2, <3>1 DEF y
  <2> QED
    BY <1>3, <2>1, <2>2 DEF InBody, y
<1> QED
  BY <1>1, <1>2, <1>3 DEF InBody

LEMMA StageOn ==
  ASSUME NEW b \in Builds \cup {Wrapper}, NEW p, IsProgram(p), NEW F, Holds(p, F),
         NEW n \in Nat, n < EndAt(p), NEW a, Stage(b, p, n, a)
  PROVE  Stage(b, p, n + 1, ReadField(b, a, F[n + 1]))
<1> DEFINE y == ReadField(b, a, F[n + 1])
<1>0. Before(p) \in {0, 1} /\ (p.shebang <=> Before(p) = 1)
  BY Places
<1>1. CASE Refused(a) /\ ~CanRun(b, p)
  <2>1. y = a
    BY <1>1, RefusedIs, ReadFieldIs
  <2> QED
    BY <1>1, <2>1 DEF Stage
<1>7. CASE Undefined(a) /\ b # Wrapper /\ Len(p.constants) > MaxConsts
  <2>1. y = a
    BY <1>7, UndefinedIs, ReadFieldIs
  <2> QED
    BY <1>7, <2>1 DEF Stage
<1>2. CASE n = 0 /\ a = NoFields
  <2>0. a = Started("magic", No)
    BY <1>2 DEF NoFields, Started, Acc, Blank, No
  <2>1. CASE p.shebang
    <3>1. F[n + 1] = Shebang /\ n + 1 = 1
      BY <1>2, <2>1 DEF Holds
    <3>2. Yes(p.shebang)
      BY <2>1 DEF IsProgram, Yes
    <3>3. CASE b # Wrapper
      <4>1. y = Started("magic2", p.shebang)
        BY <2>0, <3>1, <3>2, <3>3, ShebangStep
      <4> QED
        BY <2>1, <3>1, <3>3, <4>1 DEF Stage
    <3>4. CASE b = Wrapper
      <4>1. Refused(y)
        BY <2>0, <3>1, <3>2, <3>4, ShebangStep
      <4>2. ~CanRun(b, p)
        BY <2>1, <3>4 DEF CanRun
      <4> QED
        BY <4>1, <4>2 DEF Stage
    <3> QED
      BY <3>3, <3>4
  <2>2. CASE ~p.shebang
    <3>1. Before(p) = 0 /\ n + 1 = Before(p) + 1
      BY <1>0, <1>2, <2>2
    <3>2. F[n + 1] = Field("magic", "SRS")
      BY <3>1 DEF Holds
    <3>3. p.shebang = No
      BY <2>2 DEF IsProgram, No
    <3>4. y = Started("word_size", p.shebang)
      BY <2>0, <3>2, <3>3, MagicStep
    <3> QED
      BY <2>2, <3>1, <3>4 DEF Stage
  <2> QED
    BY <2>1, <2>2
<1>3. CASE n = 1 /\ p.shebang /\ b # Wrapper /\ a = Started("magic2", p.shebang)
  <2>1. n + 1 = Before(p) + 1
    BY <1>0, <1>3
  <2>2. F[n + 1] = Field("magic", "SRS")
    BY <2>1 DEF Holds
  <2>3. y = Started("word_size", p.shebang)
    BY <1>3, <2>2, MagicStep
  <2> QED
    BY <1>3, <2>1, <2>3 DEF Stage
<1>4. CASE n = Before(p) + 1 /\ (b = Wrapper => ~p.shebang) /\ a = Started("word_size", p.shebang)
  <2>1. n + 1 = Before(p) + 2 /\ n + 1 >= 2
    BY <1>0, <1>4
  <2>2. F[n + 1] = Field("word_size", p.ws)
    BY <2>1 DEF Holds
  <2>3. CASE b = Wrapper
    <3>1. y = Acc("end", 0, NoParts(p))
      BY <1>4, <2>2, <2>3, WordSizeStep
    <3> QED
      BY <1>4, <2>1, <2>3, <3>1 DEF Stage
  <2>4. CASE b # Wrapper /\ b.ws = p.ws
    <3>1. y = Acc("entry_point", 0, NoParts(p))
      BY <1>4, <2>2, <2>4, WordSizeStep
    <3>2. InBody(b, p, n + 1, y)
      BY <2>1, <3>1 DEF InBody
    <3> QED
      BY <2>4, <3>2 DEF Stage
  <2>5. CASE b # Wrapper /\ b.ws # p.ws
    <3>1. Refused(y)
      BY <1>4, <2>2, <2>5, WordSizeStep
    <3>2. ~CanRun(b, p)
      BY <2>5 DEF CanRun
    <3> QED
      BY <3>1, <3>2 DEF Stage
  <2> QED
    BY <2>3, <2>4, <2>5
<1>5. CASE n >= 2 /\ b = Wrapper /\ ~p.shebang /\ a = Acc("end", 0, NoParts(p))
  <2>1. a.at = "end"
    BY <1>5, AccParts
  <2>2. y = a
    BY <2>1, ReadFieldIs
  <2>3. n + 1 >= 2
    BY <1>5
  <2> QED
    BY <1>5, <2>2, <2>3 DEF Stage
<1>6. CASE b # Wrapper /\ b.ws = p.ws /\ InBody(b, p, n, a)
  <2>1. \/ Refused(y) /\ ~CanRun(b, p)
        \/ Undefined(y) /\ Len(p.constants) > MaxConsts
        \/ InBody(b, p, n + 1, y)
    BY <1>6, BodyOn
  <2> QED
    BY <1>6, <2>1 DEF Stage
<1> QED
  BY <1>1, <1>2, <1>3, <1>4, <1>5, <1>6, <1>7 DEF Stage

LEMMA Stages ==
  ASSUME NEW b \in Builds \cup {Wrapper}, NEW p, IsProgram(p), NEW F, Holds(p, F),
         NEW r, ReadUpTo(b, F, EndAt(p), r)
  PROVE  \A n \in Nat : n <= EndAt(p) => Stage(b, p, n, r[n])
<1> DEFINE X == {n \in Nat : n <= EndAt(p) => Stage(b, p, n, r[n])}
<1>0. EndAt(p) \in Nat
  BY Places
<1>1. 0 \in X
  BY DEF ReadUpTo, Stage
<1>2. ASSUME NEW n \in Nat, n \in X PROVE n + 1 \in X
  <2>1. CASE n + 1 <= EndAt(p)
    <3>1. n < EndAt(p) /\ n <= EndAt(p) /\ n + 1 \in 1 .. EndAt(p) /\ (n + 1) - 1 = n
      BY <1>0, <2>1
    <3>2. r[n + 1] = ReadField(b, r[n], F[n + 1])
      BY <3>1 DEF ReadUpTo
    <3>3. Stage(b, p, n, r[n])
      BY <1>2, <3>1
    <3>4. Stage(b, p, n + 1, ReadField(b, r[n], F[n + 1]))
      BY <3>1, <3>3, StageOn
    <3> QED
      BY <3>2, <3>4
  <2> QED
    BY <2>1
<1> HIDE DEF X
<1>3. Nat \subseteq X
  BY <1>1, <1>2, Shared!InductionOnNat
<1> QED
  BY <1>3 DEF X

\* A beginning of a program, read by whomever.
LEMMA BeginningRead ==
  ASSUME NEW b \in Builds \cup {Wrapper}, NEW p, IsProgram(p), NEW n \in Nat, n <= EndAt(p)
  PROVE  Stage(b, p, n, Deserialized(b, SubSeq(Written(p), 1, n)))
<1> DEFINE F == Written(p)
<1>1. F \in Seq(ToSet(F)) /\ Len(F) = EndAt(p) /\ Holds(p, F)
  BY WholeHolds
<1>2. EndAt(p) \in Nat
  BY Places
<1> HIDE DEF F
<1>3. PICK r : ReadUpTo(b, F, EndAt(p), r)
  BY <1>2, ReadsExist
<1>4. n \in 0 .. Len(F) /\ ReadUpTo(b, F, Len(F), r)
  BY <1>1, <1>2, <1>3
<1>5. Deserialized(b, SubSeq(F, 1, n)) = r[n]
  BY <1>1, <1>4, ReadsOn
<1>6. Stage(b, p, n, r[n])
  BY <1>1, <1>3, Stages
<1> QED
  BY <1>5, <1>6 DEF F

LEMMA AtEndIs ==
  ASSUME NEW p, IsProgram(p)
  PROVE  AtEnd(p).at = "end" /\ AtEnd(p).prog = p
<1>1. PICK w, sh, R, V, L, z, C :
        /\ w = p.ws /\ sh = p.shebang /\ R = p.registers /\ V = p.vmem
        /\ L = <<[zlib |-> z, data |-> "code"]>> /\ z = p.zlib /\ C = p.constants
  OBVIOUS
<1>2. p = [ws |-> w, shebang |-> sh, registers |-> R, vmem |-> V, lmem |-> L, zlib |-> z, constants |-> C]
  BY <1>1 DEF IsProgram
<1>3. p.lmem = L
  BY <1>2
<1>4. AtEnd(p) = Acc("end", 0, p)
  <2>1. AtEnd(p) = Acc("end", 0, [ws |-> w, shebang |-> sh, registers |-> R, vmem |-> V, lmem |-> L,
                                  zlib |-> z, constants |-> C])
    BY <1>1, <1>3 DEF AtEnd, Part
  <2> QED
    BY <1>2, <2>1
<1> QED
  BY <1>4, AccParts

\* A machine has places for the constants of a program it can hold.
LEMMA LoadsIs ==
  ASSUME NEW p, IsProgram(p)
  PROVE  Loads(p) <=> Len(p.constants) <= MaxConsts
<1> DEFINE C == Len(p.constants)
<1>1. C \in Nat /\ MaxConsts \in Nat /\ DOMAIN p.constants = 1 .. C
  BY ProgramFileOK DEF IsProgram
<1>2. \A i \in 1 .. C : p.constants[i].slot = i - 1
  BY DEF IsProgram
<1> HIDE DEF C
<1>3. ASSUME C <= MaxConsts, NEW i \in 1 .. C PROVE i - 1 < MaxConsts
  BY <1>1, <1>3
<1>4. ASSUME \A i \in 1 .. C : i - 1 < MaxConsts PROVE C <= MaxConsts
  <2>1. CASE C = 0
    BY <1>1, <2>1
  <2>2. CASE C # 0
    <3>1. C \in 1 .. C
      BY <1>1, <2>2
    <3>2. C - 1 < MaxConsts
      BY <1>4, <3>1
    <3> QED
      BY <1>1, <3>2
  <2> QED
    BY <2>1, <2>2
<1>5. Loads(p) <=> \A i \in 1 .. C : p.constants[i].slot < MaxConsts
  BY <1>1 DEF Loads
<1>6. Loads(p) <=> \A i \in 1 .. C : i - 1 < MaxConsts
  BY <1>2, <1>5
<1> QED
  BY <1>3, <1>4, <1>6 DEF C

\* What reading comes to: the end, when the last field was read, and the program.
Outcome(p, n, a) ==
  /\ a.at \notin {"refused", "undefined"}
  /\ a.at = "end" <=> n = EndAt(p)
  /\ n = EndAt(p) => a = AtEnd(p)

LEMMA ConstsOutcome ==
  ASSUME NEW p, IsProgram(p), NEW n \in Nat, NEW a, InConsts(p, n, a)
  PROVE  Outcome(p, n, a)
<1> DEFINE C == Len(p.constants)
<1>0. /\ C \in Nat /\ LmemAt(p) \in Nat /\ ConstAt(p) \in Nat /\ ConstAt(p) = LmemAt(p) + 2
      /\ EndAt(p) \in Nat /\ EndAt(p) >= ConstAt(p) + 1
      /\ p.zlib => EndAt(p) = ConstAt(p) + 2
      /\ ~p.zlib => EndAt(p) = ConstAt(p) + 1 + C
  BY Places
<1> HIDE DEF C
<1>1. CASE n = LmemAt(p) + 1 /\ a = AfterLmem(p, "num_constants", 0)
  <2>1. a.at = "num_constants"
    BY <1>1, AccParts DEF AfterLmem
  <2>2. n # EndAt(p)
    BY <1>0, <1>1
  <2> QED
    BY <2>1, <2>2 DEF Outcome
<1>2. CASE n = ConstAt(p) /\ a = AfterLmem(p, "constants_compressed", C)
  <2>1. a.at = "constants_compressed"
    BY <1>2, AccParts DEF AfterLmem
  <2>2. n # EndAt(p)
    BY <1>0, <1>2
  <2> QED
    BY <2>1, <2>2 DEF Outcome
<1>3. CASE p.zlib /\ n = ConstAt(p) + 1 /\ a = BeforeBlock(p)
  <2>1. a.at = "block"
    <3>1. a = BeforeBlock(p)
      BY <1>3
    <3>2. BeforeBlock(p).at = "block"
      BY AccParts DEF BeforeBlock
    <3> QED
      BY <3>1, <3>2
  <2>2. n # EndAt(p)
    BY <1>0, <1>3
  <2> QED
    BY <2>1, <2>2 DEF Outcome
<1>4. CASE p.zlib /\ n = EndAt(p) /\ a = AtEnd(p)
  BY <1>4, AtEndIs DEF Outcome
<1>5. CASE ~p.zlib /\ \E k \in 0 .. C : n = ConstAt(p) + 1 + k /\ a = AfterConsts(p, "constant", k)
  <2>1. PICK k \in Nat : k \in 0 .. C /\ n = ConstAt(p) + 1 + k /\ a = AfterConsts(p, "constant", k)
    BY <1>5
  <2>2. CASE k = C
    <3>1. a = AtEnd(p)
      BY <2>1, <2>2, ConstsEnd DEF C
    <3>2. n = EndAt(p)
      BY <1>0, <1>5, <2>1, <2>2
    <3> QED
      BY <3>1, <3>2, AtEndIs DEF Outcome
  <2>3. CASE k # C
    <3>1. n # EndAt(p)
      BY <1>0, <1>5, <2>1, <2>3
    <3>2. a = Acc("constant", C - k, Part(p, p.registers, p.vmem, p.lmem, p.zlib, SubSeq(p.constants, 1, k)))
      BY <2>1, <2>3 DEF AfterConsts, C
    <3>3. a.at = "constant"
      BY <3>2, AccParts
    <3> QED
      BY <3>1, <3>3 DEF Outcome
  <2> QED
    BY <2>2, <2>3
<1> QED
  BY <1>1, <1>2, <1>3, <1>4, <1>5 DEF InConsts, C

LEMMA ListsOutcome ==
  ASSUME NEW b, NEW p, IsProgram(p), NEW n \in Nat, NEW a, InLists(b, p, n, a)
  PROVE  Outcome(p, n, a) /\ (n = EndAt(p) => (p.zlib => b.zlib))
<1> DEFINE R == Len(p.registers)
           V == Len(p.vmem)
<1>0. /\ R \in Nat /\ V \in Nat /\ Before(p) \in Nat /\ VmemAt(p) \in Nat /\ LmemAt(p) \in Nat
      /\ VmemAt(p) = Before(p) + 4 + R + 1 /\ LmemAt(p) = VmemAt(p) + V + 1
      /\ ConstAt(p) = LmemAt(p) + 2 /\ EndAt(p) \in Nat /\ EndAt(p) >= ConstAt(p) + 1
  BY Places
<1> HIDE DEF R, V
<1>1. CASE \E k \in 0 .. R : n = Before(p) + 4 + k /\ a = AfterRegisters(p, k)
  <2>1. PICK k \in Nat : k \in 0 .. R /\ n = Before(p) + 4 + k /\ a = AfterRegisters(p, k)
    BY <1>1
  <2>2. n # EndAt(p)
    BY <1>0, <2>1
  <2>3. \E at \in {"num_vmem_segments", "register"} : \E left, q : a = Acc(at, left, q)
    BY <2>1 DEF AfterRegisters
  <2>4. a.at \in {"num_vmem_segments", "register"}
    BY <2>3, AccParts
  <2> QED
    BY <2>2, <2>4 DEF Outcome
<1>2. CASE \E k \in 0 .. V : n = VmemAt(p) + k /\ a = AfterVmem(p, k)
  <2>1. PICK k \in Nat : k \in 0 .. V /\ n = VmemAt(p) + k /\ a = AfterVmem(p, k)
    BY <1>2
  <2>2. n # EndAt(p)
    BY <1>0, <2>1
  <2>3. \E at \in {"num_lmem_segments", "vmem"} : \E left, q : a = Acc(at, left, q)
    BY <2>1 DEF AfterVmem
  <2>4. a.at \in {"num_lmem_segments", "vmem"}
    BY <2>3, AccParts
  <2> QED
    BY <2>2, <2>4 DEF Outcome
<1>3. CASE n = LmemAt(p) /\ a = BeforeLmem(p)
  <2>1. a.at = "lmem"
    BY <1>3, AccParts DEF BeforeLmem
  <2>2. n # EndAt(p)
    BY <1>0, <1>3
  <2> QED
    BY <2>1, <2>2 DEF Outcome
<1>4. CASE (p.zlib => b.zlib) /\ InConsts(p, n, a)
  BY <1>4, ConstsOutcome
<1> QED
  BY <1>1, <1>2, <1>3, <1>4 DEF InLists, R, V

\* A runtime reads all of a program it can run, and of any other what it refuses, or
\* up to the first constant there is no place for.
LEMMA RuntimeOutcome ==
  ASSUME NEW b, b # Wrapper, NEW p, IsProgram(p), NEW n \in Nat, NEW a, Stage(b, p, n, a)
  PROVE  \/ a.at = "refused" /\ ~CanRun(b, p)
         \/ a.at = "undefined" /\ Len(p.constants) > MaxConsts
         \/ Outcome(p, n, a) /\ (n = EndAt(p) => (CanRun(b, p) <=> Loads(p)) /\ Len(p.registers) <= MaxRegs)
<1>0. /\ Before(p) \in {0, 1} /\ (p.shebang <=> Before(p) = 1) /\ Len(p.registers) \in Nat
      /\ VmemAt(p) \in Nat /\ LmemAt(p) \in Nat /\ ConstAt(p) \in Nat /\ EndAt(p) \in Nat
      /\ VmemAt(p) = Before(p) + 4 + Len(p.registers) + 1 /\ Len(p.vmem) \in Nat
      /\ LmemAt(p) = VmemAt(p) + Len(p.vmem) + 1
      /\ ConstAt(p) = LmemAt(p) + 2 /\ EndAt(p) >= ConstAt(p) + 1
  BY Places
<1>1. Before(p) + 3 < EndAt(p) /\ 1 < EndAt(p)
  <2>1. ASSUME NEW B \in Nat, NEW R \in Nat, NEW V \in Nat, NEW v, NEW l, NEW c, NEW e \in Nat,
               v = B + 4 + R + 1, l = v + V + 1, c = l + 2, e >= c + 1
        PROVE  B + 3 < e /\ 1 < e
    <3>1. c = B + 4 + R + 1 + V + 1 + 2
      BY <2>1
    <3> QED
      BY <2>1, <3>1
  <2>2. Before(p) \in Nat
    BY <1>0
  <2> QED
    BY <1>0, <2>1, <2>2
<1>2. CASE Refused(a) /\ ~CanRun(b, p)
  BY <1>2, RefusedIs
<1>5. CASE Undefined(a) /\ Len(p.constants) > MaxConsts
  BY <1>5, UndefinedIs
<1>3. CASE \/ n = 0 /\ a = NoFields
           \/ n = 1 /\ a = Started("magic2", p.shebang)
           \/ n = Before(p) + 1 /\ a = Started("word_size", p.shebang)
  <2>1. n # EndAt(p)
    BY <1>0, <1>1, <1>3
  <2>2. a.at \in {"magic", "magic2", "word_size"}
    BY <1>3, AccParts DEF NoFields, Started
  <2> QED
    BY <2>1, <2>2 DEF Outcome
<1>4. CASE b.ws = p.ws /\ InBody(b, p, n, a)
  <2>1. CASE \/ n = Before(p) + 2 /\ a = Acc("entry_point", 0, NoParts(p))
             \/ n = Before(p) + 3 /\ a = Acc("num_registers", 0, NoParts(p))
    <3>1. n # EndAt(p)
      BY <1>0, <1>1, <2>1
    <3>2. a.at \in {"entry_point", "num_registers"}
      BY <2>1, AccParts
    <3> QED
      BY <3>1, <3>2 DEF Outcome
  <2>2. CASE Len(p.registers) <= MaxRegs /\ InLists(b, p, n, a)
    <3>1. Outcome(p, n, a) /\ (n = EndAt(p) => (p.zlib => b.zlib))
      BY <2>2, ListsOutcome
    <3>2. (p.zlib => b.zlib) => (CanRun(b, p) <=> Len(p.constants) <= MaxConsts)
      BY <1>4, <2>2 DEF CanRun
    <3>3. Loads(p) <=> Len(p.constants) <= MaxConsts
      BY LoadsIs
    <3> QED
      BY <2>2, <3>1, <3>2, <3>3
  <2> QED
    BY <1>4, <2>1, <2>2 DEF InBody
<1> QED
  BY <1>2, <1>3, <1>4, <1>5 DEF Stage

\* The wrapper reads the size of a word, and refuses a script.
LEMMA WrapperOutcome ==
  ASSUME NEW p, IsProgram(p), NEW n \in Nat, NEW a, Stage(Wrapper, p, n, a)
  PROVE  /\ a.at # "undefined"
         /\ a.at = "refused" => ~CanRun(Wrapper, p)
         /\ a.at = "end" => ~p.shebang /\ a.prog.ws = p.ws
         /\ n = EndAt(p) => a.at \in {"end", "refused"}
<1>0. /\ Before(p) \in {0, 1} /\ (p.shebang <=> Before(p) = 1)
      /\ EndAt(p) \in Nat /\ EndAt(p) >= Before(p) + 2 /\ EndAt(p) > 1
  BY Places
<1>1. CASE Refused(a) /\ ~CanRun(Wrapper, p)
  <2>1. a.at = "refused"
    BY <1>1, RefusedIs
  <2> QED
    BY <1>1, <2>1
<1>2. CASE \/ n = 0 /\ a = NoFields
           \/ n = Before(p) + 1 /\ a = Started("word_size", p.shebang)
  <2>1. n # EndAt(p)
    BY <1>0, <1>2
  <2>2. a.at \in {"magic", "word_size"}
    BY <1>2, AccParts DEF NoFields, Started
  <2> QED
    BY <2>1, <2>2
<1>3. CASE ~p.shebang /\ a = Acc("end", 0, NoParts(p))
  <2>1. a.at = "end" /\ a.prog = NoParts(p)
    BY <1>3, AccParts
  <2>2. NoParts(p).ws = p.ws
    BY DEF NoParts, Part
  <2> QED
    BY <1>3, <2>1, <2>2
<1> QED
  BY <1>1, <1>2, <1>3 DEF Stage

\* What is no program is refused at its first field.
LEMMA NotAProgramRefused ==
  ASSUME NEW b, NEW n \in 1 .. Len(NotAProgram)
  PROVE  Deserialized(b, SubSeq(NotAProgram, 1, n)).at = "refused"
<1> DEFINE x == Field("magic", "something else")
           F == NotAProgram
<1>1. F \in Seq({x}) /\ Len(F) = 1 /\ F[1] = x /\ n = 1
  BY DEF NotAProgram
<1>2. PICK r : ReadUpTo(b, F, 1, r)
  BY ReadsExist
<1>3. Deserialized(b, SubSeq(F, 1, n)) = r[1]
  <2> HIDE DEF F, x
  <2>1. n \in 0 .. Len(F) /\ ReadUpTo(b, F, Len(F), r)
    BY <1>1, <1>2
  <2> QED
    BY <1>1, <2>1, ReadsOn
<1>4. r[1] = ReadField(b, NoFields, x)
  <2> HIDE DEF F, x
  <2>1. 1 \in 1 .. 1 /\ 1 - 1 = 0
    OBVIOUS
  <2> QED
    BY <1>1, <1>2, <2>1 DEF ReadUpTo
<1>5. NoFields.at = "magic"
  BY DEF NoFields
<1>6. ReadField(b, NoFields, x) = ReadMetadata(b, NoFields, x)
  <2> DEFINE a == NoFields
  <2>1. a.at \in {"magic", "magic2", "word_size", "entry_point"}
    BY <1>5
  <2> HIDE DEF a, x
  <2>2. ReadField(b, a, x) = ReadMetadata(b, a, x)
    BY <2>1, ReadFieldIs
  <2> QED
    BY <2>2 DEF a
<1>7. NameOf(x) # "shebang" /\ x # Field("magic", "SRS")
  BY DEF NameOf, Field
<1>8. ReadMetadata(b, NoFields, x) = Refuse(NoFields)
  <2> HIDE DEF x
  <2> QED
    BY <1>5, <1>7, Zenon DEF ReadMetadata
<1>9. Refuse(NoFields).at = "refused"
  BY DEF Refuse, NoFields
<1> QED
  BY <1>3, <1>4, <1>6, <1>8, <1>9

-----------------------------------------------------------------------------
\* No two programs are written alike, and none as the beginning of another.

LEMMA FieldsDiffer ==
  ASSUME NEW m, NEW n, NEW v, NEW w, Field(m, v) = Field(n, w)
  PROVE  m = n /\ v = w
BY DEF Field

LEMMA SameElements ==
  ASSUME NEW S, NEW T, NEW s \in Seq(S), NEW t \in Seq(T), Len(s) = Len(t), \A k \in 1 .. Len(s) : s[k] = t[k]
  PROVE  s = t
<1>1. s \in Seq(S \cup T) /\ t \in Seq(S \cup T)
  OBVIOUS
<1> QED
  BY <1>1, SeqEqual

LEMMA HoldsOne ==
  ASSUME NEW p, IsProgram(p), NEW q, IsProgram(q), NEW F, Holds(p, F), Holds(q, F)
  PROVE  p = q
<1>0. /\ Before(p) \in {0, 1} /\ (p.shebang <=> Before(p) = 1)
      /\ Before(q) \in {0, 1} /\ (q.shebang <=> Before(q) = 1)
  BY Places
<1>1. p.shebang = q.shebang /\ Before(p) = Before(q)
  <2>1. Shebang # Field("magic", "SRS")
    BY FieldsDiffer DEF Shebang
  <2>2. ASSUME NEW u, NEW v, IsProgram(u), IsProgram(v), Holds(u, F), Holds(v, F), u.shebang, ~v.shebang
        PROVE  FALSE
    <3>1. Before(v) + 1 = 1
      BY <2>2 DEF Before
    <3> QED
      BY <2>1, <2>2, <3>1 DEF Holds
  <2>3. p.shebang <=> q.shebang
    BY <2>2
  <2> QED
    BY <1>0, <2>3 DEF IsProgram, Before
<1>2. p.ws = q.ws
  <2>1. Field("word_size", p.ws) = Field("word_size", q.ws)
    BY <1>1 DEF Holds
  <2> QED
    BY <2>1, FieldsDiffer
<1>3. p.registers = q.registers
  <2>1. Len(p.registers) = Len(q.registers)
    <3>1. Field("num_registers", Len(p.registers)) = Field("num_registers", Len(q.registers))
      BY <1>1 DEF Holds
    <3> QED
      BY <3>1, FieldsDiffer
  <2>2. ASSUME NEW k \in 1 .. Len(p.registers) PROVE p.registers[k] = q.registers[k]
    <3>1. Field("register", p.registers[k]) = Field("register", q.registers[k])
      BY <1>1, <2>1 DEF Holds
    <3> QED
      BY <3>1, FieldsDiffer
  <2> QED
    BY <2>1, <2>2, SameElements DEF IsProgram
<1>4. p.vmem = q.vmem /\ VmemAt(p) = VmemAt(q)
  <2>1. VmemAt(p) = VmemAt(q)
    BY <1>1, <1>3 DEF VmemAt
  <2>2. Len(p.vmem) = Len(q.vmem)
    <3>1. Field("num_vmem_segments", Len(p.vmem)) = Field("num_vmem_segments", Len(q.vmem))
      BY <2>1 DEF Holds
    <3> QED
      BY <3>1, FieldsDiffer
  <2>3. ASSUME NEW k \in 1 .. Len(p.vmem) PROVE p.vmem[k] = q.vmem[k]
    <3>1. Field("vmem", p.vmem[k]) = Field("vmem", q.vmem[k])
      BY <2>1, <2>2 DEF Holds
    <3> QED
      BY <3>1, FieldsDiffer
  <2> QED
    BY <2>1, <2>2, <2>3, SameElements DEF IsProgram
<1>5. LmemAt(p) = LmemAt(q) /\ ConstAt(p) = ConstAt(q)
  BY <1>4 DEF LmemAt, ConstAt
<1>6. p.zlib = q.zlib
  <2>1. Field("constants_compressed", p.zlib) = Field("constants_compressed", q.zlib)
    BY <1>5 DEF Holds
  <2> QED
    BY <2>1, FieldsDiffer
<1>7. p.constants = q.constants
  <2>1. Len(p.constants) = Len(q.constants)
    <3>1. Field("num_constants", Len(p.constants)) = Field("num_constants", Len(q.constants))
      BY <1>5 DEF Holds
    <3> QED
      BY <3>1, FieldsDiffer
  <2>2. CASE p.zlib
    <3>1. Field("block", Deflate(p.constants)) = Field("block", Deflate(q.constants))
      BY <1>5, <1>6, <2>2 DEF Holds
    <3>2. Deflate(p.constants) = Deflate(q.constants)
      BY <3>1, FieldsDiffer
    <3> QED
      BY <3>2 DEF Deflate
  <2>3. CASE ~p.zlib
    <3>1. ASSUME NEW k \in 1 .. Len(p.constants) PROVE p.constants[k] = q.constants[k]
      <4>1. Field("constant", p.constants[k]) = Field("constant", q.constants[k])
        BY <1>5, <1>6, <2>1, <2>3 DEF Holds
      <4> QED
        BY <4>1, FieldsDiffer
    <3> QED
      BY <2>1, <3>1, SameElements DEF IsProgram
  <2> QED
    BY <2>2, <2>3
<1> QED
  <2>1. p = [ws |-> p.ws, shebang |-> p.shebang, registers |-> p.registers, vmem |-> p.vmem,
             lmem |-> <<[zlib |-> p.zlib, data |-> "code"]>>, zlib |-> p.zlib, constants |-> p.constants]
    BY DEF IsProgram
  <2>2. q = [ws |-> q.ws, shebang |-> q.shebang, registers |-> q.registers, vmem |-> q.vmem,
             lmem |-> <<[zlib |-> q.zlib, data |-> "code"]>>, zlib |-> q.zlib, constants |-> q.constants]
    BY DEF IsProgram
  <2> QED
    BY <1>1, <1>2, <1>3, <1>4, <1>6, <1>7, <2>1, <2>2, Zenon

\* Only the fields of p say what is written of p.
LEMMA HoldsAlike ==
  ASSUME NEW p, IsProgram(p), NEW F, Holds(p, F), NEW G, \A k \in 1 .. EndAt(p) : F[k] = G[k]
  PROVE  Holds(p, G)
<1> DEFINE R == Len(p.registers)
           V == Len(p.vmem)
           C == Len(p.constants)
           B == Before(p)
<1>0. /\ B \in {0, 1} /\ (p.shebang <=> B = 1) /\ R \in Nat /\ V \in Nat /\ C \in Nat
      /\ VmemAt(p) \in Nat /\ LmemAt(p) \in Nat /\ ConstAt(p) \in Nat /\ EndAt(p) \in Nat
      /\ VmemAt(p) = B + 4 + R + 1 /\ LmemAt(p) = VmemAt(p) + V + 1
      /\ ConstAt(p) = LmemAt(p) + 2 /\ EndAt(p) >= ConstAt(p) + 1
      /\ p.zlib => EndAt(p) = ConstAt(p) + 2
      /\ ~p.zlib => EndAt(p) = ConstAt(p) + 1 + C
  BY Places
<1> HIDE DEF R, V, C, B
<1>1. /\ 1 \in 1 .. EndAt(p) /\ B + 1 \in 1 .. EndAt(p) /\ B + 2 \in 1 .. EndAt(p)
      /\ B + 3 \in 1 .. EndAt(p) /\ B + 4 \in 1 .. EndAt(p)
  BY <1>0
<1>2. /\ \A k \in 1 .. R : B + 4 + k \in 1 .. EndAt(p)
      /\ \A k \in 1 .. V : VmemAt(p) + k \in 1 .. EndAt(p)
  BY <1>0
<1>3. /\ VmemAt(p) \in 1 .. EndAt(p) /\ LmemAt(p) \in 1 .. EndAt(p) /\ LmemAt(p) + 1 \in 1 .. EndAt(p)
      /\ ConstAt(p) \in 1 .. EndAt(p) /\ ConstAt(p) + 1 \in 1 .. EndAt(p)
  BY <1>0
<1>4. /\ p.zlib => ConstAt(p) + 2 \in 1 .. EndAt(p)
      /\ ~p.zlib => \A k \in 1 .. C : ConstAt(p) + 1 + k \in 1 .. EndAt(p)
  BY <1>0
<1>5. /\ p.shebang => G[1] = Shebang
      /\ G[B + 1] = Field("magic", "SRS")
      /\ G[B + 2] = Field("word_size", p.ws)
      /\ G[B + 3] = Field("entry_point", "0x1000")
      /\ G[B + 4] = Field("num_registers", Len(p.registers))
  BY <1>1 DEF Holds, B
<1>6. /\ \A k \in 1 .. R : G[B + 4 + k] = Field("register", p.registers[k])
      /\ \A k \in 1 .. V : G[VmemAt(p) + k] = Field("vmem", p.vmem[k])
  BY <1>2 DEF Holds, B, R, V
<1>7. /\ G[VmemAt(p)] = Field("num_vmem_segments", Len(p.vmem))
      /\ G[LmemAt(p)] = Field("num_lmem_segments", 1)
      /\ G[LmemAt(p) + 1] = Field("lmem", LmemField(p.lmem[1]))
      /\ G[ConstAt(p)] = Field("num_constants", Len(p.constants))
      /\ G[ConstAt(p) + 1] = Field("constants_compressed", p.zlib)
  BY <1>3 DEF Holds
<1>8. IF p.zlib THEN G[ConstAt(p) + 2] = Field("block", Deflate(p.constants))
      ELSE \A k \in 1 .. C : G[ConstAt(p) + 1 + k] = Field("constant", p.constants[k])
  BY <1>4 DEF Holds, C
<1> QED
  BY <1>5, <1>6, <1>7, <1>8 DEF Holds, B, R, V, C

LEMMA NoBeginning ==
  ASSUME NEW p, IsProgram(p), NEW q, IsProgram(q), NEW n \in Nat, n <= EndAt(p),
         Written(q) = SubSeq(Written(p), 1, n)
  PROVE  p = q /\ n = EndAt(p)
<1> DEFINE F == Written(p)
           G == Written(q)
<1>1. F \in Seq(ToSet(F)) /\ Len(F) = EndAt(p) /\ Holds(p, F) /\ Len(G) = EndAt(q) /\ Holds(q, G)
  BY WholeHolds
<1>2. EndAt(p) \in Nat /\ EndAt(q) \in Nat
  BY Places
<1>3. G = SubSeq(F, 1, n)
  OBVIOUS
<1> HIDE DEF F, G
<1>4. Len(G) = n /\ \A k \in 1 .. n : G[k] = F[k]
  BY <1>1, <1>2, <1>3, SubSeqProperties
<1>5. Holds(q, F)
  <2>1. \A k \in 1 .. EndAt(q) : G[k] = F[k]
    BY <1>1, <1>4
  <2> QED
    BY <1>1, <2>1, HoldsAlike
<1>6. p = q
  BY <1>1, <1>5, HoldsOne
<1> QED
  BY <1>1, <1>4, <1>6

-----------------------------------------------------------------------------
\* What is at the path: no program, or a beginning of one, which may be all of it.

FileIs(f) == \/ f \in {NotAProgram, <<>>}
             \/ \E p \in Programs, n \in Nat : n <= EndAt(p) /\ f = SubSeq(Written(p), 1, n)

StoredIn(f) == IF f # NULL /\ \E p \in Programs : f = Written(p)
               THEN CHOOSE p \in Programs : f = Written(p) ELSE NULL

LEMMA StoredIs == Stored = StoredIn(file) /\ Stored' = StoredIn(file')
BY DEF Stored, StoredIn, Whole

LEMMA SubSeqIs ==
  ASSUME NEW S, NEW s \in Seq(S), NEW n \in Nat, n <= Len(s)
  PROVE  /\ SubSeq(s, 1, n) \in Seq(S) /\ Len(SubSeq(s, 1, n)) = n
         /\ \A k \in 1 .. n : SubSeq(s, 1, n)[k] = s[k]
<1>1. Len(s) \in Nat
  OBVIOUS
<1>2. \A i \in 1 .. n : s[i] \in S
  BY <1>1
<1> QED
  BY <1>1, <1>2, SubSeqProperties

LEMMA SubSeqTwice ==
  ASSUME NEW S, NEW s \in Seq(S), NEW n \in Nat, n <= Len(s), NEW k \in Nat, k <= n
  PROVE  SubSeq(SubSeq(s, 1, n), 1, k) = SubSeq(s, 1, k)
<1> DEFINE t == SubSeq(s, 1, n)
           u == SubSeq(s, 1, k)
           v == SubSeq(t, 1, k)
<1>1. Len(s) \in Nat /\ k <= Len(s)
  OBVIOUS
<1>2. t \in Seq(S) /\ Len(t) = n /\ \A i \in 1 .. n : t[i] = s[i]
  BY SubSeqIs
<1>3. u \in Seq(S) /\ Len(u) = k /\ \A i \in 1 .. k : u[i] = s[i]
  BY <1>1, SubSeqIs
<1> HIDE DEF t
<1>4. v \in Seq(S) /\ Len(v) = k /\ \A i \in 1 .. k : v[i] = t[i]
  BY <1>2, SubSeqIs
<1> HIDE DEF u, v
<1>5. \A i \in 1 .. k : v[i] = u[i]
  BY <1>2, <1>3, <1>4
<1>6. v = u
  BY <1>3, <1>4, <1>5, SameElements
<1> QED
  BY <1>6 DEF t, u, v

LEMMA WrittenIs ==
  ASSUME NEW p \in Programs
  PROVE  /\ IsProgram(p) /\ Written(p) \in Seq(ToSet(Written(p))) /\ Len(Written(p)) = EndAt(p)
         /\ EndAt(p) \in Nat \ {0} /\ Written(p) # NULL
<1>1. IsProgram(p)
  BY ProgramIs
<1>2. Written(p) \in Seq(ToSet(Written(p))) /\ Len(Written(p)) = EndAt(p)
  BY <1>1, WholeHolds
<1>3. EndAt(p) \in Nat /\ ConstAt(p) \in Nat /\ EndAt(p) >= ConstAt(p) + 1
  BY <1>1, Places
<1>4. EndAt(p) # 0
  BY <1>3
<1>5. Written(p) # NULL
  BY NullOK
<1> QED
  BY <1>1, <1>2, <1>3, <1>4, <1>5

LEMMA StoredWhole ==
  ASSUME NEW p \in Programs
  PROVE  StoredIn(Written(p)) = p
<1>1. ASSUME NEW q \in Programs, Written(p) = Written(q) PROVE p = q
  <2>1. IsProgram(p) /\ IsProgram(q)
    BY WrittenIs
  <2>2. Holds(p, Written(p)) /\ Holds(q, Written(p))
    BY <1>1, <2>1, WholeHolds
  <2> QED
    BY <2>1, <2>2, HoldsOne
<1>2. Written(p) # NULL
  BY WrittenIs
<1> QED
  BY <1>1, <1>2 DEF StoredIn

LEMMA StoredNot ==
  ASSUME NEW f, \A p \in Programs : f # Written(p)
  PROVE  StoredIn(f) = NULL
BY DEF StoredIn

\* No part of a program is another.
LEMMA StoredPart ==
  ASSUME NEW p \in Programs, NEW n \in Nat, n < EndAt(p)
  PROVE  StoredIn(SubSeq(Written(p), 1, n)) = NULL
<1> SUFFICES ASSUME NEW q \in Programs, SubSeq(Written(p), 1, n) = Written(q) PROVE FALSE
  BY StoredNot
<1>1. IsProgram(p) /\ IsProgram(q) /\ EndAt(p) \in Nat
  BY WrittenIs
<1>2. n <= EndAt(p) /\ n # EndAt(p)
  BY <1>1
<1> QED
  BY <1>1, <1>2, NoBeginning

LEMMA StoredNoProgram == StoredIn(NotAProgram) = NULL /\ StoredIn(<<>>) = NULL
<1>1. ASSUME NEW p \in Programs PROVE NotAProgram # Written(p) /\ <<>> # Written(p)
  <2>1. EndAt(p) \in Nat \ {0} /\ Len(Written(p)) = EndAt(p) /\ IsProgram(p)
    BY WrittenIs
  <2>2. Holds(p, Written(p))
    BY <2>1, WholeHolds
  <2>3. Written(p) # <<>>
    <3>1. ASSUME NEW w, w = <<>> PROVE Len(w) = 0
      BY <3>1
    <3> QED
      BY <2>1, <3>1
  <2>4. Before(p) \in {0, 1} /\ (p.shebang <=> Before(p) = 1)
    BY <2>1, Places
  <2>5. Written(p)[1] \in {Shebang, Field("magic", "SRS")}
    BY <2>2, <2>4 DEF Holds
  <2>6. NotAProgram[1] = Field("magic", "something else")
    BY DEF NotAProgram
  <2>7. Field("magic", "something else") \notin {Shebang, Field("magic", "SRS")}
    BY DEF Field, Shebang
  <2> QED
    BY <2>3, <2>5, <2>6, <2>7
<1> QED
  BY <1>1, StoredNot

LEMMA FileIsFields ==
  ASSUME NEW f, FileIs(f)
  PROVE  f \in Seq(ToSet(f)) /\ Len(f) \in Nat
<1>1. CASE f = NotAProgram
  <2> DEFINE x == Field("magic", "something else")
  <2>1. f = <<x>>
    BY <1>1 DEF NotAProgram
  <2> HIDE DEF x
  <2>2. f \in Seq({x})
    BY <2>1
  <2> QED
    BY <2>2, IsSequence
<1>2. CASE \E p \in Programs, n \in Nat : n <= EndAt(p) /\ f = SubSeq(Written(p), 1, n)
  <2>1. PICK p \in Programs, n \in Nat : n <= EndAt(p) /\ f = SubSeq(Written(p), 1, n)
    BY <1>2
  <2>2. Written(p) \in Seq(ToSet(Written(p))) /\ Len(Written(p)) = EndAt(p)
    BY <2>1, WrittenIs
  <2>3. f \in Seq(ToSet(Written(p)))
    BY <2>1, <2>2, SubSeqIs
  <2> QED
    BY <2>3, IsSequence
<1>3. CASE f = <<>>
  BY <1>3
<1> QED
  BY <1>1, <1>2, <1>3 DEF FileIs

\* Nothing is at the path for that build.
Nothing(b, f) == StoredIn(f) = NULL \/ ~CanRun(b, StoredIn(f))

\* There is at least the beginning of a program that has too many constants.
TooLarge(f) == \E p \in Programs : Len(p.constants) > MaxConsts /\ IsPrefix(f, Written(p))

\* What the first n fields at the path tell whoever reads them.
Told(b, f, n) ==
  LET a == Deserialized(b, SubSeq(f, 1, n)) IN
  /\ a.at = "refused" => Nothing(b, f)
  /\ a.at = "undefined" => TooLarge(f)
  /\ a.at = "end" /\ b = Wrapper /\ Runtimes(a.prog.ws) = {} => Nothing(b, f)
  /\ a.at = "end" /\ b # Wrapper => /\ a.prog \in Programs /\ StoredIn(f) = a.prog
                                    /\ CanRun(b, a.prog) <=> Loads(a.prog)
                                    /\ Len(a.prog.registers) <= MaxRegs
  /\ n = Len(f) /\ a.at \notin {"end", "refused", "undefined"} => StoredIn(f) = NULL

LEMMA PartTold ==
  ASSUME NEW b \in Builds \cup {Wrapper}, NEW p \in Programs, NEW m \in Nat, m <= EndAt(p),
         NEW f, f = SubSeq(Written(p), 1, m), NEW n \in Nat, n <= m
  PROVE  Told(b, f, n)
<1> DEFINE a == Deserialized(b, SubSeq(f, 1, n))
<1>1. /\ IsProgram(p) /\ Written(p) \in Seq(ToSet(Written(p))) /\ Len(Written(p)) = EndAt(p)
      /\ EndAt(p) \in Nat
  BY WrittenIs
<1>2. Len(f) = m
  BY <1>1, SubSeqIs
<1>3. a = Deserialized(b, SubSeq(Written(p), 1, n))
  BY <1>1, SubSeqTwice
<1>4. Stage(b, p, n, a)
  <2>1. n <= EndAt(p)
    BY <1>1
  <2> QED
    BY <1>1, <1>3, <2>1, BeginningRead
<1> HIDE DEF a
<1>5. StoredIn(f) = NULL \/ (m = EndAt(p) /\ StoredIn(f) = p)
  <2>1. CASE m < EndAt(p)
    BY <2>1, StoredPart
  <2>2. CASE m = EndAt(p)
    <3>1. f = Written(p)
      BY <1>1, <2>2, BeginningsOf
    <3> QED
      BY <2>2, <3>1, StoredWhole
  <2> QED
    BY <1>1, <2>1, <2>2
<1>8. IsPrefix(f, Written(p))
  <2>1. m <= Len(Written(p)) /\ SubSeq(f, 1, m) = f
    <3>1. f \in Seq(ToSet(Written(p)))
      BY <1>1, SubSeqIs
    <3> QED
      BY <1>1, <1>2, <3>1, BeginningsOf
  <2> QED
    BY <1>2, <2>1 DEF IsPrefix
<1>6. CASE b = Wrapper
  <2>1. /\ a.at # "undefined"
        /\ a.at = "refused" => ~CanRun(Wrapper, p)
        /\ a.at = "end" => ~p.shebang /\ a.prog.ws = p.ws
        /\ n = EndAt(p) => a.at \in {"end", "refused"}
    BY <1>1, <1>4, <1>6, WrapperOutcome
  <2>2. a.at = "refused" => Nothing(b, f)
    BY <1>5, <1>6, <2>1 DEF Nothing
  <2>3. a.at = "end" /\ Runtimes(a.prog.ws) = {} => Nothing(b, f)
    <3>1. a.at = "end" /\ Runtimes(a.prog.ws) = {} => ~CanRun(Wrapper, p)
      BY <2>1 DEF CanRun
    <3> QED
      BY <1>5, <1>6, <3>1 DEF Nothing
  <2>4. n = Len(f) /\ a.at \notin {"end", "refused", "undefined"} => StoredIn(f) = NULL
    BY <1>2, <1>5, <2>1
  <2> QED
    BY <1>6, <2>1, <2>2, <2>3, <2>4 DEF Told, a
<1>7. CASE b # Wrapper
  <2>1. \/ a.at = "refused" /\ ~CanRun(b, p)
        \/ a.at = "undefined" /\ Len(p.constants) > MaxConsts
        \/ Outcome(p, n, a) /\ (n = EndAt(p) => (CanRun(b, p) <=> Loads(p)) /\ Len(p.registers) <= MaxRegs)
    BY <1>1, <1>4, <1>7, RuntimeOutcome
  <2>2. a.at = "refused" => Nothing(b, f)
    BY <1>5, <2>1 DEF Nothing, Outcome
  <2>3. a.at = "end" => /\ a.prog \in Programs /\ StoredIn(f) = a.prog
                        /\ CanRun(b, a.prog) <=> Loads(a.prog)
                        /\ Len(a.prog.registers) <= MaxRegs
    <3> SUFFICES ASSUME a.at = "end"
                 PROVE  /\ a.prog \in Programs /\ StoredIn(f) = a.prog
                        /\ CanRun(b, a.prog) <=> Loads(a.prog)
                        /\ Len(a.prog.registers) <= MaxRegs
      OBVIOUS
    <3>1. Outcome(p, n, a) /\ n = EndAt(p) /\ (CanRun(b, p) <=> Loads(p)) /\ Len(p.registers) <= MaxRegs
      BY <2>1 DEF Outcome
    <3>2. a.prog = p
      BY <1>1, <3>1, AtEndIs DEF Outcome
    <3>3. StoredIn(f) = p
      <4>1. m = EndAt(p)
        BY <1>1, <3>1
      <4>2. f = Written(p)
        BY <1>1, <4>1, BeginningsOf
      <4> QED
        BY <4>2, StoredWhole
    <3> QED
      BY <3>1, <3>2, <3>3
  <2>4. n = Len(f) /\ a.at \notin {"end", "refused", "undefined"} => StoredIn(f) = NULL
    BY <1>2, <1>5, <2>1 DEF Outcome
  <2>5. a.at = "undefined" => TooLarge(f)
    BY <1>8, <2>1 DEF Outcome, TooLarge
  <2> QED
    BY <1>7, <2>2, <2>3, <2>4, <2>5 DEF Told, a
<1> QED
  BY <1>6, <1>7

LEMMA FromTheStart ==
  ASSUME NEW b, NEW f
  PROVE  Deserialized(b, SubSeq(f, 1, 0)).at = "magic"
<1>1. SubSeq(f, 1, 0) = <<>>
  OBVIOUS
<1>2. Len(<<>>) = 0
  OBVIOUS
<1>3. PICK r : ReadUpTo(b, <<>>, 0, r) /\ Deserialized(b, <<>>) = r[0]
  BY <1>2, DeserializedIs
<1>4. Deserialized(b, <<>>) = NoFields
  BY <1>3 DEF ReadUpTo
<1>5. NoFields.at = "magic"
  BY DEF NoFields
<1> DEFINE empty == <<>>
<1>6. SubSeq(f, 1, 0) = empty /\ Deserialized(b, empty).at = "magic"
  BY <1>1, <1>4, <1>5
<1> HIDE DEF empty
<1> QED
  BY <1>6

LEMMA FileTold ==
  ASSUME NEW b \in Builds \cup {Wrapper}, NEW f, FileIs(f), NEW n \in Nat, n <= Len(f)
  PROVE  Told(b, f, n)
<1>1. CASE f \in {NotAProgram, <<>>}
  <2>1. StoredIn(f) = NULL
    BY <1>1, StoredNoProgram
  <2>2. CASE n = 0
    <3>1. Deserialized(b, SubSeq(f, 1, n)).at = "magic"
      BY <2>2, FromTheStart
    <3> QED
      BY <2>1, <3>1 DEF Told
  <2>3. CASE n # 0
    <3>1. f = NotAProgram
      <4>1. ASSUME f = <<>> PROVE FALSE
        BY <2>3, <4>1
      <4> QED
        BY <1>1, <4>1
    <3>2. n \in 1 .. Len(NotAProgram)
      <4>1. Len(f) = 1
        BY <3>1 DEF NotAProgram
      <4> QED
        BY <2>3, <3>1, <4>1
    <3>3. Deserialized(b, SubSeq(f, 1, n)).at = "refused"
      BY <3>1, <3>2, NotAProgramRefused
    <3> QED
      BY <2>1, <3>3 DEF Told, Nothing
  <2> QED
    BY <2>2, <2>3
<1>2. CASE \E p \in Programs, m \in Nat : m <= EndAt(p) /\ f = SubSeq(Written(p), 1, m)
  <2>1. PICK p \in Programs, m \in Nat : m <= EndAt(p) /\ f = SubSeq(Written(p), 1, m)
    BY <1>2
  <2>2. Len(f) = m
    <3>1. Written(p) \in Seq(ToSet(Written(p))) /\ Len(Written(p)) = EndAt(p)
      BY WrittenIs
    <3> QED
      BY <2>1, <3>1, SubSeqIs
  <2> QED
    BY <2>1, <2>2, PartTold
<1> QED
  BY <1>1, <1>2 DEF FileIs

-----------------------------------------------------------------------------
\* What the writer's steps leave at the path.

LEMMA BeginsWith ==
  ASSUME NEW F, NEW x \in Seq(F), NEW y \in Seq(F)
  PROVE  /\ x \o y \in Seq(F) /\ Len(x) \in Nat /\ Len(x \o y) = Len(x) + Len(y) /\ Len(x) <= Len(x \o y)
         /\ x = SubSeq(x \o y, 1, Len(x))
<1> DEFINE z == x \o y
           u == SubSeq(z, 1, Len(x))
<1>1. Len(x) \in Nat /\ Len(y) \in Nat
  OBVIOUS
<1>2. z \in Seq(F) /\ Len(z) = Len(x) + Len(y) /\ \A k \in 1 .. Len(x) : z[k] = x[k]
  BY ConcatAt DEF Joined
<1> HIDE DEF z
<1>3. Len(x) <= Len(z)
  BY <1>1, <1>2
<1>4. u \in Seq(F) /\ Len(u) = Len(x) /\ \A k \in 1 .. Len(x) : u[k] = z[k]
  BY <1>1, <1>2, <1>3, SubSeqIs
<1> HIDE DEF u
<1>5. \A k \in 1 .. Len(x) : x[k] = u[k]
  BY <1>2, <1>4
<1>6. x = u
  BY <1>4, <1>5, SameElements
<1> QED
  BY <1>1, <1>2, <1>3, <1>6 DEF z, u

LEMMA AllWritten ==
  ASSUME NEW s \in Sources, NEW p, p = Assembled(s)
  PROVE  p \in Programs /\ Written(p) = Serialized(p) /\ Written(p) \in Seq(AllFields)
<1>1. p.shebang = FALSE
  BY AssembledIs
<1>2. Serialized(p) \in Seq(AllFields)
  BY SerializedInFields
<1> DEFINE w == Serialized(p)
<1>3. Written(p) = <<>> \o w
  BY <1>1 DEF Written
<1> HIDE DEF w
<1>4. w \in Seq(AllFields)
  BY <1>2 DEF w
<1>5. <<>> \o w = w
  BY <1>4
<1> QED
  BY <1>2, <1>3, <1>5 DEF w, Programs

WriterIs(w) == w.pc = "writing" => \E s \in Sources : w.prog = Assembled(s)

\* When n fields more of the buffer reach the file, the program is whole, or there is none
\* at the path, neither before nor after.
Grown(p, f, g) ==
  /\ p \in Programs /\ FileIs(g)
  /\ f \in Seq(AllFields) /\ Len(f) \in Nat /\ Len(f) <= Len(g) /\ f = SubSeq(g, 1, Len(f)) /\ g \in Seq(AllFields)
  /\ \/ g = Written(p)
     \/ StoredIn(f) = NULL /\ StoredIn(g) = NULL

LEMMA GrownIs ==
  ASSUME Inv, WriterIs(writer), writer.pc = "writing", NEW n \in 0 .. Len(writer.buf),
         NEW g, g = file \o SubSeq(writer.buf, 1, n)
  PROVE  /\ Grown(writer.prog, file, g)
         /\ writer.left # <<>> => g # Written(writer.prog)
<1> DEFINE p == writer.prog
           buf == writer.buf
           left == writer.left
           A == AllFields
           rest == SubSeq(buf, n + 1, Len(buf))
           sent == SubSeq(buf, 1, n)
           both == file \o buf
<1>1. PICK s \in Sources : p = Assembled(s)
  BY DEF WriterIs
<1>2. p \in Programs /\ Written(p) = Serialized(p) /\ Written(p) \in Seq(A)
  BY <1>1, AllWritten
<1>3. /\ file \in Seq(A) /\ buf \in Seq(A) /\ left \in Seq(A)
      /\ Written(p) = file \o buf \o left
  BY <1>2 DEF Inv, FileInv, Writers, Writing
<1>4. n \in 0 .. Len(buf)
  OBVIOUS
<1> HIDE DEF p, buf, left, A
<1>5. Len(buf) \in Nat /\ n \in Nat /\ n <= Len(buf)
  BY <1>3, <1>4
<1>6. rest \in Seq(A) /\ g \in Seq(A) /\ g \o rest = both
  <2>1. g = file \o sent
    BY DEF buf
  <2>2. \A k \in 0 .. Len(buf) :
            /\ SubSeq(buf, k + 1, Len(buf)) \in Seq(A)
            /\ file \o SubSeq(buf, 1, k) \in Seq(A)
            /\ (file \o SubSeq(buf, 1, k)) \o SubSeq(buf, k + 1, Len(buf)) = file \o buf
    BY <1>3, FlushMovesNothingElse, ZenonT(60)
  <2> QED
    BY <1>4, <2>1, <2>2, ZenonT(60)
<1>7. sent \in Seq(A)
  BY <1>3, <1>5, SubSeqIs
<1>8. g = file \o sent
  BY DEF buf
<1> HIDE DEF sent, rest, both
<1>9. /\ Len(file) \in Nat /\ Len(file) <= Len(g) /\ file = SubSeq(g, 1, Len(file))
  BY <1>3, <1>7, <1>8, BeginsWith
<1>10. Len(g) \in Nat /\ Len(g) <= Len(both) /\ g = SubSeq(both, 1, Len(g)) /\ both \in Seq(A)
  BY <1>6, BeginsWith
<1>11. Written(p) = both \o left
  BY <1>3 DEF both
<1>12. /\ Len(both) \in Nat /\ Len(Written(p)) = Len(both) + Len(left) /\ Len(both) <= Len(Written(p))
       /\ both = SubSeq(Written(p), 1, Len(both))
  BY <1>3, <1>10, <1>11, BeginsWith
<1>13. Len(Written(p)) = EndAt(p) /\ EndAt(p) \in Nat
  BY <1>2, WrittenIs
<1>14. g = SubSeq(Written(p), 1, Len(g)) /\ Len(g) <= EndAt(p)
  <2>1. SubSeq(SubSeq(Written(p), 1, Len(both)), 1, Len(g)) = SubSeq(Written(p), 1, Len(g))
    BY <1>2, <1>10, <1>12, SubSeqTwice
  <2>2. g = SubSeq(Written(p), 1, Len(g))
    BY <1>10, <1>12, <2>1
  <2>3. Len(g) <= EndAt(p)
    BY <1>10, <1>12, <1>13
  <2> QED
    BY <2>2, <2>3
<1>15. FileIs(g)
  BY <1>2, <1>10, <1>14 DEF FileIs
<1>16. left # <<>> => Len(g) < EndAt(p)
  <2>1. left # <<>> => Len(left) \in Nat \ {0}
    BY <1>3, EmptySeq
  <2> QED
    BY <1>10, <1>12, <1>13, <2>1
<1>17. left # <<>> => g # Written(p)
  <2>1. g = Written(p) => Len(g) = EndAt(p)
    BY <1>13
  <2> QED
    BY <1>13, <1>16, <2>1
<1>18. g = Written(p) \/ (StoredIn(file) = NULL /\ StoredIn(g) = NULL)
  <2>1. CASE Len(g) = EndAt(p)
    <3>1. g = Written(p)
      BY <1>2, <1>13, <1>14, <2>1, BeginningsOf
    <3> QED
      BY <3>1
  <2>2. CASE Len(g) # EndAt(p)
    <3>1. Len(g) < EndAt(p) /\ Len(file) < EndAt(p)
      BY <1>9, <1>10, <1>13, <1>14, <2>2
    <3>2. file = SubSeq(Written(p), 1, Len(file))
      <4>1. SubSeq(SubSeq(Written(p), 1, Len(g)), 1, Len(file)) = SubSeq(Written(p), 1, Len(file))
        BY <1>2, <1>9, <1>10, <1>13, <1>14, SubSeqTwice
      <4> QED
        BY <1>9, <1>14, <4>1
    <3>3. StoredIn(SubSeq(Written(p), 1, Len(g))) = NULL /\ StoredIn(SubSeq(Written(p), 1, Len(file))) = NULL
      BY <1>2, <1>9, <1>10, <3>1, StoredPart
    <3>4. StoredIn(g) = NULL
      BY <1>14, <3>3
    <3>5. StoredIn(file) = NULL
      BY <3>2, <3>3
    <3> QED
      BY <3>4, <3>5
  <2> QED
    BY <2>1, <2>2
<1> QED
  BY <1>2, <1>3, <1>6, <1>9, <1>15, <1>17, <1>18 DEF Grown, p, left, A

-----------------------------------------------------------------------------
\* The invariant of readers: as long as nobody emptied the file, they have read a
\* beginning of what is at the path, and what ran was whole and fitted the machine.

ReaderIs(r, f) ==
  /\ r.pc = "reading" => FileIs(f)
  /\ r.pc = "reading" /\ ~r.torn => /\ r.pos <= Len(f)
                                    /\ Deserialized(r.build, SubSeq(f, 1, r.pos)).at \notin {"end", "refused", "undefined"}
  /\ ~r.torn /\ r.prog # NULL => r.prog \in Programs /\ Loads(r.prog) /\ Len(r.prog.registers) <= MaxRegs

Known == (file # NULL => FileIs(file)) /\ WriterIs(writer) /\ ReaderIs(reader, file)

LEMMA ReaderBegins ==
  ASSUME NEW r, NEW f, FileIs(f), r.pos = 0, r.prog = NULL
  PROVE  ReaderIs(r, f)
<1>1. Len(f) \in Nat
  BY FileIsFields
<1>2. Deserialized(r.build, SubSeq(f, 1, r.pos)).at = "magic"
  BY FromTheStart
<1> QED
  BY <1>1, <1>2 DEF ReaderIs

LEMMA ReaderGrown ==
  ASSUME NEW r, r.pos \in Nat, NEW f, ReaderIs(r, f), NEW p, NEW g, Grown(p, f, g)
  PROVE  ReaderIs(r, g)
<1>1. FileIs(g) /\ Len(f) \in Nat /\ Len(f) <= Len(g) /\ f = SubSeq(g, 1, Len(f)) /\ g \in Seq(AllFields)
  BY DEF Grown
<1>2. ASSUME r.pc = "reading", ~r.torn
      PROVE  r.pos <= Len(g) /\ Deserialized(r.build, SubSeq(g, 1, r.pos)).at \notin {"end", "refused", "undefined"}
  <2>1. r.pos <= Len(f) /\ Deserialized(r.build, SubSeq(f, 1, r.pos)).at \notin {"end", "refused", "undefined"}
    BY <1>2 DEF ReaderIs
  <2>2. SubSeq(SubSeq(g, 1, Len(f)), 1, r.pos) = SubSeq(g, 1, r.pos)
    BY <1>1, <2>1, SubSeqTwice
  <2>3. r.pos <= Len(g)
    BY <1>1, <2>1
  <2> QED
    BY <1>1, <2>1, <2>2, <2>3
<1> QED
  BY <1>1, <1>2 DEF ReaderIs

LEMMA ReaderEmptied ==
  ASSUME NEW r, Readers(r), NEW f, ReaderIs(r, f), NEW q, q = [r EXCEPT !.torn = @ \/ r.pos > 0]
  PROVE  ReaderIs(q, <<>>)
<1>1. /\ q.pc = r.pc /\ q.build = r.build /\ q.pos = r.pos /\ q.prog = r.prog
      /\ r.pos \in Nat /\ (~q.torn => ~r.torn /\ r.pos = 0)
  <2>1. r = [pc |-> r.pc, build |-> r.build, pos |-> r.pos, torn |-> r.torn, prog |-> r.prog] /\ r.pos \in Nat
    BY DEF Readers
  <2>2. PICK t : t = (r.torn \/ r.pos > 0)
    OBVIOUS
  <2>3. q = [r EXCEPT !.torn = t]
    BY <2>2, Zenon
  <2>4. q.pc = r.pc /\ q.build = r.build /\ q.pos = r.pos /\ q.prog = r.prog /\ q.torn = t
    BY <2>1, <2>3
  <2>5. ~t => ~r.torn /\ ~(r.pos > 0)
    BY <2>2, Zenon
  <2>6. ~(r.pos > 0) => r.pos = 0
    BY <2>1
  <2>7. ~q.torn => ~r.torn /\ r.pos = 0
    BY <2>4, <2>5, <2>6, Zenon
  <2> QED
    BY <2>1, <2>4, <2>7
<1>2. FileIs(<<>>)
  BY DEF FileIs
<1>3. ~q.torn => Deserialized(q.build, SubSeq(<<>>, 1, q.pos)).at = "magic"
  BY <1>1, FromTheStart
<1>4. Len(<<>>) = 0
  OBVIOUS
<1>5. ~q.torn => q.pos <= Len(<<>>)
  BY <1>1, <1>4
<1>6. ~q.torn /\ q.prog # NULL => q.prog \in Programs /\ Loads(q.prog) /\ Len(q.prog.registers) <= MaxRegs
  BY <1>1 DEF ReaderIs
<1> QED
  BY <1>2, <1>3, <1>5, <1>6 DEF ReaderIs

LEMMA InitKnown == Init => Known
<1> SUFFICES ASSUME Init PROVE Known
  OBVIOUS
<1>1. reader.pc = "idle" /\ reader.prog = NULL /\ writer.pc = "idle"
  BY DEF Init, NoReader, NoWriter
<1>2. WriterIs(writer) /\ ReaderIs(reader, file)
  BY <1>1 DEF WriterIs, ReaderIs
<1>3. CASE \E s \in Scripts : file = <<Shebang>> \o Serialized(Assembled(s))
  <2>1. PICK s \in Scripts : file = <<Shebang>> \o Serialized(Assembled(s))
    BY <1>3
  <2> DEFINE q == Assembled(s)
             p == [q EXCEPT !.shebang = TRUE]
  <2>2. p \in Programs
    BY DEF Programs
  <2>3. s \in Sources /\ IsProgram(q) /\ q.shebang = FALSE
    BY ProgramFileOK, AssembledIs
  <2>4. Serialized(p) = Serialized(q) /\ p.shebang
    <3> HIDE DEF q
    <3>1. q = [ws |-> q.ws, shebang |-> q.shebang, registers |-> q.registers, vmem |-> q.vmem,
               lmem |-> <<[zlib |-> q.zlib, data |-> "code"]>>, zlib |-> q.zlib, constants |-> q.constants]
      BY <2>3 DEF IsProgram
    <3>2. /\ p.ws = q.ws /\ p.registers = q.registers /\ p.vmem = q.vmem /\ p.lmem = q.lmem
          /\ p.zlib = q.zlib /\ p.constants = q.constants /\ p.shebang
      BY <3>1
    <3> HIDE DEF p
    <3>3. Metadata(p) = Metadata(q) /\ ConstantsFields(p) = ConstantsFields(q)
      BY <3>2 DEF Metadata, ConstantsFields
    <3> QED
      BY <3>2, <3>3 DEF Serialized
  <2>5. file = Written(p)
    <3> HIDE DEF p, q
    <3> QED
      BY <2>1, <2>4 DEF Written, q
  <2> HIDE DEF p
  <2>6. /\ Written(p) \in Seq(ToSet(Written(p))) /\ Len(Written(p)) = EndAt(p) /\ EndAt(p) \in Nat
    BY <2>2, WrittenIs
  <2>7. Written(p) = SubSeq(Written(p), 1, EndAt(p))
    BY <2>6, BeginningsOf
  <2>8. FileIs(file)
    BY <2>2, <2>5, <2>6, <2>7 DEF FileIs
  <2> QED
    BY <1>2, <2>8 DEF Known
<1>4. CASE file \in {NULL, NotAProgram}
  BY <1>2, <1>4 DEF Known, FileIs
<1> QED
  BY <1>3, <1>4 DEF Init

-----------------------------------------------------------------------------
\* The steps of the store, in the terms of the files.

Job == IF writer.pc = "writing" THEN writer.prog ELSE NULL
SameReader == reader'.build = reader.build /\ reader'.prog = reader.prog

LEMMA IsBegin ==
  ASSUME Job = NULL, Job' # NULL, Stored' = NULL, SameReader
  PROVE  Store!Next
<1>1. Store!Begin
  BY DEF Store!Begin, Job, SameReader
<1> QED
  BY <1>1 DEF Store!Next

LEMMA IsLost ==
  ASSUME Job = NULL, Job' = NULL, Stored' = NULL, SameReader
  PROVE  Store!Next
<1>1. Store!Lost
  BY DEF Store!Lost, Job, SameReader
<1> QED
  BY <1>1 DEF Store!Next

LEMMA IsArrive ==
  ASSUME Job # NULL, Job' \in {Job, NULL}, Stored' = Job, SameReader
  PROVE  Store!Next
<1>1. Store!Arrive
  BY DEF Store!Arrive, Job, SameReader
<1> QED
  BY <1>1 DEF Store!Next

LEMMA IsEnd ==
  ASSUME Job # NULL, Job' = NULL, Stored' = Stored, SameReader
  PROVE  Store!Next
<1>1. Store!End
  BY DEF Store!End, Job, SameReader
<1> QED
  BY <1>1 DEF Store!Next

LEMMA IsStutter ==
  ASSUME Job' = Job, Stored' = Stored, SameReader
  PROVE  UNCHANGED Store!vars
BY DEF Store!vars, Job, SameReader

LEMMA IsAsk ==
  ASSUME reader'.build # NULL, reader'.prog = NULL, Job' = Job, Stored' = Stored
  PROVE  Store!Next
<1>1. Store!Ask
  BY DEF Store!Ask, Job
<1> QED
  BY <1>1 DEF Store!Next

LEMMA IsAnswer ==
  ASSUME reader.build # NULL, reader'.build = NULL, Job' = Job, Stored' = Stored,
         reader'.prog = IF Stored # NULL /\ CanRun(reader.build, Stored) THEN Stored ELSE NULL
  PROVE  Store!Next
<1>1. Store!Answer
  BY DEF Store!Answer, Job
<1> QED
  BY <1>1 DEF Store!Next

LEMMA JobIs ==
  ASSUME WriterIs(writer), writer.pc = "writing"
  PROVE  Job = writer.prog /\ writer.prog \in Programs /\ Job # NULL
<1>1. PICK s \in Sources : writer.prog = Assembled(s)
  BY DEF WriterIs
<1>2. writer.prog \in Programs
  BY <1>1 DEF Programs
<1> QED
  BY <1>2, NullOK DEF Job

LEMMA EmptiedIs ==
  ASSUME Inv, Known, Emptied
  PROVE  FileIs(file') /\ ReaderIs(reader', file') /\ Stored' = NULL /\ SameReader
<1>1. Readers(reader) /\ ReaderIs(reader, file)
  BY DEF Inv, Known
<1>2. file' = <<>> /\ reader' = [reader EXCEPT !.torn = @ \/ reader.pos > 0]
  BY DEF Emptied
<1>3. ReaderIs(reader', <<>>)
  BY <1>1, <1>2, ReaderEmptied
<1>4. FileIs(<<>>)
  BY DEF FileIs
<1>5. Stored' = NULL
  BY <1>2, StoredIs, StoredNoProgram
<1>6. SameReader
  BY <1>1, <1>2 DEF Readers, SameReader
<1> QED
  BY <1>2, <1>3, <1>4, <1>5, <1>6

Step == ~reader'.torn /\ ~Dies => Store!Next \/ UNCHANGED Store!vars

LEMMA OpenStep == ASSUME Inv, Known, NEW s \in Sources, Open(s) PROVE Known' /\ Step
<1>1. FileIs(file') /\ ReaderIs(reader', file') /\ Stored' = NULL /\ SameReader
  BY EmptiedIs DEF Open
<1>2. writer'.prog = Assembled(s) /\ writer'.pc = "writing" /\ writer.pc # "writing"
  BY DEF Open
<1>3. WriterIs(writer')
  BY <1>2 DEF WriterIs
<1>4. Known'
  BY <1>1, <1>3 DEF Known
<1>5. Job = NULL /\ Job' # NULL
  BY <1>2, NullOK DEF Job, Programs
<1>6. Store!Next
  BY <1>1, <1>5, IsBegin
<1> QED
  BY <1>4, <1>6 DEF Step

LEMMA OpenNothingStep == ASSUME Inv, Known, OpenNothing PROVE Known' /\ Step
<1>1. FileIs(file') /\ ReaderIs(reader', file') /\ Stored' = NULL /\ SameReader
  BY EmptiedIs DEF OpenNothing
<1>2. writer'.pc # "writing" /\ writer.pc # "writing"
  BY DEF OpenNothing, NoWriter
<1>3. WriterIs(writer')
  BY <1>2 DEF WriterIs
<1>4. Known'
  BY <1>1, <1>3 DEF Known
<1>5. Job = NULL /\ Job' = NULL
  BY <1>2 DEF Job
<1>6. Store!Next
  BY <1>1, <1>5, IsLost
<1> QED
  BY <1>4, <1>6 DEF Step

\* Steps that leave the file and the reader alone.
LEMMA FileStays ==
  ASSUME Known, UNCHANGED <<file, reader>>, WriterIs(writer')
  PROVE  Known' /\ Stored' = Stored /\ SameReader
<1>1. Known'
  BY DEF Known
<1>2. Stored' = Stored
  BY StoredIs
<1> QED
  BY <1>1, <1>2 DEF SameReader

LEMMA FwriteStep == ASSUME Inv, Known, Fwrite PROVE Known' /\ Step
<1>1. writer'.pc = writer.pc /\ writer'.prog = writer.prog
  BY DEF Fwrite, Inv, FileInv, Writers
<1>2. WriterIs(writer')
  BY <1>1 DEF Known, WriterIs
<1>3. Known' /\ Stored' = Stored /\ SameReader
  BY <1>2, FileStays DEF Fwrite
<1>4. Job' = Job
  BY <1>1 DEF Job
<1> QED
  BY <1>3, <1>4, IsStutter DEF Step

LEMMA KillStep == ASSUME Inv, Known, Kill PROVE Known' /\ Step
<1>1. writer'.pc # "writing" /\ writer.pc = "writing"
  BY DEF Kill, NoWriter
<1>2. WriterIs(writer')
  BY <1>1 DEF WriterIs
<1>3. Known' /\ Stored' = Stored /\ SameReader
  BY <1>2, FileStays DEF Kill
<1>4. Job' = NULL
  BY <1>1 DEF Job
<1>5. Job # NULL
  BY <1>1, JobIs DEF Known
<1> QED
  BY <1>3, <1>4, <1>5, IsEnd DEF Step

LEMMA DiskStep == ASSUME Inv, Known, Disk PROVE Known' /\ Step
<1>1. writer'.pc = writer.pc /\ writer'.prog = writer.prog
  <2>1. writer \in Writers
    BY DEF Inv, FileInv
  <2>2. \E t : writer' = [writer EXCEPT !.wasFull = t]
    BY DEF Disk
  <2> QED
    BY <2>1, <2>2 DEF Writers
<1>2. WriterIs(writer')
  BY <1>1 DEF Known, WriterIs
<1>3. Known' /\ Stored' = Stored /\ SameReader
  BY <1>2, FileStays DEF Disk
<1>4. Job' = Job
  BY <1>1 DEF Job
<1> QED
  BY <1>3, <1>4, IsStutter DEF Step

\* Steps in which some of the buffer reaches the file.
LEMMA FileGrows ==
  ASSUME Inv, Known, writer.pc = "writing", NEW n \in 0 .. Len(writer.buf), Reaches(n),
         UNCHANGED reader, WriterIs(writer')
  PROVE  /\ Known' /\ SameReader
         /\ \/ Stored' = writer.prog /\ writer.left = <<>>
            \/ Stored' = NULL /\ Stored = NULL
<1>1. file' = file \o SubSeq(writer.buf, 1, n)
  BY DEF Reaches
<1>2. /\ Grown(writer.prog, file, file')
      /\ writer.left # <<>> => file' # Written(writer.prog)
  BY <1>1, GrownIs DEF Known
<1>3. reader.pos \in Nat /\ ReaderIs(reader, file)
  BY DEF Inv, Readers, Known
<1>4. ReaderIs(reader, file')
  BY <1>2, <1>3, ReaderGrown
<1>5. ReaderIs(reader', file')
  BY <1>4
<1>6. Known'
  BY <1>2, <1>5 DEF Known, Grown
<1>7. CASE file' = Written(writer.prog)
  <2>1. Stored' = writer.prog
    BY <1>2, <1>7, StoredIs, StoredWhole DEF Grown
  <2> QED
    BY <1>2, <1>6, <1>7, <2>1 DEF SameReader
<1>8. CASE file' # Written(writer.prog)
  BY <1>2, <1>6, <1>8, StoredIs DEF SameReader, Grown
<1> QED
  BY <1>7, <1>8

LEMMA FlushStep == ASSUME Inv, Known, Flush PROVE Known' /\ Step
<1>1. PICK n \in 1 .. Len(writer.buf) : Reaches(n)
  BY DEF Flush
<1>2. n \in 0 .. Len(writer.buf)
  BY <1>1
<1>3. writer.pc = "writing" /\ writer'.pc = writer.pc /\ writer'.prog = writer.prog
  BY DEF Flush, Inv, FileInv, Writers
<1>4. WriterIs(writer')
  BY <1>3 DEF Known, WriterIs
<1>5. /\ Known' /\ SameReader
      /\ Stored' = writer.prog \/ (Stored' = NULL /\ Stored = NULL)
  BY <1>1, <1>2, <1>3, <1>4, FileGrows DEF Flush
<1>6. Job' = Job /\ Job = writer.prog /\ Job # NULL
  BY <1>3, JobIs DEF Job, Known
<1>7. CASE Stored' = writer.prog
  BY <1>5, <1>6, <1>7, IsArrive DEF Step
<1>8. CASE Stored' = NULL /\ Stored = NULL
  BY <1>5, <1>6, <1>8, IsStutter DEF Step
<1> QED
  BY <1>5, <1>7, <1>8

LEMMA FwriteFailsStep == ASSUME Inv, Known, FwriteFails PROVE Known' /\ Step
<1>1. PICK n \in 0 .. Len(writer.buf) : Reaches(n)
  BY DEF FwriteFails
<1>2. writer.pc = "writing" /\ writer'.pc # "writing" /\ writer.left # <<>>
  BY DEF FwriteFails, NoWriter
<1>3. WriterIs(writer')
  BY <1>2 DEF WriterIs
<1>4. /\ Known' /\ SameReader
      /\ \/ Stored' = writer.prog /\ writer.left = <<>>
         \/ Stored' = NULL /\ Stored = NULL
  BY <1>1, <1>2, <1>3, FileGrows DEF FwriteFails
<1>5. Job' = NULL
  BY <1>2 DEF Job
<1>6. Job # NULL
  BY <1>2, JobIs DEF Known
<1> QED
  BY <1>2, <1>4, <1>5, <1>6, IsEnd DEF Step

LEMMA CloseStep == ASSUME Inv, Known, Close PROVE Known' /\ Step
<1>1. PICK n \in 0 .. Len(writer.buf) : Reaches(n)
  BY DEF Close
<1>2. writer.pc = "writing" /\ writer'.pc # "writing"
  BY DEF Close, NoWriter
<1>3. WriterIs(writer')
  BY <1>2 DEF WriterIs
<1>4. /\ Known' /\ SameReader
      /\ Stored' = writer.prog \/ (Stored' = NULL /\ Stored = NULL)
  BY <1>1, <1>2, <1>3, FileGrows DEF Close
<1>5. Job' = NULL
  BY <1>2 DEF Job
<1>6. Job # NULL /\ Job = writer.prog
  BY <1>2, JobIs DEF Known
<1>7. CASE Stored' = writer.prog
  BY <1>4, <1>5, <1>6, <1>7, IsArrive DEF Step
<1>8. CASE Stored' = NULL /\ Stored = NULL
  BY <1>4, <1>5, <1>6, <1>8, IsEnd DEF Step
<1> QED
  BY <1>4, <1>7, <1>8

\* The steps of a reader.
LEMMA ReaderSteps ==
  ASSUME Known, UNCHANGED <<file, writer>>, ReaderIs(reader', file)
  PROVE  Known' /\ Stored' = Stored /\ Job' = Job
<1>1. ReaderIs(reader', file') /\ WriterIs(writer')
  BY DEF Known
<1>2. Known'
  BY <1>1 DEF Known
<1>3. Stored' = Stored
  BY StoredIs
<1> QED
  BY <1>2, <1>3 DEF Job

LEMMA StartStep == ASSUME Inv, Known, NEW b \in Builds \cup {Wrapper}, Start(b) PROVE Known' /\ Step
<1>1. FileIs(file)
  BY DEF Known, Start
<1>2. reader'.build = b /\ reader'.pos = 0 /\ reader'.prog = NULL
  BY DEF Start, NoReader
<1>3. ReaderIs(reader', file)
  BY <1>1, <1>2, ReaderBegins
<1>4. Known' /\ Stored' = Stored /\ Job' = Job
  BY <1>3, ReaderSteps DEF Start
<1>5. b # NULL
  BY ProgramFileOK
<1> QED
  BY <1>2, <1>4, <1>5, IsAsk DEF Step

\* A reader that ends answers, with what it ran.
LEMMA EndsStep ==
  ASSUME Inv, Known, UNCHANGED <<file, writer>>, reader.pc = "reading",
         reader'.pc = "idle", reader'.build = NULL,
         ~reader'.torn => /\ reader'.prog = IF Stored # NULL /\ CanRun(reader.build, Stored) THEN Stored ELSE NULL
                          /\ reader'.prog # NULL => /\ reader'.prog \in Programs /\ Loads(reader'.prog)
                                                    /\ Len(reader'.prog.registers) <= MaxRegs
  PROVE  Known' /\ Step
<1>1. ReaderIs(reader', file)
  BY DEF ReaderIs
<1>2. Known' /\ Stored' = Stored /\ Job' = Job
  BY <1>1, ReaderSteps
<1>3. reader.build # NULL
  BY DEF Inv, Readers
<1>4. ~reader'.torn => Store!Next
  BY <1>2, <1>3, IsAnswer
<1> QED
  BY <1>2, <1>4 DEF Step

LEMMA EndsIs ==
  ASSUME NEW p
  PROVE  Ends(p).pc = "idle" /\ Ends(p).build = NULL /\ Ends(p).prog = p
BY DEF Ends, NoReader

TornEnds(p, t) == [Ends(p) EXCEPT !.torn = t]

LEMMA EndsTornIs ==
  ASSUME NEW p, NEW t
  PROVE  /\ TornEnds(p, t).pc = "idle" /\ TornEnds(p, t).build = NULL
         /\ TornEnds(p, t).prog = p /\ TornEnds(p, t).torn = t
<1> DEFINE w == NoReader
<1>1. PICK f : w = [pc |-> "idle", build |-> NULL, pos |-> 0, torn |-> f, prog |-> NULL]
  BY DEF NoReader
<1>2. Ends(p) = [w EXCEPT !.prog = p]
  BY DEF Ends
<1> HIDE DEF w
<1>3. Ends(p) = [pc |-> "idle", build |-> NULL, pos |-> 0, torn |-> f, prog |-> p]
  BY <1>1, <1>2
<1>4. TornEnds(p, t) = [pc |-> "idle", build |-> NULL, pos |-> 0, torn |-> t, prog |-> p]
  BY <1>3 DEF TornEnds
<1> QED
  BY <1>4

LEMMA NothingEnds ==
  ASSUME NEW b, Nothing(b, file)
  PROVE  NULL = IF Stored # NULL /\ CanRun(b, Stored) THEN Stored ELSE NULL
BY StoredIs DEF Nothing

LEMMA ReadsIs ==
  ASSUME NEW n, NEW a, a = Deserialized(reader.build, SubSeq(file, 1, n))
  PROVE  /\ a.at = "refused" => Reads(n) = {Ends(NULL)}
         /\ a.at = "end" /\ reader.build = Wrapper /\ Runtimes(a.prog.ws) = {} => Reads(n) = {Ends(NULL)}
         /\ a.at = "end" /\ reader.build = Wrapper /\ Runtimes(a.prog.ws) # {} =>
              Reads(n) = {[NoReader EXCEPT !.pc = "reading", !.build = b] : b \in Runtimes(a.prog.ws)}
         /\ a.at = "end" /\ reader.build # Wrapper => Reads(n) = {Ends(IF Loads(a.prog) THEN a.prog ELSE NULL)}
         /\ a.at = "undefined" => Reads(n) = {[Ends(NULL) EXCEPT !.pc = "undefined"]}
         /\ a.at \notin {"end", "refused", "undefined"} => Reads(n) = {[reader EXCEPT !.pos = n]}
<1>1. a.at = "refused" => Reads(n) = {Ends(NULL)}
  BY Zenon DEF Reads
<1>2. a.at = "end" => a.at \notin {"refused", "undefined"}
  OBVIOUS
<1>7. a.at = "undefined" => Reads(n) = {[Ends(NULL) EXCEPT !.pc = "undefined"]}
  <2>1. a.at = "undefined" => a.at \notin {"end", "refused"}
    OBVIOUS
  <2> QED
    BY <2>1, Zenon DEF Reads
<1>3. a.at = "end" /\ reader.build = Wrapper /\ Runtimes(a.prog.ws) = {} => Reads(n) = {Ends(NULL)}
  BY <1>2, Zenon DEF Reads
<1>4. a.at = "end" /\ reader.build = Wrapper /\ Runtimes(a.prog.ws) # {} =>
        Reads(n) = {[NoReader EXCEPT !.pc = "reading", !.build = b] : b \in Runtimes(a.prog.ws)}
  BY <1>2, Zenon DEF Reads
<1>5. a.at = "end" /\ reader.build # Wrapper => Reads(n) = {Ends(IF Loads(a.prog) THEN a.prog ELSE NULL)}
  BY <1>2, Zenon DEF Reads
<1>6. a.at \notin {"end", "refused", "undefined"} => Reads(n) = {[reader EXCEPT !.pos = n]}
  BY Zenon DEF Reads
<1> QED
  BY <1>1, <1>3, <1>4, <1>5, <1>6, <1>7, Zenon

LEMMA DiesIs ==
  ASSUME NEW r, r = [Ends(NULL) EXCEPT !.pc = "undefined"]
  PROVE  r.pc = "undefined" /\ r.prog = NULL
<1>1. r = [pc |-> "undefined", build |-> NULL, pos |-> 0, torn |-> FALSE, prog |-> NULL]
  BY DEF Ends, NoReader
<1> QED
  BY <1>1

LEMMA ReadStep == ASSUME Inv, Known, Read PROVE Known' /\ Step
<1>1. PICK n \in reader.pos + 1 .. Len(file) : reader' \in Reads(n)
  BY DEF Read
<1> DEFINE b == reader.build
           a == Deserialized(b, SubSeq(file, 1, n))
<1>2. /\ Readers(reader) /\ reader.pos \in Nat /\ b \in Builds \cup {Wrapper}
      /\ reader.pc = "reading" /\ ~reader.torn /\ UNCHANGED <<file, writer>>
  BY DEF Inv, Readers, Read
<1>3. FileIs(file) /\ Len(file) \in Nat
  BY <1>2, FileIsFields DEF Known, ReaderIs
<1>4. n \in Nat /\ n <= Len(file)
  BY <1>1, <1>2, <1>3
<1>5. Told(b, file, n)
  BY <1>2, <1>3, <1>4, FileTold
<1>6. a = Deserialized(reader.build, SubSeq(file, 1, n))
  OBVIOUS
<1>7. /\ a.at = "refused" => Nothing(b, file)
      /\ a.at = "end" /\ b = Wrapper /\ Runtimes(a.prog.ws) = {} => Nothing(b, file)
      /\ a.at = "end" /\ b # Wrapper => /\ a.prog \in Programs /\ StoredIn(file) = a.prog
                                        /\ CanRun(b, a.prog) <=> Loads(a.prog)
                                        /\ Len(a.prog.registers) <= MaxRegs
  BY <1>5 DEF Told
<1> HIDE DEF a
<1>8. CASE Nothing(b, file) /\ reader' = Ends(NULL)
  <2>1. reader'.pc = "idle" /\ reader'.build = NULL /\ reader'.prog = NULL
    BY <1>8, EndsIs
  <2>2. NULL = IF Stored # NULL /\ CanRun(reader.build, Stored) THEN Stored ELSE NULL
    BY <1>8, NothingEnds
  <2> QED
    BY <1>2, <2>1, <2>2, EndsStep
<1>9. CASE a.at = "refused"
  <2>1. reader' = Ends(NULL)
    <3>1. Reads(n) = {Ends(NULL)}
      BY <1>6, <1>9, ReadsIs, Zenon
    <3> QED
      BY <1>1, <3>1
  <2> QED
    BY <1>7, <1>8, <1>9, <2>1
<1>10. CASE a.at = "end" /\ b = Wrapper
  <2>1. CASE Runtimes(a.prog.ws) = {}
    <3>1. reader' = Ends(NULL)
      <4>1. Reads(n) = {Ends(NULL)}
        BY <1>6, <1>10, <2>1, ReadsIs, Zenon
      <4> QED
        BY <1>1, <4>1
    <3> QED
      BY <1>7, <1>8, <1>10, <2>1, <3>1
  <2>2. CASE Runtimes(a.prog.ws) # {}
    <3>1. PICK c \in Runtimes(a.prog.ws) : reader' = [NoReader EXCEPT !.pc = "reading", !.build = c]
      <4>1. Reads(n) = {[NoReader EXCEPT !.pc = "reading", !.build = d] : d \in Runtimes(a.prog.ws)}
        BY <1>6, <1>10, <2>2, ReadsIs
      <4> QED
        BY <1>1, <4>1
    <3>2. reader'.build = c /\ reader'.pos = 0 /\ reader'.prog = NULL
      BY <3>1 DEF NoReader
    <3>3. c # NULL
      BY ProgramFileOK DEF Runtimes
    <3>4. ReaderIs(reader', file)
      BY <1>3, <3>2, ReaderBegins
    <3>5. Known' /\ Stored' = Stored /\ Job' = Job
      BY <1>2, <3>4, ReaderSteps
    <3> QED
      BY <3>2, <3>3, <3>5, IsAsk DEF Step
  <2> QED
    BY <2>1, <2>2
<1>11. CASE a.at = "end" /\ b # Wrapper
  <2>1. reader' = Ends(IF Loads(a.prog) THEN a.prog ELSE NULL)
    <3>1. Reads(n) = {Ends(IF Loads(a.prog) THEN a.prog ELSE NULL)}
      BY <1>6, <1>11, ReadsIs, Zenon
    <3> QED
      BY <1>1, <3>1
  <2>2. /\ a.prog \in Programs /\ StoredIn(file) = a.prog /\ (CanRun(b, a.prog) <=> Loads(a.prog))
        /\ Len(a.prog.registers) <= MaxRegs
    BY <1>7, <1>11
  <2>3. reader'.pc = "idle" /\ reader'.build = NULL /\ reader'.prog = IF Loads(a.prog) THEN a.prog ELSE NULL
    BY <2>1, EndsIs
  <2>4. Stored = a.prog /\ a.prog # NULL
    BY <2>2, StoredIs, NullOK
  <2>5. reader'.prog = IF Stored # NULL /\ CanRun(b, Stored) THEN Stored ELSE NULL
    BY <2>2, <2>3, <2>4
  <2>6. reader'.prog # NULL => /\ reader'.prog \in Programs /\ Loads(reader'.prog)
                               /\ Len(reader'.prog.registers) <= MaxRegs
    BY <2>2, <2>3
  <2> QED
    BY <1>2, <2>3, <2>5, <2>6, EndsStep
<1>13. CASE a.at = "undefined"
  <2>1. reader' = [Ends(NULL) EXCEPT !.pc = "undefined"]
    BY <1>1, <1>6, <1>13, ReadsIs
  <2>2. reader'.pc = "undefined" /\ reader'.prog = NULL
    BY <2>1, DiesIs
  <2>3. ReaderIs(reader', file)
    BY <2>2 DEF ReaderIs
  <2>4. Known'
    BY <1>2, <2>3, ReaderSteps
  <2>5. Dies
    BY <1>2, <2>2 DEF Dies
  <2> QED
    BY <2>4, <2>5 DEF Step
<1>12. CASE a.at \notin {"end", "refused", "undefined"}
  <2>1. reader' = [reader EXCEPT !.pos = n]
    BY <1>1, <1>6, <1>12, ReadsIs
  <2>2. /\ reader'.pc = reader.pc /\ reader'.build = reader.build /\ reader'.pos = n
        /\ reader'.torn = reader.torn /\ reader'.prog = reader.prog
    BY <1>2, <2>1 DEF Readers
  <2>3. ReaderIs(reader', file)
    <3>1. ~reader.torn /\ reader.prog # NULL => /\ reader.prog \in Programs /\ Loads(reader.prog)
                                                /\ Len(reader.prog.registers) <= MaxRegs
      BY DEF Known, ReaderIs
    <3>2. ~reader'.torn /\ reader'.prog # NULL => /\ reader'.prog \in Programs /\ Loads(reader'.prog)
                                                  /\ Len(reader'.prog.registers) <= MaxRegs
      BY <2>2, <3>1
    <3>3. reader'.pos <= Len(file) /\ Deserialized(reader'.build, SubSeq(file, 1, reader'.pos)).at \notin {"end", "refused", "undefined"}
      BY <1>4, <1>6, <1>12, <2>2
    <3> QED
      BY <1>3, <3>2, <3>3 DEF ReaderIs
  <2>4. Known' /\ Stored' = Stored /\ Job' = Job
    BY <1>2, <2>3, ReaderSteps
  <2>5. SameReader
    BY <2>2 DEF SameReader
  <2> QED
    BY <2>4, <2>5, IsStutter DEF Step
<1> QED
  BY <1>9, <1>10, <1>11, <1>12, <1>13

LEMMA ReadShortStep == ASSUME Inv, Known, ReadShort PROVE Known' /\ Step
<1>1. /\ reader.pos \in Nat /\ reader.build \in Builds \cup {Wrapper} /\ reader.pc = "reading"
      /\ UNCHANGED <<file, writer>>
  BY DEF Inv, Readers, ReadShort
<1>2. FileIs(file) /\ Len(file) \in Nat
  BY <1>1, FileIsFields DEF Known, ReaderIs
<1>3. reader'.pc = "idle" /\ reader'.build = NULL /\ reader'.prog = NULL /\ reader'.torn = reader.torn
  <2>1. reader' = TornEnds(NULL, reader.torn)
    BY DEF ReadShort, TornEnds
  <2> QED
    BY <2>1, EndsTornIs
<1>4. ASSUME ~reader.torn PROVE Stored = NULL
  <2>1. /\ reader.pos <= Len(file) /\ reader.pos >= Len(file)
        /\ Deserialized(reader.build, SubSeq(file, 1, reader.pos)).at \notin {"end", "refused", "undefined"}
    BY <1>1, <1>4 DEF Known, ReaderIs, ReadShort
  <2>2. reader.pos = Len(file)
    BY <1>1, <1>2, <2>1
  <2>3. Told(reader.build, file, reader.pos)
    BY <1>1, <1>2, <2>1, FileTold
  <2>4. StoredIn(file) = NULL
    BY <2>1, <2>2, <2>3 DEF Told
  <2> QED
    BY <2>4, StoredIs
<1>5. ~reader'.torn => reader'.prog = IF Stored # NULL /\ CanRun(reader.build, Stored) THEN Stored ELSE NULL
  BY <1>3, <1>4
<1> QED
  BY <1>1, <1>3, <1>5, EndsStep

LEMMA ReadTornStep == ASSUME Inv, Known, ReadTorn PROVE Known' /\ Step
<1>1. PICK p, t : reader' = TornEnds(p, t) /\ t = TRUE
  BY DEF ReadTorn, TornEnds
<1>2. reader'.pc = "idle" /\ reader'.build = NULL /\ reader'.torn = t
  BY <1>1, EndsTornIs
<1>3. reader'.torn
  BY <1>1, <1>2
<1> QED
  BY <1>2, <1>3, EndsStep DEF ReadTorn

LEMMA NextKnown ==
  ASSUME Inv, Known, [Next]_vars
  PROVE  Known' /\ Step
<1>1. CASE UNCHANGED vars
  <2>1. WriterIs(writer') /\ UNCHANGED <<file, reader>> /\ writer' = writer
    BY <1>1 DEF vars, Known
  <2>2. Known' /\ Stored' = Stored /\ SameReader
    BY <2>1, FileStays
  <2>3. Job' = Job
    BY <2>1 DEF Job
  <2> QED
    BY <2>2, <2>3, IsStutter DEF Step
<1> QED
  BY <1>1, OpenStep, OpenNothingStep, FwriteStep, FlushStep, FwriteFailsStep, CloseStep, KillStep, DiskStep,
     StartStep, ReadStep, ReadShortStep, ReadTornStep DEF Next

\* Only the reading of a field ends so, and only of a program that is too large.
LEMMA ReadDies == ASSUME Inv, Known, Read, Dies PROVE Oversized
<1>1. PICK n \in reader.pos + 1 .. Len(file) : reader' \in Reads(n)
  BY DEF Read
<1> DEFINE a == Deserialized(reader.build, SubSeq(file, 1, n))
<1>2. /\ Readers(reader) /\ reader.pos \in Nat /\ reader.build \in Builds \cup {Wrapper}
      /\ reader.pc = "reading" /\ reader'.pc = "undefined"
  BY DEF Inv, Readers, Read, Dies
<1>3. FileIs(file) /\ Len(file) \in Nat
  BY <1>2, FileIsFields DEF Known, ReaderIs
<1>4. n \in Nat /\ n <= Len(file)
  BY <1>1, <1>2, <1>3
<1>5. a.at = "undefined" => TooLarge(file)
  BY <1>2, <1>3, <1>4, FileTold DEF Told
<1>6. a = Deserialized(reader.build, SubSeq(file, 1, n))
  OBVIOUS
<1> HIDE DEF a
<1>7. ASSUME NEW p, reader' = Ends(p) PROVE FALSE
  BY <1>2, <1>7, EndsIs
<1>8. a.at # "refused"
  BY <1>1, <1>6, <1>7, ReadsIs
<1>9. CASE a.at = "end"
  <2>1. CASE reader.build = Wrapper /\ Runtimes(a.prog.ws) # {}
    <3>1. PICK c \in Runtimes(a.prog.ws) : reader' = [NoReader EXCEPT !.pc = "reading", !.build = c]
      <4>1. Reads(n) = {[NoReader EXCEPT !.pc = "reading", !.build = d] : d \in Runtimes(a.prog.ws)}
        BY <1>6, <1>9, <2>1, ReadsIs
      <4> QED
        BY <1>1, <4>1
    <3>2. reader'.pc = "reading"
      BY <3>1 DEF NoReader
    <3> QED
      BY <1>2, <3>2
  <2>2. CASE reader.build = Wrapper /\ Runtimes(a.prog.ws) = {}
    <3>1. Reads(n) = {Ends(NULL)}
      BY <1>6, <1>9, <2>2, ReadsIs
    <3> QED
      BY <1>1, <1>7, <3>1
  <2>3. CASE reader.build # Wrapper
    <3>1. Reads(n) = {Ends(IF Loads(a.prog) THEN a.prog ELSE NULL)}
      BY <1>6, <1>9, <2>3, ReadsIs
    <3> QED
      BY <1>1, <1>7, <3>1
  <2> QED
    BY <2>1, <2>2, <2>3
<1>10. CASE a.at \notin {"end", "refused", "undefined"}
  <2>1. reader' = [reader EXCEPT !.pos = n]
    BY <1>1, <1>6, <1>10, ReadsIs
  <2>2. reader'.pc = reader.pc
    BY <1>2, <2>1 DEF Readers
  <2> QED
    BY <1>2, <2>2
<1> QED
  BY <1>5, <1>8, <1>9, <1>10 DEF TooLarge, Oversized

LEMMA DiesOversized ==
  ASSUME Inv, Known, [Next]_vars, ~reader'.torn, Dies
  PROVE  Oversized
<1>1. reader.pc = "reading" /\ reader'.pc = "undefined" /\ Readers(reader)
  BY DEF Dies, Inv
<1>2. ~Emptied
  <2>1. ASSUME Emptied PROVE reader'.pc = reader.pc
    BY <1>1, <2>1 DEF Emptied, Readers
  <2> QED
    BY <1>1, <2>1
<1>3. ~UNCHANGED reader
  BY <1>1
<1>4. ~ReadShort
  <2>1. ASSUME ReadShort PROVE reader'.pc = "idle"
    <3>1. reader' = TornEnds(NULL, reader.torn)
      BY <2>1 DEF ReadShort, TornEnds
    <3> QED
      BY <3>1, EndsTornIs
  <2> QED
    BY <1>1, <2>1
<1>5. ~ReadTorn
  <2>1. ASSUME ReadTorn PROVE reader'.torn
    <3>1. PICK p, t : reader' = TornEnds(p, t) /\ t = TRUE
      BY <2>1 DEF ReadTorn, TornEnds
    <3> QED
      BY <3>1, EndsTornIs
  <2> QED
    BY <2>1
<1>6. \A b : ~Start(b)
  BY <1>1 DEF Start
<1>7. Read
  BY <1>2, <1>3, <1>4, <1>5, <1>6
     DEF Next, Open, OpenNothing, Fwrite, Flush, FwriteFails, Close, Kill, Disk, vars
<1> QED
  BY <1>7, ReadDies

LEMMA KnownInvariant == Spec => [](Inv /\ Known)
<1>1. Init => Inv /\ Known
  BY InitInv, InitKnown
<1>2. Inv /\ Known /\ [Next]_vars => (Inv /\ Known)'
  BY NextInv, NextKnown
<1> QED
  BY <1>1, <1>2, PTL DEF Spec

-----------------------------------------------------------------------------
\* What a machine finds of a string: its text, without the bytes behind it.

LEMMA CStringIs ==
  ASSUME NEW D, NEW s \in Seq(D)
  PROVE  /\ (\A i \in 1 .. Len(s) : s[i] # "NUL") => CString(s) = 0
         /\ \A k \in 1 .. Len(s) : s[k] = "NUL" /\ (\A i \in 1 .. k - 1 : s[i] # "NUL") => CString(s) = k
<1> DEFINE I == {i \in 1 .. Len(s) : s[i] = "NUL"}
<1>1. CString(s) = IF I # {} THEN Min(I) ELSE 0
  BY DEF CString, SelectInSeq
<1>2. Len(s) \in Nat
  OBVIOUS
<1>3. ASSUME \A i \in 1 .. Len(s) : s[i] # "NUL" PROVE CString(s) = 0
  BY <1>1, <1>3
<1>4. ASSUME NEW k \in 1 .. Len(s), s[k] = "NUL", \A i \in 1 .. k - 1 : s[i] # "NUL" PROVE CString(s) = k
  <2>1. k \in I /\ \A i \in I : k <= i
    <3>1. ASSUME NEW i \in I PROVE k <= i
      <4>1. i \in 1 .. Len(s) /\ s[i] = "NUL"
        BY <3>1
      <4>2. i \notin 1 .. k - 1
        BY <1>4, <4>1
      <4> QED
        BY <1>2, <4>1, <4>2
    <3> QED
      BY <1>4, <3>1
  <2>2. \A x \in I : (\A y \in I : x <= y) => x = k
    BY <1>2, <2>1
  <2> HIDE DEF I
  <2>3. Min(I) = k
    BY <2>1, <2>2 DEF Min
  <2> QED
    BY <1>1, <2>1, <2>3
<1> QED
  BY <1>3, <1>4

LEMMA TextIs ==
  ASSUME NEW t, t \in Seq(ToSet(t)), "NUL" \notin ToSet(t) \cup ToSet(Unescape)
  PROVE  Text(StrBytes(t)) = Raw(t)
<1> DEFINE E == {i \in DOMAIN t : t[i] \in DOMAIN Unescape}
           N == Len(t)
           S == StrLen(t)
           raw == Raw(t)
           bytes == StrBytes(t)
<1>1. N \in Nat /\ DOMAIN t = 1 .. N /\ \A i \in 1 .. N : t[i] \in ToSet(t)
  BY LenProperties DEF ToSet
<1>2. IsFiniteSet(E) /\ Cardinality(E) \in Nat
  <2>1. IsFiniteSet(1 .. N)
    BY <1>1, FS_Interval
  <2>2. E \in SUBSET (1 .. N)
    BY <1>1
  <2> HIDE DEF E
  <2>3. IsFiniteSet(E)
    BY <2>1, <2>2, FS_Subset
  <2> QED
    BY <2>3, FS_CardinalityType
<1>3. S = N + Cardinality(E)
  BY DEF StrLen
<1>4. raw = [i \in 1 .. N |-> IF t[i] \in DOMAIN Unescape THEN Unescape[t[i]] ELSE t[i]]
  BY <1>1 DEF Raw
<1>5. \A i \in 1 .. N : raw[i] # "NUL"
  <2> TAKE i \in 1 .. N
  <2>1. t[i] \in DOMAIN Unescape => Unescape[t[i]] \in ToSet(Unescape)
    BY DEF ToSet
  <2>2. raw[i] \in ToSet(t) \cup ToSet(Unescape)
    BY <1>1, <1>4, <2>1
  <2> QED
    BY <2>2
<1>6. bytes = [i \in 1 .. S |-> IF i <= N THEN raw[i] ELSE IF i = N + 1 THEN "NUL" ELSE "junk"]
  BY DEF StrBytes
<1> HIDE DEF E, N, S, raw, bytes
<1>7. S \in Nat /\ N <= S
  BY <1>1, <1>2, <1>3
<1> DEFINE D == {raw[i] : i \in 1 .. N} \cup {"NUL", "junk"}
<1>8. bytes \in Seq(D) /\ Len(bytes) = S
  <2>1. bytes \in [1 .. S -> D]
    BY <1>1, <1>6, <1>7
  <2> HIDE DEF D
  <2> QED
    BY <1>7, <2>1
<1>9. raw \in Seq(D) /\ Len(raw) = N
  <2>1. raw \in [1 .. N -> D]
    BY <1>4
  <2> HIDE DEF D
  <2> QED
    BY <1>1, <2>1
<1> HIDE DEF D
<1>10. \A i \in 1 .. N : bytes[i] = raw[i]
  BY <1>1, <1>6, <1>7
<1>11. CASE S = N
  <2>1. \A i \in 1 .. Len(bytes) : bytes[i] # "NUL"
    BY <1>5, <1>8, <1>10, <1>11
  <2>2. CString(bytes) = 0
    BY <1>8, <2>1, CStringIs
  <2>3. bytes = raw
    BY <1>8, <1>9, <1>10, <1>11, SameElements
  <2> QED
    BY <2>2, <2>3 DEF Text, bytes, raw
<1>12. CASE S # N
  <2>1. N + 1 \in 1 .. Len(bytes) /\ bytes[N + 1] = "NUL"
    BY <1>1, <1>6, <1>7, <1>8, <1>12
  <2>2. \A i \in 1 .. (N + 1) - 1 : bytes[i] # "NUL"
    BY <1>1, <1>5, <1>10
  <2>3. CString(bytes) = N + 1
    BY <1>8, <2>1, <2>2, CStringIs
  <2>4. Text(bytes) = SubSeq(bytes, 1, N)
    <3>1. N + 1 # 0 /\ (N + 1) - 1 = N
      BY <1>1
    <3> QED
      BY <2>3, <3>1 DEF Text
  <2>5. /\ SubSeq(bytes, 1, N) \in Seq(D) /\ Len(SubSeq(bytes, 1, N)) = N
        /\ \A i \in 1 .. N : SubSeq(bytes, 1, N)[i] = bytes[i]
    BY <1>1, <1>7, <1>8, SubSeqIs
  <2>6. SubSeq(bytes, 1, N) = raw
    <3> DEFINE u == SubSeq(bytes, 1, N)
    <3>1. u \in Seq(D) /\ Len(u) = Len(raw) /\ \A i \in 1 .. Len(u) : u[i] = raw[i]
      BY <1>9, <1>10, <2>5
    <3> HIDE DEF u
    <3>2. u = raw
      BY <1>9, <3>1, SameElements
    <3> QED
      BY <3>2 DEF u
  <2> QED
    BY <2>4, <2>6 DEF bytes, raw
<1> QED
  BY <1>11, <1>12

LEMMA ConstMeant ==
  ASSUME NEW sc, IsConstant(sc), NEW slot, NEW c, c = [slot |-> slot, type |-> sc.type, val |-> Value(sc)]
  PROVE  LoadedConst(c) = Meant(sc)
<1>1. c.type = sc.type /\ c.val = Value(sc)
  OBVIOUS
<1>2. CASE sc.type = "STR"
  <2>1. Value(sc) = StrBytes(sc.val)
    BY <1>2 DEF Value
  <2>2. Text(StrBytes(sc.val)) = Raw(sc.val)
    BY <1>2, TextIs DEF IsConstant
  <2>3. Meant(sc) = [type |-> "STR", val |-> Raw(sc.val)]
    BY <1>2, Zenon DEF Meant
  <2>4. LoadedConst(c) = [type |-> "STR", val |-> Text(c.val)]
    BY <1>1, <1>2, Zenon DEF LoadedConst
  <2> QED
    BY <1>1, <2>1, <2>2, <2>3, <2>4
<1>3. CASE sc.type # "STR"
  <2>1. c.val = sc.val
    BY <1>1, <1>3 DEF Value
  <2>2. CASE sc.type = "PTR"
    <3>1. Meant(sc) = [type |-> "WORD", val |-> sc.val]
      BY <1>3, <2>2, Zenon DEF Meant
    <3>2. LoadedConst(c) = [type |-> "WORD", val |-> c.val]
      BY <1>1, <1>3, <2>2, Zenon DEF LoadedConst
    <3> QED
      BY <2>1, <3>1, <3>2
  <2>3. CASE sc.type # "PTR"
    <3>1. Meant(sc) = sc
      BY <1>3, <2>3, Zenon DEF Meant
    <3>2. LoadedConst(c) = [type |-> c.type, val |-> c.val]
      BY <1>1, <1>3, <2>3, Zenon DEF LoadedConst
    <3>3. sc = [type |-> sc.type, val |-> sc.val]
      BY DEF IsConstant
    <3> QED
      BY <1>1, <2>1, <3>1, <3>2, <3>3
  <2> QED
    BY <2>2, <2>3
<1> QED
  BY <1>2, <1>3

LEMMA SourceOf ==
  ASSUME NEW p \in Programs
  PROVE  \E s \in Sources : /\ [p EXCEPT !.shebang = FALSE] = Assembled(s)
                            /\ p.registers = s.registers /\ p.constants = Assembled(s).constants
<1>1. IsProgram(p)
  BY ProgramIs
<1>2. PICK s \in Sources : [p EXCEPT !.shebang = FALSE] = Assembled(s)
  BY ProgramIs
<1> DEFINE q == Assembled(s)
<1>3. q.registers = s.registers
  BY DEF Assembled
<1> HIDE DEF q
<1>4. q.registers = p.registers /\ q.constants = p.constants
  <2>1. PICK f : f = FALSE
    OBVIOUS
  <2>2. q = [p EXCEPT !.shebang = f]
    BY <1>2, <2>1 DEF q
  <2> QED
    BY <1>1, <2>2 DEF IsProgram
<1> QED
  BY <1>2, <1>3, <1>4 DEF q

\* The constants of a program lie in the slots its source numbered them by.
LEMMA ConstantLoaded ==
  ASSUME NEW p, IsProgram(p), Loads(p), NEW i \in 1 .. Len(p.constants)
  PROVE  Load(p).constants[i - 1] = LoadedConst(p.constants[i])
<1> DEFINE C == p.constants
           N == Len(C)
           S == ToSet(C)
<1>1. C \in Seq(S) /\ N \in Nat /\ \A k \in 1 .. N : C[k].slot = k - 1
  BY DEF IsProgram
<1>2. DOMAIN C = 1 .. N /\ \A c \in S : \E k \in 1 .. N : c = C[k]
  BY <1>1 DEF ToSet
<1>3. C[i] \in S /\ C[i].slot = i - 1
  BY <1>1
<1>4. i - 1 \in 0 .. MaxConsts - 1
  <2>1. C[i].slot < MaxConsts
    BY <1>2 DEF Loads
  <2> QED
    BY <1>1, <1>3, <2>1, ProgramFileOK
<1>5. \A c \in S : c.slot = i - 1 => c = C[i]
  <2> TAKE c \in S
  <2> HAVE c.slot = i - 1
  <2>1. PICK k \in 1 .. N : c = C[k]
    BY <1>2
  <2>2. k - 1 = i - 1
    BY <1>1, <2>1
  <2>3. k = i
    BY <1>1, <2>2
  <2> QED
    BY <2>1, <2>3
<1>6. (CHOOSE c \in S : c.slot = i - 1) = C[i]
  BY <1>3, <1>5
<1>7. Load(p).constants = [k \in 0 .. MaxConsts - 1 |->
                             IF \E c \in S : c.slot = k
                             THEN LoadedConst(CHOOSE c \in S : c.slot = k) ELSE NULL]
  BY DEF Load
<1> HIDE DEF S, C, N
<1>8. Load(p).constants[i - 1] = IF \E c \in S : c.slot = i - 1
                                 THEN LoadedConst(CHOOSE c \in S : c.slot = i - 1) ELSE NULL
  BY <1>4, <1>7
<1> QED
  BY <1>3, <1>6, <1>8 DEF C

LEMMA RegisterLoaded ==
  ASSUME NEW p, IsProgram(p), Len(p.registers) <= MaxRegs, NEW i \in 1 .. Len(p.registers)
  PROVE  Load(p).registers[i - 1] = p.registers[i]
<1>1. Len(p.registers) \in Nat /\ MaxRegs \in Nat
  BY ProgramFileOK DEF IsProgram
<1>2. i - 1 \in 0 .. MaxRegs - 1 /\ i - 1 < Len(p.registers) /\ (i - 1) + 1 = i
  BY <1>1
<1>3. Load(p).registers = [k \in 0 .. MaxRegs - 1 |-> IF k < Len(p.registers) THEN p.registers[k + 1] ELSE NULL]
  BY DEF Load
<1> QED
  BY <1>2, <1>3

LEMMA KnownAsAssembled == Inv /\ Known => MachineAsAssembled
<1> SUFFICES ASSUME Inv, Known, reader.prog # NULL, ~reader.torn
             PROVE  LET m == Load(reader.prog) IN
                    Loads(reader.prog) /\ \E s \in Sources :
                      /\ [reader.prog EXCEPT !.shebang = FALSE] = Assembled(s)
                      /\ \A i \in DOMAIN s.registers : m.registers[i - 1] = s.registers[i]
                      /\ \A i \in DOMAIN s.constants : m.constants[i - 1] = Meant(s.constants[i])
  BY DEF MachineAsAssembled
<1> DEFINE p == reader.prog
<1>1. p \in Programs /\ Loads(p) /\ Len(p.registers) <= MaxRegs
  BY DEF Known, ReaderIs
<1> HIDE DEF p
<1>2. IsProgram(p)
  BY <1>1, ProgramIs
<1>3. PICK s \in Sources : /\ [p EXCEPT !.shebang = FALSE] = Assembled(s)
                           /\ p.registers = s.registers /\ p.constants = Assembled(s).constants
  BY <1>1, SourceOf
<1>4. /\ s.registers \in Seq(ToSet(s.registers)) /\ s.constants \in Seq(ToSet(s.constants))
      /\ \A c \in ToSet(s.constants) : IsConstant(c)
  BY ProgramFileOK
<1>5. ASSUME NEW i \in DOMAIN s.registers PROVE Load(p).registers[i - 1] = s.registers[i]
  <2>1. i \in 1 .. Len(p.registers)
    BY <1>3, <1>4
  <2> QED
    BY <1>1, <1>2, <1>3, <2>1, RegisterLoaded
<1>6. ASSUME NEW i \in DOMAIN s.constants PROVE Load(p).constants[i - 1] = Meant(s.constants[i])
  <2>1. i \in 1 .. Len(s.constants) /\ s.constants[i] \in ToSet(s.constants)
    BY <1>4 DEF ToSet
  <2>2. /\ Len(p.constants) = Len(s.constants)
        /\ p.constants[i] = [slot |-> i - 1, type |-> s.constants[i].type, val |-> Value(s.constants[i])]
    BY <1>3, <2>1, AssembledIs
  <2>3. LoadedConst(p.constants[i]) = Meant(s.constants[i])
    BY <1>4, <2>1, <2>2, ConstMeant
  <2>4. Load(p).constants[i - 1] = LoadedConst(p.constants[i])
    BY <1>1, <1>2, <2>1, <2>2, ConstantLoaded
  <2> QED
    BY <2>3, <2>4
<1> QED
  BY <1>1, <1>3, <1>5, <1>6 DEF p

\* srsvm_asm_emit, srsvm_program_serialize, srsvm_program_deserialize and
\* srsvm_vm_load_program together: for all sources, builds and limits, whatever
\* runs, unless the file was emptied under its reader, finds in its registers and
\* under its slots what the source named, every string with its text and no more.
THEOREM RunsAsAssembled == Spec => []MachineAsAssembled
BY KnownInvariant, KnownAsAssembled, PTL

\* srsvm_program_serialize and srsvm_program_deserialize as the parts of a store: at
\* every step of the assembler, stdio, the disk or a reader the path holds one
\* whole program or none, and who asks gets that program or, if there is none or
\* the build cannot run it, nothing.  A reader whose behaviour becomes undefined
\* has before it what there is of a program with too many constants.
THEOREM FileImplementsStore == Spec => Store!Init /\ ImplementsStore
<1>0. Init => Store!Init
  BY DEF Init, NoWriter, NoReader, Store!Init
<1> DEFINE Allowed == ~reader.torn' => IF Dies THEN Oversized ELSE Store!Next \/ UNCHANGED Store!vars
<1>1. Inv /\ Known /\ [Next]_vars => [Allowed]_vars
  BY NextKnown, DiesOversized DEF Step
<1> QED
  BY <1>0, <1>1, KnownInvariant, PTL DEF Spec, ImplementsStore
=============================================================================
