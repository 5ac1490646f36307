---------------------------- MODULE SourceProgram ----------------------------
(***************************************************************************)
(* What a program in assembly language means: control goes from line to    *)
(* line, and to the line of a label where the line names one.  One thread  *)
(* is followed; at a THREAD_START either the thread that executes it or    *)
(* the one it starts.                                                      *)
(***************************************************************************)
EXTENDS Naturals, Sequences

VARIABLES
  src,      \* the lines
  at        \* the line the thread has come to; one past the last is the end

\* The labels a line names.
Targets(line) == {line.args[j].text : j \in {n \in DOMAIN line.args : line.args[n].kind = "label"}}

LinesOf(label) == {k \in DOMAIN src : src[k].label = label}

\* The lines that may follow line k.
After(k) ==
  LET op == src[k].op
      to == UNION {LinesOf(label) : label \in Targets(src[k])}
  IN  IF op = "HALT" THEN {}
      ELSE IF op = "JMP" THEN to
      ELSE IF op \in {"JMP_IF", "JMP_ERR", "THREAD_START"} THEN to \cup {k + 1}
      ELSE {k + 1}

Init == at = 1

Next ==
  /\ at \in DOMAIN src
  /\ at' \in After(at)
  /\ UNCHANGED src

Spec == Init /\ [][Next]_<<src, at>>
===============================================================================
