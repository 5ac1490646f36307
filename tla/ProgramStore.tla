----------------------------- MODULE ProgramStore -----------------------------
(***************************************************************************)
(* What a path a program is assembled to promises: it holds one whole      *)
(* program or none, and whoever runs it gets that program, or nothing.     *)
(***************************************************************************)
CONSTANTS
  NULL,
  Runs(_, _)      \* whether a runtime can run a program

VARIABLES
  store,          \* the program at the path, NULL when it is not a whole one
  job,            \* the program that is being assembled to the path
  asks,           \* the runtime that wants to run the program at the path
  answer          \* the program it got, NULL when it got none

vars == <<store, job, asks, answer>>

\* An assembly begins, which leaves nothing of the program before it.
Begin == job = NULL /\ job' # NULL /\ store' = NULL /\ UNCHANGED <<asks, answer>>

Lost == job = NULL /\ store' = NULL /\ UNCHANGED <<job, asks, answer>>

\* The last of the program arrives, with the end of the assembly or before it.
Arrive == job # NULL /\ store' = job /\ job' \in {job, NULL} /\ UNCHANGED <<asks, answer>>

End == job # NULL /\ job' = NULL /\ UNCHANGED <<store, asks, answer>>

\* A runtime asks, or the wrapper has chosen the runtime.
Ask == asks' # NULL /\ answer' = NULL /\ UNCHANGED <<store, job>>

\* It gets the program that is at the path now, unless it cannot run it.
Answer ==
  /\ asks # NULL
  /\ answer' = IF store # NULL /\ Runs(asks, store) THEN store ELSE NULL
  /\ asks' = NULL
  /\ UNCHANGED <<store, job>>

Next == Begin \/ Lost \/ Arrive \/ End \/ Ask \/ Answer

Init == job = NULL /\ asks = NULL /\ answer = NULL
===============================================================================
