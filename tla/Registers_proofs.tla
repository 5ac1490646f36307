------------------------- MODULE Registers_proofs --------------------------
(***************************************************************************)
(* What is proved of Registers for every number of threads, registers and  *)
(* allocations: of all straight-line programs, and, in the second half,    *)
(* that the discipline of examples/threads.s keeps threads apart whatever  *)
(* else a program does.                                                    *)
(***************************************************************************)
EXTENDS Registers, FiniteSetTheorems, TLAPS

\* The lemmas on induction: there is no tree here.
Shared == INSTANCE SharedLemmas WITH Dangling <- 0

USE DEF heap, locks, vars

\* The instructions a thread may be in at each place.
Clearing == {"clear_str", "forget_str", "clear_hnd", "forget_hnd", "wipe"}
PlaceOK ==
  \A t \in Threads :
    /\ pc[t] \in Clearing => Writes(ins[t].op)
    /\ pc[t] \in {"alloc", "load_handle"} => Handles(ins[t].op)
    /\ pc[t] \in {"load_str", "copy_str"} => ins[t].op = "LOAD_STR"
    /\ ub = "none" /\ pc[t] \in {"print", "wait"} => tgt[t] \in Objs
    /\ pc[t] = "wait" => ins[t].op = "MUTEX_LOCK"
    /\ pc[t] \in {"puts", "print"} => ins[t].op = "PUTS"
    /\ pc[t] = "check" => ins[t].op \in {"MUTEX_LOCK", "MUTEX_UNLOCK", "MUTEX_DESTROY"}
    /\ pc[t] \in {"MUTEX_LOCK", "MUTEX_UNLOCK", "MUTEX_DESTROY"} => ins[t].op = pc[t]
    /\ new[t] # NULL <=> Handles(ins[t].op) /\ pc[t] \in Clearing \cup {"load_handle"}

TypeInv == TypeOK /\ PlaceOK

LEMMA NullApart == NULL \notin Threads /\ NULL \notin Objs
  BY RegistersOK

LEMMA InitType == Init => TypeInv
<1> SUFFICES ASSUME Init PROVE TypeInv
  OBVIOUS
<1>1. Main \in Objs /\ Nothing \in Instr /\ "ready" \in Places /\ 1 \in Nat \ {0}
  BY RegistersOK DEF Main, Objs, Nothing, Instr, Ops, Places
<1>2. TypeOK
  BY <1>1, NullApart DEF Init, TypeOK
<1>3. PlaceOK
  BY DEF Init, PlaceOK, Clearing
<1> QED
  BY <1>2, <1>3 DEF TypeInv

LEMMA ProgramSets ==
  ASSUME TypeOK, NEW t \in Threads
  PROVE  /\ prog[t] \in Seq(SUBSET Instr)
         /\ Len(prog[t]) \in Nat /\ DOMAIN prog[t] = 1 .. Len(prog[t])
         /\ \A k \in 1 .. Len(prog[t]) : prog[t][k] \subseteq Instr
  BY RegistersOK DEF TypeOK

LEMMA RegType ==
  ASSUME TypeOK, NEW t \in Threads
  PROVE  /\ Reg(t) \in Regs
         /\ str[Reg(t)] \in Objs \cup {NULL} /\ hnd[Reg(t)] \in Objs \cup {NULL}
<1>1. Reg(t) \in Regs
  BY DEF TypeOK, Instr, Reg
<1> QED
  BY <1>1 DEF TypeOK

LEMMA NextIp ==
  ASSUME TypeOK, NEW t \in Threads, Done(t)
  PROVE  ip' \in [Threads -> Nat \ {0}] /\ pc' = [pc EXCEPT ![t] = "ready"]
<1>1. ip[t] + 1 \in Nat \ {0}
  BY DEF TypeOK
<1> QED
  BY <1>1 DEF TypeOK, Done

LEMMA StepType ==
  ASSUME TypeInv, NEW t \in Threads, Step(t)
  PROVE  TypeInv'
<1> USE NullApart DEF TypeInv, TypeOK, PlaceOK, At, Goto, Places, Clearing, Handles,
        Writes
<1>1. CASE Dispatch(t)
  <2>1. PICK i \in prog[t][ip[t]] :
          /\ ins' = [ins EXCEPT ![t] = i]
          /\ pc' = [pc EXCEPT ![t] = FirstStep(i.op)]
          /\ race' = (race \/ (i.op # "THREAD_EXIT" /\ Meets(t, i)))
    BY <1>1 DEF Dispatch
  <2>2. i \in Instr
    BY <1>1, ProgramSets DEF Dispatch
  <2>3. race' \in BOOLEAN
    BY <2>1
  <2>4. /\ FirstStep(i.op) \in Places
        /\ FirstStep(i.op) = "clear_str" => i.op \in {"LOAD_WORD", "LOAD_STR"}
        /\ FirstStep(i.op) = "alloc" => Handles(i.op)
        /\ FirstStep(i.op) = "puts" => i.op = "PUTS"
        /\ FirstStep(i.op) = "check" =>
             i.op \in {"MUTEX_LOCK", "MUTEX_UNLOCK", "MUTEX_DESTROY"}
        /\ FirstStep(i.op) \in {"clear_str", "alloc", "puts", "ended", "check"}
    BY <2>2 DEF FirstStep, Instr, Ops
  <2>5. /\ pc[t] = "ready" /\ ub = "none"
        /\ UNCHANGED <<prog, ip, str, hnd, heap, locks, new, tgt, machine, ub>>
    BY <1>1 DEF Dispatch
  <2>6. TypeOK'
    BY <2>1, <2>2, <2>3, <2>4, <2>5
  <2>7. PlaceOK'
    BY <2>1, <2>2, <2>4, <2>5
  <2> QED
    BY <2>6, <2>7
<1>2. CASE Halt(t)
  BY <1>2 DEF Halt
<1>3. CASE Alloc(t)
  BY <1>3 DEF Alloc, Allocates
<1>4. CASE ClearStr(t)
  BY <1>4 DEF ClearStr, Frees, Undefined
<1>5. CASE ForgetStr(t)
  BY <1>5, RegType DEF ForgetStr
<1>6. CASE ClearHnd(t)
  BY <1>6 DEF ClearHnd, Frees, Undefined
<1>7. CASE ForgetHnd(t)
  BY <1>7, RegType DEF ForgetHnd
<1>8. CASE Wipe(t)
  <2>1. /\ pc[t] = "wipe" /\ ub = "none"
        /\ str' = [str EXCEPT ![Reg(t)] = NULL] /\ hnd' = [hnd EXCEPT ![Reg(t)] = NULL]
        /\ UNCHANGED <<prog, ins, heap, locks, new, tgt, machine, ub, race>>
    BY <1>8 DEF Wipe
  <2>5. str' \in [Regs -> Objs \cup {NULL}] /\ hnd' \in [Regs -> Objs \cup {NULL}]
    BY <2>1
  <2>2. CASE ins[t].op = "LOAD_STR"
    <3>1. pc' = [pc EXCEPT ![t] = "load_str"] /\ UNCHANGED ip
      BY <1>8, <2>2 DEF Wipe
    <3> QED
      BY <2>1, <2>2, <3>1, <2>5
  <2>3. CASE Handles(ins[t].op)
    <3>1. pc' = [pc EXCEPT ![t] = "load_handle"] /\ UNCHANGED ip
      BY <1>8, <2>3 DEF Wipe
    <3> QED
      BY <2>1, <2>3, <3>1, <2>5
  <2>4. CASE ins[t].op # "LOAD_STR" /\ ~Handles(ins[t].op)
    <3>1. Done(t)
      BY <1>8, <2>4 DEF Wipe
    <3>2. ip' \in [Threads -> Nat \ {0}] /\ pc' = [pc EXCEPT ![t] = "ready"]
      BY <3>1, NextIp
    <3> QED
      BY <2>1, <2>4, <3>2, <2>5
  <2> QED
    BY <2>2, <2>3, <2>4
<1>9. CASE LoadStr(t)
  <2>1. PICK o \in Objs : Allocates(o, "str") /\ str' = [str EXCEPT ![Reg(t)] = o]
    BY <1>9 DEF LoadStr
  <2> QED
    BY <1>9, <2>1, RegType DEF LoadStr, Allocates
<1>10. CASE CopyStr(t)
  BY <1>10, NextIp DEF CopyStr, Misuse, Undefined
<1>11. CASE LoadHandle(t)
  BY <1>11, NextIp, RegType DEF LoadHandle
<1>12. CASE Puts(t)
  <2>1. CASE str[Reg(t)] = NULL
    BY <1>12, <2>1, NextIp DEF Puts
  <2>2. CASE str[Reg(t)] # NULL
    BY <1>12, <2>2, RegType DEF Puts
  <2> QED
    BY <2>1, <2>2
<1>13. CASE PrintStr(t)
  BY <1>13, NextIp DEF PrintStr, Misuse, Undefined
<1>14. CASE Check(t)
  BY <1>14 DEF Check, Misuse, Undefined
<1>15. CASE Lock(t)
  <2>1. CASE Usable(hnd[Reg(t)])
    BY <1>15, <2>1, RegType DEF Lock, Usable
  <2>2. CASE ~Usable(hnd[Reg(t)])
    BY <1>15, <2>2 DEF Lock, Misuse, Undefined
  <2> QED
    BY <2>1, <2>2
<1>16. CASE Granted(t)
  <2>1. /\ pc[t] = "wait" /\ tgt' = [tgt EXCEPT ![t] = NULL]
        /\ UNCHANGED <<prog, ins, str, hnd, heap, new, machine, race>>
    BY <1>16 DEF Granted
  <2>2. CASE life[tgt[t]] = "live"
    <3>1. /\ owner' = [owner EXCEPT ![tgt[t]] = t] /\ Done(t) /\ UNCHANGED ub
          /\ depth' = [depth EXCEPT ![tgt[t]] = depth[tgt[t]] + 1]
      BY <1>16, <2>2 DEF Granted
    <3>2. tgt[t] \in Objs
      BY <1>16 DEF Granted
    <3>3. /\ owner' \in [Objs -> Threads \cup {NULL}] /\ depth' \in [Objs -> Nat]
          /\ \A o \in Objs : owner'[o] = NULL <=> depth'[o] = 0
      BY <3>1, <3>2
    <3> QED
      BY <2>1, <3>1, <3>3, NextIp
  <2>3. CASE life[tgt[t]] = "destroyed"
    BY <1>16, <2>1, <2>3, NextIp DEF Granted
  <2>4. CASE life[tgt[t]] \notin {"live", "destroyed"}
    BY <1>16, <2>1, <2>4 DEF Granted, Misuse, Undefined
  <2> QED
    BY <2>2, <2>3, <2>4
<1>17. CASE Unlock(t)
  <2> DEFINE h == hnd[Reg(t)]
  <2>1. /\ pc[t] = "MUTEX_UNLOCK"
        /\ UNCHANGED <<prog, ins, str, hnd, heap, new, tgt, machine, race>>
    BY <1>17 DEF Unlock
  <2>2. CASE ~Usable(h)
    BY <1>17, <2>1, <2>2 DEF Unlock, Misuse, Undefined
  <2>3. CASE Usable(h) /\ life[h] = "live" /\ owner[h] = t
    <3>1. /\ depth' = [depth EXCEPT ![h] = depth[h] - 1] /\ Done(t) /\ UNCHANGED ub
          /\ owner' = [owner EXCEPT ![h] = IF depth[h] = 1 THEN NULL ELSE t]
      BY <1>17, <2>3 DEF Unlock
    <3>2. h \in Objs /\ depth[h] \in Nat \ {0}
      BY <2>3, RegType DEF Usable
    <3> HIDE DEF h
    <3>3. /\ owner' \in [Objs -> Threads \cup {NULL}] /\ depth' \in [Objs -> Nat]
          /\ \A o \in Objs : owner'[o] = NULL <=> depth'[o] = 0
      BY <3>1, <3>2
    <3> QED
      BY <2>1, <3>1, <3>3, NextIp
  <2>4. CASE Usable(h) /\ ~ (life[h] = "live" /\ owner[h] = t)
    BY <1>17, <2>1, <2>4, NextIp DEF Unlock
  <2> QED
    BY <2>2, <2>3, <2>4
<1>18. CASE Destroy(t)
  BY <1>18 DEF Destroy, Misuse, Undefined, Usable
<1> QED
  BY <1>1, <1>2, <1>3, <1>4, <1>5, <1>6, <1>7, <1>8, <1>9, <1>10, <1>11, <1>12, <1>13,
     <1>14, <1>15, <1>16, <1>17, <1>18, Zenon DEF Step

LEMMA NextType == TypeInv /\ [Next]_vars => TypeInv'
<1>1. ASSUME TypeInv, EndMachine PROVE TypeInv'
  BY <1>1, RegistersOK DEF EndMachine, TypeInv, TypeOK, PlaceOK
<1>2. ASSUME TypeInv, UNCHANGED vars PROVE TypeInv'
  BY <1>2 DEF TypeInv, TypeOK, PlaceOK
<1> QED
  BY <1>1, <1>2, StepType DEF Next

\* The type invariant holds in every reachable state.
THEOREM TypeCorrect == Spec => []TypeOK
<1>1. TypeInv => TypeOK
  BY DEF TypeInv
<1> QED
  BY <1>1, InitType, NextType, PTL DEF Spec

-----------------------------------------------------------------------------
\* Who owns an allocation.

\* Two threads in one register only read it.
ApartInv ==
  \A t, u \in Threads :
    t # u /\ Within(t) /\ Within(u) /\ Reg(t) = Reg(u) => ~Writes(ins[t].op) /\ ~Writes(ins[u].op)

\* What the place of a thread says of its register.
RegisterOf(t) ==
  /\ pc[t] \in {"clear_hnd", "forget_hnd"} => str[Reg(t)] = NULL
  /\ pc[t] \in {"wipe", "load_str", "load_handle"} => str[Reg(t)] = NULL /\ hnd[Reg(t)] = NULL
  /\ pc[t] = "copy_str" => str[Reg(t)] # NULL
  /\ ub = "none" =>
       /\ pc[t] = "print" => tgt[t] = str[Reg(t)]
       /\ pc[t] = "wait" => tgt[t] = hnd[Reg(t)]
RegisterOK == \A t \in Threads : RegisterOf(t)

\* The places of Owns, and the allocation each of them holds.
StrPlaces == {<<r, "str">> : r \in Regs}
HndPlaces == {<<r, "hnd">> : r \in Regs}
NewPlaces == {<<t, "new">> : t \in Threads}
AllPlaces == StrPlaces \cup HndPlaces \cup NewPlaces

Forgets(r, place) == \E t \in Threads : pc[t] = place /\ Reg(t) = r
StrOf(r) == IF Forgets(r, "forget_str") THEN NULL ELSE str[r]
HndOf(r) == IF Forgets(r, "forget_hnd") THEN NULL ELSE hnd[r]

Own == [p \in AllPlaces |-> IF p \in StrPlaces THEN StrOf(p[1])
                            ELSE IF p \in HndPlaces THEN HndOf(p[1]) ELSE new[p[1]]]

\* Every allocation in use is in one place, and nothing else is.
OwnedOnce(own, lf) ==
  /\ \A p, q \in AllPlaces : own[p] = own[q] /\ own[p] # NULL => p = q
  /\ \A p \in AllPlaces : own[p] # NULL => lf[own[p]] \in {"live", "destroyed"}
  /\ \A o \in Objs : lf[o] \in {"live", "destroyed"} => \E p \in AllPlaces : own[p] = o

Unbroken == ub \notin {"use_after_free", "double_free"}

OwnerParts == ApartInv /\ RegisterOK /\ OwnedOnce(Own, life) /\ Unbroken

OwnerInv == ~race => OwnerParts

-----------------------------------------------------------------------------
\* The four ways in which ownership changes.

LEMMA OwnKept ==
  ASSUME NEW own, NEW lf, NEW own2, NEW lf2, OwnedOnce(own, lf),
         \A p \in AllPlaces : own2[p] = own[p],
         \A o \in Objs : lf2[o] = lf[o] \/ {lf[o], lf2[o]} \subseteq {"live", "destroyed"},
         \A p \in AllPlaces : own[p] \in Objs \cup {NULL}
  PROVE  OwnedOnce(own2, lf2)
  BY DEF OwnedOnce

LEMMA OwnTaken ==
  ASSUME NEW own, NEW lf \in [Objs -> {"none", "live", "destroyed", "freed"}],
         NEW own2, OwnedOnce(own, lf), NEW a \in AllPlaces, NEW o \in Objs,
         lf[o] = "none", own[a] = NULL, own2[a] = o,
         \A p \in AllPlaces \ {a} : own2[p] = own[p],
         \A p \in AllPlaces : own[p] \in Objs \cup {NULL}
  PROVE  OwnedOnce(own2, [lf EXCEPT ![o] = "live"])
  BY NullApart DEF OwnedOnce

LEMMA OwnDropped ==
  ASSUME NEW own, NEW lf \in [Objs -> {"none", "live", "destroyed", "freed"}],
         NEW own2, OwnedOnce(own, lf), NEW a \in AllPlaces, NEW o \in Objs,
         own[a] = o, own2[a] = NULL,
         \A p \in AllPlaces \ {a} : own2[p] = own[p],
         \A p \in AllPlaces : own[p] \in Objs \cup {NULL}
  PROVE  OwnedOnce(own2, [lf EXCEPT ![o] = "freed"])
  BY NullApart DEF OwnedOnce

LEMMA OwnMoved ==
  ASSUME NEW own, NEW lf, NEW own2, OwnedOnce(own, lf),
         NEW a \in AllPlaces, NEW b \in AllPlaces,
         own[b] = NULL, own2[b] = own[a], own2[a] = NULL, a # b,
         \A p \in AllPlaces \ {a, b} : own2[p] = own[p]
  PROVE  OwnedOnce(own2, lf)
  BY NullApart DEF OwnedOnce

\* What the places hold.
PlacesHold ==
  /\ \A r \in Regs : /\ <<r, "str">> \in AllPlaces /\ Own[<<r, "str">>] = StrOf(r)
                     /\ <<r, "hnd">> \in AllPlaces /\ Own[<<r, "hnd">>] = HndOf(r)
  /\ \A t \in Threads : <<t, "new">> \in AllPlaces /\ Own[<<t, "new">>] = new[t]

LEMMA PlaceValues == PlacesHold /\ PlacesHold'
  BY DEF PlacesHold, AllPlaces, StrPlaces, HndPlaces, NewPlaces, Own

LEMMA PlaceKinds ==
  \A p \in AllPlaces :
    \/ \E r \in Regs : p = <<r, "str">> /\ Own[p] = StrOf(r)
    \/ \E r \in Regs : p = <<r, "hnd">> /\ Own[p] = HndOf(r)
    \/ \E t \in Threads : p = <<t, "new">> /\ Own[p] = new[t]
<1> TAKE p \in AllPlaces
<1>1. CASE p \in StrPlaces
  BY <1>1, PlaceValues DEF PlacesHold, StrPlaces
<1>2. CASE p \in HndPlaces
  BY <1>2, PlaceValues DEF PlacesHold, HndPlaces
<1>3. CASE p \in NewPlaces
  BY <1>3, PlaceValues DEF PlacesHold, NewPlaces
<1> QED
  BY <1>1, <1>2, <1>3 DEF AllPlaces

LEMMA OwnType ==
  ASSUME TypeOK
  PROVE  \A p \in AllPlaces : Own[p] \in Objs \cup {NULL}
  BY DEF TypeOK, AllPlaces, StrPlaces, HndPlaces, NewPlaces, Own, StrOf, HndOf

\* A place of which nothing has changed holds what it held.
LEMMA OtherPlaces ==
  ASSUME NEW W,
         \A r \in Regs : <<r, "str">> \in W \/ StrOf(r)' = StrOf(r),
         \A r \in Regs : <<r, "hnd">> \in W \/ HndOf(r)' = HndOf(r),
         \A t \in Threads : <<t, "new">> \in W \/ new'[t] = new[t]
  PROVE  \A p \in AllPlaces \ W : Own'[p] = Own[p]
  BY DEF AllPlaces, StrPlaces, HndPlaces, NewPlaces, Own

-----------------------------------------------------------------------------
\* Each step keeps one owner, as long as no two threads meet.

LEMMA Alone ==
  ASSUME ApartInv, NEW t \in Threads, Within(t), Writes(ins[t].op)
  PROVE  \A u \in Threads \ {t} : Within(u) => Reg(u) # Reg(t)
  BY DEF ApartInv

\* A thread that comes into a register records whom it meets there.
LEMMA StepApart ==
  ASSUME TypeInv, ApartInv, NEW t \in Threads, Step(t), ~race'
  PROVE  ApartInv'
<1>1. CASE Dispatch(t)
  <2>1. PICK i \in prog[t][ip[t]] :
          /\ ins' = [ins EXCEPT ![t] = i]
          /\ pc' = [pc EXCEPT ![t] = FirstStep(i.op)]
          /\ race' = (race \/ (i.op # "THREAD_EXIT" /\ Meets(t, i)))
    BY <1>1 DEF Dispatch, Goto
  <2>2. i.op = "THREAD_EXIT" => FirstStep(i.op) = "ended"
    BY DEF FirstStep, Handles
  <2>3. i.op = "THREAD_EXIT" \/ ~Meets(t, i)
    BY <2>1
  <2>4. /\ ins'[t] = i /\ pc'[t] = FirstStep(i.op)
        /\ \A u \in Threads \ {t} : ins'[u] = ins[u] /\ pc'[u] = pc[u]
    BY <2>1 DEF TypeInv, TypeOK
  <2> QED
    BY <2>2, <2>3, <2>4 DEF ApartInv, Meets, Within, Reg, Writes
<1>2. ASSUME UNCHANGED ins, \A u \in Threads : Within(u)' => Within(u)
      PROVE  ApartInv'
  BY <1>2 DEF ApartInv, Reg
<1>3. ASSUME ~Dispatch(t)
      PROVE  UNCHANGED ins /\ \A u \in Threads \ {t} : pc'[u] = pc[u]
  BY <1>3, Zenon DEF Step, Halt, Alloc, ClearStr, Frees, Undefined, ForgetStr, ClearHnd, ForgetHnd,
     Wipe, LoadStr, CopyStr, LoadHandle, Puts, PrintStr, Check, Lock, Granted, Unlock,
     Destroy, Misuse, Goto, Done, TypeInv, TypeOK
<1>4. ASSUME ~Dispatch(t) PROVE Within(t)' => Within(t)
  BY <1>4 DEF Step, Halt, Alloc, ClearStr, ForgetStr, ClearHnd, ForgetHnd,
     Wipe, LoadStr, CopyStr, LoadHandle, Puts, PrintStr, Check, Lock, Granted, Unlock,
     Destroy, Goto, TypeInv, TypeOK, At, Within
<1> QED
  BY <1>1, <1>2, <1>3, <1>4 DEF Within

\* A step that changes no register, frees nothing and forgets nothing.
LEMMA StillOwned ==
  ASSUME TypeInv, OwnedOnce(Own, life), UNCHANGED <<str, hnd, new>>,
         \A u \in Threads : {pc[u], pc'[u]} \cap {"forget_str", "forget_hnd"} # {}
           => pc'[u] = pc[u] /\ ins'[u] = ins[u],
         \A o \in Objs : life'[o] = life[o] \/ {life[o], life'[o]} \subseteq {"live", "destroyed"}
  PROVE  OwnedOnce(Own, life)'
<1>1. \A r \in Regs : StrOf(r)' = StrOf(r) /\ HndOf(r)' = HndOf(r)
  BY DEF StrOf, HndOf, Forgets, Reg
<1>2. \A p \in AllPlaces \ {} : Own'[p] = Own[p]
  BY <1>1, OtherPlaces
<1>3. \A p \in AllPlaces : Own'[p] = Own[p]
  BY <1>2
<1>4. OwnedOnce(Own', life')
  BY <1>3, OwnKept, OwnType DEF TypeInv
<1> QED
  BY <1>4

\* What t does in its register disturbs no other thread.
LEMMA RegisterStep ==
  ASSUME TypeInv, ApartInv, RegisterOK, NEW t \in Threads, ub = "none",
         \A u \in Threads \ {t} : pc'[u] = pc[u] /\ ins'[u] = ins[u] /\ tgt'[u] = tgt[u],
         \/ UNCHANGED <<str, hnd>>
         \/ /\ Within(t) /\ Writes(ins[t].op)
            /\ \A r \in Regs \ {Reg(t)} : str'[r] = str[r] /\ hnd'[r] = hnd[r],
         RegisterOf(t)'
  PROVE  RegisterOK'
<1> SUFFICES ASSUME NEW u \in Threads \ {t} PROVE RegisterOf(u)'
  BY DEF RegisterOK
<1>1. CASE ~Within(u)
  BY <1>1 DEF Within, RegisterOf
<1>2. CASE Within(u)
  <2>1. str'[Reg(u)] = str[Reg(u)] /\ hnd'[Reg(u)] = hnd[Reg(u)]
    BY <1>2, Alone, RegType DEF TypeInv
  <2>2. RegisterOf(u)
    BY DEF RegisterOK
  <2> QED
    BY <2>1, <2>2 DEF RegisterOf, Reg
<1> QED
  BY <1>1, <1>2

\* Nothing is forgotten in the register of t but by t itself.
LEMMA NotForgotten ==
  ASSUME ApartInv, NEW t \in Threads, Within(t)
  PROVE  /\ pc[t] # "forget_str" /\ PlaceOK => ~Forgets(Reg(t), "forget_str")
         /\ pc[t] # "forget_hnd" /\ PlaceOK => ~Forgets(Reg(t), "forget_hnd")
  BY DEF ApartInv, Forgets, PlaceOK, Clearing, Within

\* A register t is in holds memory that has not been freed.
LEMMA RegisterInUse ==
  ASSUME TypeInv, OwnerParts, NEW t \in Threads, Within(t)
  PROVE  /\ pc[t] # "forget_str" /\ str[Reg(t)] # NULL
              => /\ Own[<<Reg(t), "str">>] = str[Reg(t)] /\ Usable(str[Reg(t)])
                 /\ life[str[Reg(t)]] \in {"live", "destroyed"}
         /\ pc[t] # "forget_hnd" /\ hnd[Reg(t)] # NULL
              => /\ Own[<<Reg(t), "hnd">>] = hnd[Reg(t)] /\ Usable(hnd[Reg(t)])
                 /\ life[hnd[Reg(t)]] \in {"live", "destroyed"}
<1>1. Reg(t) \in Regs
  BY RegType DEF TypeInv
<1>2. /\ pc[t] # "forget_str" => Own[<<Reg(t), "str">>] = str[Reg(t)]
      /\ pc[t] # "forget_hnd" => Own[<<Reg(t), "hnd">>] = hnd[Reg(t)]
  BY <1>1, NotForgotten, PlaceValues DEF PlacesHold, OwnerParts, TypeInv, StrOf, HndOf
<1>3. \A p \in AllPlaces : Own[p] # NULL => life[Own[p]] \in {"live", "destroyed"}
  BY DEF OwnerParts, OwnedOnce
<1> QED
  BY <1>1, <1>2, <1>3, PlaceValues DEF PlacesHold, Usable

Kept == RegisterOK /\ OwnedOnce(Own, life) /\ Unbroken

\* Steps that change no register and no owner.
LEMMA QuietStep ==
  ASSUME TypeInv, OwnerParts, NEW t \in Threads, ub = "none", Unbroken',
         UNCHANGED <<str, hnd, new>>,
         \A u \in Threads \ {t} : pc'[u] = pc[u] /\ ins'[u] = ins[u] /\ tgt'[u] = tgt[u],
         {pc[t], pc'[t]} \cap {"forget_str", "forget_hnd"} = {},
         \A o \in Objs : life'[o] = life[o] \/ {life[o], life'[o]} \subseteq {"live", "destroyed"},
         RegisterOf(t)'
  PROVE  Kept'
<1>1. RegisterOK'
  BY RegisterStep DEF OwnerParts
<1>2. OwnedOnce(Own, life)'
  BY StillOwned DEF OwnerParts
<1> QED
  BY <1>1, <1>2 DEF Kept

LEMMA QuietSteps ==
  ASSUME TypeInv, OwnerParts, NEW t \in Threads,
         \/ Dispatch(t) \/ Halt(t) \/ CopyStr(t) \/ Puts(t) \/ PrintStr(t)
         \/ Check(t) \/ Lock(t) \/ Granted(t) \/ Unlock(t)
  PROVE  Kept'
<1> USE DEF At, Goto, Done, TypeInv, TypeOK, Unbroken
<1>1. CASE Dispatch(t)
  <2>1. PICK i \in prog[t][ip[t]] : pc' = [pc EXCEPT ![t] = FirstStep(i.op)]
    BY <1>1 DEF Dispatch
  <2>2. FirstStep(i.op) \in {"clear_str", "alloc", "puts", "ended", "check"}
    BY DEF FirstStep
  <2>3. /\ \A u \in Threads \ {t} : pc'[u] = pc[u] /\ ins'[u] = ins[u] /\ tgt'[u] = tgt[u]
        /\ pc[t] = "ready" /\ pc'[t] \in {"clear_str", "alloc", "puts", "ended", "check"}
        /\ UNCHANGED <<str, hnd, new, life, ub>> /\ ub = "none"
    BY <1>1, <2>1, <2>2 DEF Dispatch
  <2>4. RegisterOf(t)'
    BY <2>3 DEF RegisterOf
  <2> QED
    BY <2>3, <2>4, QuietStep
<1>2. CASE Halt(t)
  <2>1. RegisterOf(t)'
    BY <1>2 DEF Halt, RegisterOf
  <2> QED
    BY <1>2, <2>1, QuietStep DEF Halt
<1>3. CASE CopyStr(t)
  <2>1. Usable(str[Reg(t)])
    BY <1>3, RegisterInUse DEF CopyStr, OwnerParts, RegisterOK, RegisterOf, Within
  <2>2. RegisterOf(t)' /\ pc'[t] = "ready" /\ UNCHANGED ub
    BY <1>3, <2>1 DEF CopyStr, RegisterOf
  <2> QED
    BY <1>3, <2>1, <2>2, QuietStep DEF CopyStr
<1>4. CASE Puts(t)
  <2>1. RegisterOf(t)'
    BY <1>4 DEF Puts, RegisterOf, Reg
  <2> QED
    BY <1>4, <2>1, QuietStep DEF Puts
<1>5. CASE PrintStr(t)
  <2>1. /\ pc[t] = "print" /\ ub = "none" /\ tgt[t] = str[Reg(t)] /\ tgt[t] \in Objs
        /\ UNCHANGED <<str, hnd, new, life, ins>>
    BY <1>5 DEF PrintStr, PlaceOK, OwnerParts, RegisterOK, RegisterOf
  <2>2. Usable(tgt[t])
    <3>1. Within(t) /\ pc[t] # "forget_str" /\ str[Reg(t)] # NULL
      BY <2>1, NullApart DEF Within
    <3> QED
      BY <2>1, <3>1, RegisterInUse
  <2>3. pc' = [pc EXCEPT ![t] = "ready"] /\ UNCHANGED ub /\ tgt' = [tgt EXCEPT ![t] = NULL]
    BY <1>5, <2>2 DEF PrintStr
  <2>4. RegisterOf(t)'
    BY <2>1, <2>3 DEF RegisterOf
  <2> QED
    BY <2>1, <2>3, <2>4, QuietStep
<1>6. CASE Check(t) \/ Lock(t) \/ Unlock(t)
  <2>1. /\ pc[t] \in {"check", "MUTEX_LOCK", "MUTEX_UNLOCK"} /\ ub = "none"
        /\ \A u \in Threads \ {t} : pc'[u] = pc[u] /\ ins'[u] = ins[u] /\ tgt'[u] = tgt[u]
        /\ UNCHANGED <<str, hnd, new, life, ins>>
    BY <1>6 DEF Check, Lock, Unlock, Misuse, Undefined
  <2>2. Usable(hnd[Reg(t)]) \/ hnd[Reg(t)] = NULL
    BY <2>1, RegisterInUse DEF Within
  <2>3. CASE Usable(hnd[Reg(t)])
    <3>1. UNCHANGED ub
      BY <1>6, <2>3 DEF Check, Lock, Unlock
    <3>2. \/ pc'[t] = "wait" /\ tgt'[t] = hnd[Reg(t)]
          \/ pc'[t] \in {"ended", "ready"}
          \/ pc[t] = "check" /\ pc'[t] = ins[t].op
      BY <1>6, <2>3 DEF Check, Lock, Unlock
    <3>3. pc[t] = "check" => ins[t].op \in {"MUTEX_LOCK", "MUTEX_UNLOCK", "MUTEX_DESTROY"}
      BY DEF PlaceOK
    <3>4. RegisterOf(t)'
      BY <2>1, <3>1, <3>2, <3>3 DEF RegisterOf, Reg
    <3> QED
      BY <2>1, <3>1, <3>2, <3>3, <3>4, QuietStep
  <2>4. CASE hnd[Reg(t)] = NULL
    <3>1. ub' = "null" /\ UNCHANGED pc
      BY <1>6, <2>4 DEF Check, Lock, Unlock, Misuse, Undefined, Usable
    <3>2. RegisterOf(t)'
      BY <2>1, <3>1 DEF RegisterOf
    <3> QED
      BY <2>1, <3>1, <3>2, QuietStep
  <2> QED
    BY <2>2, <2>3, <2>4
<1>7. CASE Granted(t)
  <2>1. /\ pc[t] = "wait" /\ ub = "none" /\ tgt[t] = hnd[Reg(t)] /\ tgt[t] \in Objs
        /\ UNCHANGED <<str, hnd, new, life, ins>>
    BY <1>7 DEF Granted, PlaceOK, OwnerParts, RegisterOK, RegisterOf
  <2>2. life[tgt[t]] # "freed"
    <3>1. Within(t) /\ pc[t] # "forget_hnd" /\ hnd[Reg(t)] # NULL
      BY <2>1, NullApart DEF Within
    <3>2. Usable(hnd[Reg(t)])
      BY <3>1, RegisterInUse
    <3> QED
      BY <2>1, <3>2 DEF Usable
  <2>3. pc' = [pc EXCEPT ![t] = "ready"] /\ UNCHANGED ub /\ tgt' = [tgt EXCEPT ![t] = NULL]
    BY <1>7, <2>2 DEF Granted
  <2>4. RegisterOf(t)'
    BY <2>1, <2>3 DEF RegisterOf
  <2> QED
    BY <2>1, <2>3, <2>4, QuietStep
<1> QED
  BY <1>1, <1>2, <1>3, <1>4, <1>5, <1>6, <1>7

LEMMA OwningSteps ==
  ASSUME TypeInv, OwnerParts, NEW t \in Threads,
         \/ Alloc(t) \/ ClearStr(t) \/ ForgetStr(t) \/ ClearHnd(t) \/ ForgetHnd(t)
         \/ Wipe(t) \/ LoadStr(t) \/ LoadHandle(t) \/ Destroy(t)
  PROVE  Kept'
<1> USE DEF At, Goto, TypeInv, TypeOK, Unbroken
<1>0. PICK r \in Regs : r = Reg(t)
  BY RegType
<1>1. r = Reg(t) /\ OwnedOnce(Own, life) /\ RegisterOK /\ ApartInv
  BY <1>0 DEF OwnerParts
<1> USE <1>0
<1>2. /\ <<r, "str">> \in AllPlaces /\ Own[<<r, "str">>] = StrOf(r) /\ Own'[<<r, "str">>] = StrOf(r)'
      /\ <<r, "hnd">> \in AllPlaces /\ Own[<<r, "hnd">>] = HndOf(r) /\ Own'[<<r, "hnd">>] = HndOf(r)'
      /\ <<t, "new">> \in AllPlaces /\ Own[<<t, "new">>] = new[t] /\ Own'[<<t, "new">>] = new'[t]
  BY <1>1, PlaceValues DEF PlacesHold
<1>3. CASE Alloc(t)
  <2>1. PICK o \in Objs :
          /\ Allocates(o, IF ins[t].op = "MUTEX_INIT" THEN "mutex" ELSE "thread")
          /\ new' = [new EXCEPT ![t] = o]
    BY <1>3 DEF Alloc
  <2>2. /\ pc[t] = "alloc" /\ ub = "none" /\ pc' = [pc EXCEPT ![t] = "clear_str"]
        /\ life[o] = "none" /\ life' = [life EXCEPT ![o] = "live"]
        /\ UNCHANGED <<ins, str, hnd, tgt, ub>>
    BY <1>3, <2>1 DEF Alloc, Allocates, Fresh
  <2>3. new[t] = NULL
    BY <2>2 DEF PlaceOK, Clearing
  <2>4. \A q \in Regs : StrOf(q)' = StrOf(q) /\ HndOf(q)' = HndOf(q)
    BY <2>2 DEF StrOf, HndOf, Forgets, Reg
  <2>5. \A p \in AllPlaces \ {<<t, "new">>} : Own'[p] = Own[p]
    BY <2>1, <2>4, OtherPlaces
  <2>6. OwnedOnce(Own', life')
    BY <1>1, <1>2, <2>1, <2>2, <2>3, <2>5, OwnTaken, OwnType
  <2>7. RegisterOK'
    BY <1>1, <2>2, RegisterStep DEF RegisterOf
  <2> QED
    BY <2>2, <2>6, <2>7 DEF Kept
<1>4. CASE ClearStr(t) /\ str[r] = NULL
  <2>1. /\ pc[t] = "clear_str" /\ ub = "none" /\ pc' = [pc EXCEPT ![t] = "clear_hnd"]
        /\ UNCHANGED <<ins, str, hnd, new, tgt, life, ub>>
    BY <1>4 DEF ClearStr
  <2>2. RegisterOf(t)'
    BY <1>4, <2>1 DEF RegisterOf, Reg
  <2> QED
    BY <2>1, <2>2, QuietStep
<1>5. CASE ClearStr(t) /\ str[r] # NULL
  <2>1. pc[t] = "clear_str" /\ ub = "none" /\ UNCHANGED <<ins, str, hnd, new, tgt>>
    BY <1>5 DEF ClearStr
  <2>2. Own[<<r, "str">>] = str[r] /\ life[str[r]] # "freed" /\ str[r] \in Objs
    <3>1. Within(t) /\ pc[t] # "forget_str" /\ str[Reg(t)] # NULL
      BY <1>1, <1>5, <2>1 DEF Within
    <3>2. Own[<<Reg(t), "str">>] = str[Reg(t)] /\ Usable(str[Reg(t)])
      BY <3>1, RegisterInUse
    <3> QED
      BY <1>1, <3>1, <3>2, RegType DEF Usable
  <2>3. /\ pc' = [pc EXCEPT ![t] = "forget_str"] /\ UNCHANGED ub
        /\ life' = [life EXCEPT ![str[r]] = "freed"]
    BY <1>5, <2>2 DEF ClearStr, Frees
  <2>4. \A q \in Regs \ {r} : StrOf(q)' = StrOf(q)
    BY <2>1, <2>3 DEF StrOf, Forgets, Reg
  <2>5. \A q \in Regs : HndOf(q)' = HndOf(q)
    BY <2>1, <2>3 DEF HndOf, Forgets, Reg
  <2>6. \A p \in AllPlaces \ {<<r, "str">>} : Own'[p] = Own[p]
    BY <2>1, <2>4, <2>5, OtherPlaces
  <2>7. StrOf(r)' = NULL
    BY <2>1, <2>3 DEF StrOf, Forgets, Reg
  <2>8. OwnedOnce(Own', life')
    <3>1. life \in [Objs -> {"none", "live", "destroyed", "freed"}]
      OBVIOUS
    <3> HIDE DEF TypeOK, TypeInv
    <3> QED
      BY <1>1, <1>2, <2>2, <2>3, <2>6, <2>7, <3>1, OwnDropped, OwnType DEF TypeInv
  <2>9. RegisterOK'
    BY <1>1, <2>1, <2>3, RegisterStep DEF RegisterOf
  <2> QED
    BY <2>1, <2>3, <2>8, <2>9 DEF Kept
<1>6. CASE ForgetStr(t)
  <2>1. /\ pc[t] = "forget_str" /\ ub = "none" /\ pc' = [pc EXCEPT ![t] = "clear_hnd"]
        /\ str' = [str EXCEPT ![r] = NULL]
        /\ UNCHANGED <<ins, hnd, new, tgt, life, ub>>
    BY <1>6 DEF ForgetStr
  <2>2. StrOf(r) = NULL /\ StrOf(r)' = NULL
    BY <1>1, <2>1 DEF StrOf, Forgets, Reg
  <2>3. \A q \in Regs \ {r} : StrOf(q)' = StrOf(q)
    BY <2>1 DEF StrOf, Forgets, Reg
  <2>4. \A q \in Regs : HndOf(q)' = HndOf(q)
    BY <2>1 DEF HndOf, Forgets, Reg
  <2>9. \A q \in Regs : StrOf(q)' = StrOf(q) /\ HndOf(q)' = HndOf(q)
    BY <2>2, <2>3, <2>4
  <2>5. \A p \in AllPlaces \ {} : Own'[p] = Own[p]
    BY <2>1, <2>9, OtherPlaces
  <2>6. OwnedOnce(Own', life')
    BY <1>1, <2>1, <2>5, OwnKept, OwnType
  <2>7. RegisterOf(t)' /\ Within(t) /\ Writes(ins[t].op)
    BY <1>1, <2>1 DEF RegisterOf, Reg, Within, PlaceOK, Clearing
  <2>8. RegisterOK'
    BY <1>1, <2>1, <2>7, RegisterStep
  <2> QED
    BY <2>1, <2>6, <2>8 DEF Kept
<1>7. CASE ClearHnd(t) /\ hnd[r] = NULL
  <2>1. /\ pc[t] = "clear_hnd" /\ ub = "none" /\ pc' = [pc EXCEPT ![t] = "wipe"]
        /\ UNCHANGED <<ins, str, hnd, new, tgt, life, ub>>
    BY <1>7 DEF ClearHnd
  <2>2. RegisterOf(t)'
    BY <1>1, <1>7, <2>1 DEF RegisterOK, RegisterOf, Reg
  <2> QED
    BY <2>1, <2>2, QuietStep
<1>8. CASE ClearHnd(t) /\ hnd[r] # NULL
  <2>1. pc[t] = "clear_hnd" /\ ub = "none" /\ UNCHANGED <<ins, str, hnd, new, tgt>>
    BY <1>8 DEF ClearHnd
  <2>2. Own[<<r, "hnd">>] = hnd[r] /\ life[hnd[r]] # "freed" /\ hnd[r] \in Objs
    <3>1. Within(t) /\ pc[t] # "forget_hnd" /\ hnd[Reg(t)] # NULL
      BY <1>1, <1>8, <2>1 DEF Within
    <3>2. Own[<<Reg(t), "hnd">>] = hnd[Reg(t)] /\ Usable(hnd[Reg(t)])
      BY <3>1, RegisterInUse
    <3> QED
      BY <1>1, <3>1, <3>2, RegType DEF Usable
  <2>3. /\ pc' = [pc EXCEPT ![t] = "forget_hnd"] /\ UNCHANGED ub
        /\ life' = [life EXCEPT ![hnd[r]] = "freed"]
    BY <1>8, <2>2 DEF ClearHnd, Frees
  <2>4. \A q \in Regs \ {r} : HndOf(q)' = HndOf(q)
    BY <2>1, <2>3 DEF HndOf, Forgets, Reg
  <2>5. \A q \in Regs : StrOf(q)' = StrOf(q)
    BY <2>1, <2>3 DEF StrOf, Forgets, Reg
  <2>6. \A p \in AllPlaces \ {<<r, "hnd">>} : Own'[p] = Own[p]
    BY <2>1, <2>4, <2>5, OtherPlaces
  <2>7. HndOf(r)' = NULL
    BY <2>1, <2>3 DEF HndOf, Forgets, Reg
  <2>8. OwnedOnce(Own', life')
    <3>1. life \in [Objs -> {"none", "live", "destroyed", "freed"}]
      OBVIOUS
    <3> HIDE DEF TypeOK, TypeInv
    <3> QED
      BY <1>1, <1>2, <2>2, <2>3, <2>6, <2>7, <3>1, OwnDropped, OwnType DEF TypeInv
  <2>9. RegisterOf(t)'
    BY <1>1, <2>1, <2>3 DEF RegisterOK, RegisterOf, Reg
  <2>10. RegisterOK'
    BY <1>1, <2>1, <2>3, <2>9, RegisterStep
  <2> QED
    BY <2>1, <2>3, <2>8, <2>10 DEF Kept
<1>9. CASE ForgetHnd(t)
  <2>1. /\ pc[t] = "forget_hnd" /\ ub = "none" /\ pc' = [pc EXCEPT ![t] = "wipe"]
        /\ hnd' = [hnd EXCEPT ![r] = NULL]
        /\ UNCHANGED <<ins, str, new, tgt, life, ub>>
    BY <1>9 DEF ForgetHnd
  <2>2. HndOf(r) = NULL /\ HndOf(r)' = NULL
    BY <1>1, <2>1 DEF HndOf, Forgets, Reg
  <2>3. \A q \in Regs \ {r} : HndOf(q)' = HndOf(q)
    BY <2>1 DEF HndOf, Forgets, Reg
  <2>4. \A q \in Regs : StrOf(q)' = StrOf(q)
    BY <2>1 DEF StrOf, Forgets, Reg
  <2>9. \A q \in Regs : StrOf(q)' = StrOf(q) /\ HndOf(q)' = HndOf(q)
    BY <2>2, <2>3, <2>4
  <2>5. \A p \in AllPlaces \ {} : Own'[p] = Own[p]
    BY <2>1, <2>9, OtherPlaces
  <2>6. OwnedOnce(Own', life')
    BY <1>1, <2>1, <2>5, OwnKept, OwnType
  <2>7. RegisterOf(t)' /\ Within(t) /\ Writes(ins[t].op)
    BY <1>1, <2>1 DEF RegisterOK, RegisterOf, Reg, Within, PlaceOK, Clearing
  <2>8. RegisterOK'
    BY <1>1, <2>1, <2>7, RegisterStep
  <2> QED
    BY <2>1, <2>6, <2>8 DEF Kept
<1>10. CASE Wipe(t)
  <2>1. /\ pc[t] = "wipe" /\ ub = "none" /\ str[r] = NULL /\ hnd[r] = NULL
        /\ UNCHANGED <<ins, new, tgt, life, ub>>
    BY <1>1, <1>10 DEF Wipe, RegisterOK, RegisterOf
  <2>2. UNCHANGED <<str, hnd>>
    BY <1>10, <2>1 DEF Wipe
  <2>3. \E q \in {"load_str", "load_handle", "ready"} : pc' = [pc EXCEPT ![t] = q]
    BY <1>10 DEF Wipe, Done
  <2>4. RegisterOf(t)'
    BY <2>1, <2>2, <2>3 DEF RegisterOf, Reg
  <2> QED
    BY <2>1, <2>2, <2>3, <2>4, QuietStep
<1>11. CASE LoadStr(t)
  <2>1. PICK o \in Objs : Allocates(o, "str") /\ str' = [str EXCEPT ![r] = o]
    BY <1>11 DEF LoadStr
  <2>2. /\ pc[t] = "load_str" /\ ub = "none" /\ pc' = [pc EXCEPT ![t] = "copy_str"]
        /\ life[o] = "none" /\ life' = [life EXCEPT ![o] = "live"]
        /\ UNCHANGED <<ins, hnd, new, tgt, ub>>
    BY <1>11, <2>1 DEF LoadStr, Allocates, Fresh
  <2>3. Within(t) /\ Writes(ins[t].op)
    BY <2>2 DEF PlaceOK, Within, Writes
  <2>4. ~Forgets(r, "forget_str")
    BY <1>1, <2>2, <2>3, NotForgotten
  <2>5. StrOf(r) = NULL /\ StrOf(r)' = o
    <3>1. ~Forgets(r, "forget_str")'
      BY <2>2, <2>4 DEF Forgets, Reg
    <3> QED
      BY <1>1, <2>1, <2>2, <2>4, <3>1 DEF StrOf, RegisterOK, RegisterOf, Reg
  <2>6. \A q \in Regs \ {r} : StrOf(q)' = StrOf(q)
    BY <2>1, <2>2 DEF StrOf, Forgets, Reg
  <2>7. \A q \in Regs : HndOf(q)' = HndOf(q)
    BY <2>2 DEF HndOf, Forgets, Reg
  <2>8. \A p \in AllPlaces \ {<<r, "str">>} : Own'[p] = Own[p]
    BY <2>2, <2>6, <2>7, OtherPlaces
  <2>9. OwnedOnce(Own', life')
    BY <1>1, <1>2, <2>2, <2>5, <2>8, OwnTaken, OwnType
  <2>10. RegisterOf(t)'
    BY <1>1, <2>1, <2>2, NullApart DEF RegisterOf, Reg
  <2>11. RegisterOK'
    BY <1>1, <2>1, <2>2, <2>3, <2>10, RegisterStep
  <2> QED
    BY <2>2, <2>9, <2>11 DEF Kept
<1>12. CASE LoadHandle(t)
  <2>1. /\ pc[t] = "load_handle" /\ ub = "none" /\ pc' = [pc EXCEPT ![t] = "ready"]
        /\ hnd' = [hnd EXCEPT ![r] = new[t]] /\ new' = [new EXCEPT ![t] = NULL]
        /\ UNCHANGED <<ins, str, life, tgt, ub>>
    BY <1>12 DEF LoadHandle, Done
  <2>2. Within(t) /\ Writes(ins[t].op)
    BY <2>1 DEF PlaceOK, Within, Writes, Handles
  <2>3. ~Forgets(r, "forget_hnd")
    BY <1>1, <2>1, <2>2, NotForgotten
  <2>4. HndOf(r) = NULL /\ HndOf(r)' = new[t]
    <3>1. ~Forgets(r, "forget_hnd")'
      BY <2>1, <2>3 DEF Forgets, Reg
    <3> QED
      BY <1>1, <2>1, <2>3, <3>1 DEF HndOf, RegisterOK, RegisterOf, Reg
  <2>5. \A q \in Regs \ {r} : HndOf(q)' = HndOf(q)
    BY <2>1 DEF HndOf, Forgets, Reg
  <2>6. \A q \in Regs : StrOf(q)' = StrOf(q)
    BY <2>1 DEF StrOf, Forgets, Reg
  <2>7. \A p \in AllPlaces \ {<<t, "new">>, <<r, "hnd">>} : Own'[p] = Own[p]
    BY <2>1, <2>5, <2>6, OtherPlaces
  <2>11. new'[t] = NULL /\ <<t, "new">> # <<r, "hnd">>
    BY <2>1
  <2>8. OwnedOnce(Own', life)
    BY <1>1, <1>2, <2>4, <2>7, <2>11, OwnMoved
  <2>9. RegisterOf(t)'
    BY <2>1 DEF RegisterOf, Reg
  <2>10. RegisterOK'
    BY <1>1, <2>1, <2>2, <2>9, RegisterStep
  <2> QED
    BY <2>1, <2>8, <2>10 DEF Kept
<1>13. CASE Destroy(t)
  <2>1. pc[t] = "MUTEX_DESTROY" /\ ub = "none" /\ UNCHANGED <<ins, str, hnd, new, tgt>>
    BY <1>13 DEF Destroy
  <2>2. CASE hnd[r] = NULL
    <3>1. ub' = "null" /\ UNCHANGED <<pc, life>>
      BY <1>13, <2>2 DEF Destroy, Misuse, Undefined, Usable
    <3> QED
      BY <2>1, <3>1, QuietStep DEF RegisterOf
  <2>3. CASE hnd[r] # NULL
    <3>1. Usable(hnd[r]) /\ life[hnd[r]] \in {"live", "destroyed"}
      BY <2>1, <2>3, RegisterInUse DEF Within
    <3>2. /\ pc' = [pc EXCEPT ![t] = "clear_str"] /\ UNCHANGED ub
          /\ life' = [life EXCEPT ![hnd[r]] = IF owner[hnd[r]] = NULL THEN "destroyed" ELSE @]
      BY <1>13, <3>1 DEF Destroy
    <3>3. \A o \in Objs : life'[o] = life[o] \/ {life[o], life'[o]} \subseteq {"live", "destroyed"}
      BY <3>1, <3>2
    <3> QED
      BY <2>1, <3>2, <3>3, QuietStep DEF RegisterOf
  <2> QED
    BY <2>2, <2>3
<1> QED
  BY <1>3, <1>4, <1>5, <1>6, <1>7, <1>8, <1>9, <1>10, <1>11, <1>12, <1>13

\* When all threads have ended the machine frees what the registers own, which is
\* all there is.
LEMMA EndStep ==
  ASSUME TypeInv, OwnerParts, EndMachine
  PROVE  OwnerParts'
<1>1. /\ \A t \in Threads : pc[t] = "ended" /\ new[t] = NULL /\ ~Within(t)
      /\ UNCHANGED <<pc, ins, new>> /\ OwnedOnce(Own, life)
  BY DEF EndMachine, TypeInv, PlaceOK, Clearing, Within, OwnerParts
<1>2. \A r \in Regs : StrOf(r) = str[r] /\ HndOf(r) = hnd[r]
  BY <1>1 DEF StrOf, HndOf, Forgets
<1>3. \A r \in Regs : /\ <<r, "str">> \in AllPlaces /\ Own[<<r, "str">>] = str[r]
                      /\ <<r, "hnd">> \in AllPlaces /\ Own[<<r, "hnd">>] = hnd[r]
  BY <1>2, PlaceValues DEF PlacesHold
<1>4. \A o \in Held \ {NULL} : \E p \in AllPlaces : Own[p] = o
  BY <1>3 DEF Held
<1>5. \A o \in Held \ {NULL} : life[o] # "freed"
  BY <1>1, <1>4 DEF OwnedOnce
<1>6. \A r, q \in Regs : r # q => ({str[r], hnd[r]} \cap {str[q], hnd[q]}) \ {NULL} = {}
  <2> SUFFICES ASSUME NEW r \in Regs, NEW q \in Regs, r # q,
                      NEW o, o # NULL, o \in {str[r], hnd[r]}, o \in {str[q], hnd[q]}
               PROVE  FALSE
    OBVIOUS
  <2>1. PICK a \in {<<r, "str">>, <<r, "hnd">>} : a \in AllPlaces /\ Own[a] = o
    BY <1>3
  <2>2. PICK b \in {<<q, "str">>, <<q, "hnd">>} : b \in AllPlaces /\ Own[b] = o
    BY <1>3
  <2>3. a # b
    OBVIOUS
  <2> QED
    BY <1>1, <2>1, <2>2, <2>3 DEF OwnedOnce
<1>7. ub' = "none" /\ \A r \in Regs : str'[r] = NULL /\ hnd'[r] = NULL
  BY <1>5, <1>6 DEF EndMachine
<1>8. \A p \in AllPlaces : Own'[p] = NULL
  <2>1. \A r \in Regs : StrOf(r)' = NULL /\ HndOf(r)' = NULL
    BY <1>7 DEF StrOf, HndOf
  <2> QED
    BY <1>1, <2>1 DEF AllPlaces, StrPlaces, HndPlaces, NewPlaces, Own
<1>9. \A o \in Objs : life'[o] \in {"live", "destroyed"} => o \notin Held /\ life'[o] = life[o]
  BY DEF EndMachine
<1>10. \A p \in AllPlaces : Own[p] # NULL => Own[p] \in Held
  BY <1>1, <1>2, PlaceKinds DEF Held
<1>11. OwnedOnce(Own', life')
  BY <1>1, <1>8, <1>9, <1>10, NullApart DEF OwnedOnce
<1>12. ApartInv'
  BY <1>1 DEF ApartInv, Within
<1>13. RegisterOK'
  BY <1>1 DEF RegisterOK, RegisterOf
<1> QED
  BY <1>7, <1>11, <1>12, <1>13 DEF OwnerParts, Unbroken

LEMMA InitOwner == Init => OwnerInv
<1> SUFFICES ASSUME Init PROVE OwnerParts
  BY DEF OwnerInv
<1>1. MutexReg \in Regs /\ Main \in Objs /\ NULL \notin Objs
  BY RegistersOK DEF Main, Objs
<1>2. \A r \in Regs : StrOf(r) = NULL /\ HndOf(r) = IF r = MutexReg THEN Main ELSE NULL
  BY DEF Init, StrOf, HndOf, Forgets
<1>3. \A p \in AllPlaces : Own[p] = IF p = <<MutexReg, "hnd">> THEN Main ELSE NULL
  <2> TAKE p \in AllPlaces
  <2>1. CASE \E r \in Regs : p = <<r, "str">> /\ Own[p] = StrOf(r)
    BY <1>2, <2>1
  <2>2. CASE \E r \in Regs : p = <<r, "hnd">> /\ Own[p] = HndOf(r)
    BY <1>2, <2>2
  <2>3. CASE \E t \in Threads : p = <<t, "new">> /\ Own[p] = new[t]
    BY <2>3 DEF Init
  <2> QED
    BY <2>1, <2>2, <2>3, PlaceKinds
<1>4. <<MutexReg, "hnd">> \in AllPlaces
  BY <1>1 DEF AllPlaces, HndPlaces
<1>5. \A o \in Objs : life[o] = IF o = Main THEN "live" ELSE "none"
  BY DEF Init
<1>6. OwnedOnce(Own, life)
  BY <1>1, <1>3, <1>4, <1>5 DEF OwnedOnce
<1>7. ApartInv /\ RegisterOK /\ Unbroken
  BY DEF Init, ApartInv, RegisterOK, RegisterOf, Within, Unbroken
<1> QED
  BY <1>6, <1>7 DEF OwnerParts

LEMMA NextOwner == TypeInv /\ OwnerInv /\ [Next]_vars => OwnerInv'
<1> SUFFICES ASSUME TypeInv, OwnerInv, [Next]_vars, ~race' PROVE OwnerParts'
  BY DEF OwnerInv
<1>1. ASSUME NEW t \in Threads, Step(t) PROVE OwnerParts'
  <2>1. ~race
    <3>1. CASE Dispatch(t)
      BY <3>1 DEF Dispatch
    <3>2. CASE ~Dispatch(t)
      BY <1>1, <3>2, Zenon DEF Step, Halt, Alloc, ClearStr, ForgetStr, ClearHnd, ForgetHnd,
         Wipe, LoadStr, CopyStr, LoadHandle, Puts, PrintStr, Check, Lock, Granted, Unlock,
         Destroy
    <3> QED
      BY <3>1, <3>2
  <2>2. OwnerParts
    BY <2>1 DEF OwnerInv
  <2>3. ApartInv'
    BY <1>1, <2>2, StepApart DEF OwnerParts
  <2>4. Kept'
    BY <1>1, <2>2, QuietSteps, OwningSteps, Zenon DEF Step
  <2> QED
    BY <2>3, <2>4 DEF OwnerParts, Kept
<1>2. CASE EndMachine
  BY <1>2, EndStep DEF EndMachine, OwnerInv
<1>3. CASE UNCHANGED vars
  <2>1. OwnerParts
    BY <1>3 DEF OwnerInv
  <2>2. OwnedOnce(Own, life)'
    BY <1>3, <2>1, StillOwned DEF OwnerParts
  <2>3. ApartInv' /\ RegisterOK' /\ Unbroken'
    BY <1>3, <2>1 DEF OwnerParts, ApartInv, RegisterOK, RegisterOf, Within, Reg, Unbroken
  <2> QED
    BY <2>2, <2>3 DEF OwnerParts
<1> QED
  BY <1>1, <1>2, <1>3 DEF Next

LEMMA OwnersCounted ==
  ASSUME TypeInv, OwnedOnce(Own, life), NEW o \in Objs
  PROVE  Cardinality(Owns(o)) = (IF life[o] \in {"live", "destroyed"} THEN 1 ELSE 0)
<1>1. \A r \in Regs : /\ StrOf(r) = o <=> str[r] = o /\ ~Forgets(r, "forget_str")
                      /\ HndOf(r) = o <=> hnd[r] = o /\ ~Forgets(r, "forget_hnd")
  BY NullApart DEF StrOf, HndOf
<1>2. Owns(o) = {p \in AllPlaces : Own[p] = o}
  <2>1. ASSUME NEW p \in Owns(o) PROVE p \in AllPlaces /\ Own[p] = o
    <3>1. \/ \E r \in Regs : p = <<r, "str">> /\ StrOf(r) = o
          \/ \E r \in Regs : p = <<r, "hnd">> /\ HndOf(r) = o
          \/ \E t \in Threads : p = <<t, "new">> /\ new[t] = o
      BY <1>1 DEF Owns, Forgets
    <3> QED
      BY <3>1, PlaceValues DEF PlacesHold
  <2>2. ASSUME NEW p \in AllPlaces, Own[p] = o PROVE p \in Owns(o)
    <3>1. CASE \E r \in Regs : p = <<r, "str">> /\ StrOf(r) = o
      BY <1>1, <3>1 DEF Owns, Forgets
    <3>2. CASE \E r \in Regs : p = <<r, "hnd">> /\ HndOf(r) = o
      BY <1>1, <3>2 DEF Owns, Forgets
    <3>3. CASE \E t \in Threads : p = <<t, "new">> /\ new[t] = o
      BY <3>3 DEF Owns
    <3> QED
      BY <2>2, <3>1, <3>2, <3>3, PlaceKinds
  <2> QED
    BY <2>1, <2>2
<1>3. CASE life[o] \in {"live", "destroyed"}
  <2>1. PICK p \in AllPlaces : Own[p] = o
    BY <1>3 DEF OwnedOnce
  <2>2. Owns(o) = {p}
    BY <1>2, <2>1, NullApart DEF OwnedOnce
  <2> QED
    BY <1>3, <2>2, FS_Singleton
<1>4. CASE life[o] \notin {"live", "destroyed"}
  <2>1. Owns(o) = {}
    BY <1>2, <1>4, NullApart DEF OwnedOnce
  <2> QED
    BY <1>4, <2>1, FS_EmptySet
<1> QED
  BY <1>3, <1>4

\* As long as no two threads meet in a register, one of them writing it, every
\* string and handle has one owner until it is freed: nothing is freed twice,
\* used after its end or leaked.
THEOREM EveryAllocationOwned == Spec => []OneOwner
<1>1. TypeInv /\ OwnerInv => OneOwner
  BY OwnersCounted DEF OwnerInv, OwnerParts, OneOwner, Unbroken
<1> QED
  BY <1>1, InitType, NextType, InitOwner, NextOwner, PTL DEF Spec

-----------------------------------------------------------------------------
\* Depth is defined by recursion; its equation, and that it counts.

DepthAfter(is, n) ==
  CASE is = OnMutex("MUTEX_LOCK") -> n + 1
    [] is = OnMutex("MUTEX_UNLOCK") /\ n > 0 -> n - 1
    [] OTHER -> n

LEMMA Codes == OnMutex("MUTEX_UNLOCK") # OnMutex("MUTEX_LOCK")
<1> DEFINE i(op) == [op |-> op, reg |-> MutexReg]
<1>1. i("MUTEX_UNLOCK").op # i("MUTEX_LOCK").op
  OBVIOUS
<1>2. i("MUTEX_UNLOCK") # i("MUTEX_LOCK")
  BY <1>1
<1> HIDE DEF i
<1>3. {i("MUTEX_UNLOCK")} # {i("MUTEX_LOCK")}
  BY <1>2
<1> QED
  BY <1>3 DEF OnMutex, i

LEMMA AfterLock ==
  \A n \in Nat : DepthAfter(OnMutex("MUTEX_LOCK"), n) = n + 1
  BY Codes DEF DepthAfter

LEMMA AfterUnlock ==
  /\ DepthAfter(OnMutex("MUTEX_UNLOCK"), 0) = 0
  /\ \A n \in Nat \ {0} : DepthAfter(OnMutex("MUTEX_UNLOCK"), n) = n - 1
  BY Codes DEF DepthAfter

CountsUpTo(code, n, d) ==
  d = [k \in 0 .. n |-> IF k = 0 THEN 0 ELSE DepthAfter(code[k], d[k - 1])]

LEMMA Counts ==
  ASSUME NEW code
  PROVE  \A n \in Nat : \E d : CountsUpTo(code, n, d)
<1> DEFINE S == {n \in Nat : \E d : CountsUpTo(code, n, d)}
<1>1. 0 \in S
  <2>1. CountsUpTo(code, 0, [k \in 0 .. 0 |-> 0])
    BY DEF CountsUpTo
  <2> QED
    BY <2>1
<1>2. ASSUME NEW n \in Nat, n \in S PROVE n + 1 \in S
  <2>1. PICK d : CountsUpTo(code, n, d)
    BY <1>2
  <2> DEFINE e == [k \in 0 .. n + 1 |-> IF k = n + 1 THEN DepthAfter(code[k], d[n]) ELSE d[k]]
  <2>2. \A k \in 0 .. n : e[k] = d[k]
    OBVIOUS
  <2>3. \A k \in 0 .. n : d[k] = IF k = 0 THEN 0 ELSE DepthAfter(code[k], d[k - 1])
    BY <2>1 DEF CountsUpTo
  <2>4. \A k \in 0 .. n + 1 : e[k] = IF k = 0 THEN 0 ELSE DepthAfter(code[k], e[k - 1])
    <3> TAKE k \in 0 .. n + 1
    <3>1. CASE k = n + 1
      <4>1. e[k - 1] = d[n] /\ e[k] = DepthAfter(code[k], d[n])
        BY <2>2, <3>1
      <4> QED
        BY <3>1, <4>1
    <3>2. CASE k = 0
      BY <2>2, <2>3, <3>2
    <3>3. CASE k \in 1 .. n
      <4>1. k - 1 \in 0 .. n /\ e[k] = d[k] /\ e[k - 1] = d[k - 1]
        BY <2>2, <3>3
      <4> QED
        BY <2>3, <3>3, <4>1
    <3> QED
      BY <3>1, <3>2, <3>3
  <2>5. CountsUpTo(code, n + 1, e)
    <3> HIDE DEF e
    <3>1. e = [k \in 0 .. n + 1 |-> e[k]]
      BY DEF e
    <3> QED
      BY <2>4, <3>1 DEF CountsUpTo
  <2> QED
    BY <2>5
<1> QED
  BY <1>1, <1>2, Shared!InductionOnNat

LEMMA DepthEquation ==
  ASSUME NEW code, Len(code) \in Nat
  PROVE  CountsUpTo(code, Len(code), Depth(code))
<1>1. PICK d : CountsUpTo(code, Len(code), d)
  BY Counts
<1> QED
  BY <1>1 DEF Depth, CountsUpTo, DepthAfter

LEMMA DepthSteps ==
  ASSUME NEW code, Len(code) \in Nat
  PROVE  /\ Depth(code)[0] = 0
         /\ \A k \in 1 .. Len(code) :
              Depth(code)[k] = DepthAfter(code[k], Depth(code)[k - 1])
<1> DEFINE d == Depth(code)
<1>1. CountsUpTo(code, Len(code), d)
  BY DepthEquation
<1> HIDE DEF d
<1> SUFFICES /\ d[0] = 0
             /\ \A k \in 1 .. Len(code) : d[k] = DepthAfter(code[k], d[k - 1])
  BY DEF d
<1>2. \A k \in 0 .. Len(code) : d[k] = IF k = 0 THEN 0 ELSE DepthAfter(code[k], d[k - 1])
  BY <1>1 DEF CountsUpTo
<1> QED
  BY <1>2

-----------------------------------------------------------------------------
\* The invariant.

\* A thread has the mutex as often as Depth says of the instructions behind it.
HeldBy(t) == IF owner[Main] = t THEN depth[Main] ELSE 0
DepthOf(t) == Depth(prog[t])[ip[t] - 1]
DepthOKOf(t) ==
  /\ Within(t) => ip[t] \in DOMAIN prog[t] /\ ins[t] \in prog[t][ip[t]]
  /\ pc[t] # "ended" => ip[t] - 1 \in 0 .. Len(prog[t]) /\ HeldBy(t) = DepthOf(t)
DepthOK == \A t \in Threads : DepthOKOf(t)

\* The mutex stays where the main thread has put it.
MutexOK ==
  /\ machine = "running" => /\ hnd[MutexReg] = Main /\ str[MutexReg] = NULL
                            /\ kind[Main] = "mutex" /\ life[Main] = "live"
  /\ machine = "freed" => \A t \in Threads : pc[t] = "ended"

LockParts == ~race /\ DepthOK /\ MutexOK /\ (ub # "none" => ub = "null" /\ ~OneMutex(prog))
LockInv == Disciplined(prog) => LockParts

\* What the places of an instruction say of it.
LEMMA MutexTypes ==
  ASSUME TypeInv, NEW t \in Threads
  PROVE  /\ Main \in Objs /\ MutexReg \in Regs /\ prog[t] \in Seq(SUBSET Instr)
         /\ Len(prog[t]) \in Nat /\ DOMAIN prog[t] = 1 .. Len(prog[t])
         /\ ip[t] \in Nat \ {0} /\ ins[t] \in Instr /\ ins[t].op \in Ops
         /\ Within(t) => ins[t].op # "THREAD_EXIT"
<1>1. Main \in Objs /\ MutexReg \in Regs
  BY RegistersOK DEF Main, Objs
<1>2. ip[t] \in Nat \ {0} /\ ins[t] \in Instr /\ pc[t] \in Places
  BY DEF TypeInv, TypeOK
<1>3. ins[t].op \in Ops
  BY <1>2 DEF Instr
<1>4. Within(t) => ins[t].op # "THREAD_EXIT"
  BY <1>2 DEF TypeInv, PlaceOK, Within, Places, Clearing, Writes, Handles
<1> QED
  BY <1>1, <1>2, <1>3, <1>4, ProgramSets DEF TypeInv

\* An instruction of a disciplined program locks or unlocks the mutex, exits, or
\* uses another register and belongs to the thread that has the mutex.
LEMMA Kinds ==
  ASSUME TypeInv, Disciplined(prog), NEW t \in Threads,
         ip[t] \in DOMAIN prog[t], HeldBy(t) = DepthOf(t), NEW i \in prog[t][ip[t]]
  PROVE  \/ /\ i.reg = MutexReg /\ i.op \in {"MUTEX_LOCK", "MUTEX_UNLOCK"}
            /\ prog[t][ip[t]] = OnMutex(i.op)
         \/ i.op = "THREAD_EXIT"
         \/ /\ i.reg # MutexReg /\ owner[Main] = t
            /\ Depth(prog[t])[ip[t]] = DepthOf(t)
<1>1. \/ prog[t][ip[t]] \in {OnMutex("MUTEX_LOCK"), OnMutex("MUTEX_UNLOCK")}
      \/ i.op = "THREAD_EXIT"
      \/ i.reg # MutexReg /\ DepthOf(t) > 0
  BY DEF Disciplined, Guarded, DepthOf
<1>2. CASE prog[t][ip[t]] \in {OnMutex("MUTEX_LOCK"), OnMutex("MUTEX_UNLOCK")}
  BY <1>2 DEF OnMutex
<1>3. CASE i.reg # MutexReg /\ DepthOf(t) > 0
  <2>1. owner[Main] = t
    BY <1>3 DEF HeldBy
  <2>2. ip[t] \in 1 .. Len(prog[t])
    BY MutexTypes
  <2>3. Depth(prog[t])[ip[t]] = DepthAfter(prog[t][ip[t]], DepthOf(t))
    BY <2>2, DepthSteps, MutexTypes DEF DepthOf
  <2>4. \A op \in Ops : prog[t][ip[t]] # OnMutex(op)
    BY <1>3 DEF OnMutex
  <2>5. Depth(prog[t])[ip[t]] = DepthOf(t)
    BY <2>3, <2>4 DEF DepthAfter, Ops
  <2> QED
    BY <1>3, <2>1, <2>5
<1> QED
  BY <1>1, <1>2, <1>3

LockState ==
  TypeInv /\ OwnerParts /\ Disciplined(prog) /\ LockParts

\* Where a thread is in an instruction, and what it has in hand there.
LEMMA Inside ==
  ASSUME LockState, NEW t \in Threads, Within(t)
  PROVE  /\ machine = "running" /\ hnd[MutexReg] = Main /\ life[Main] = "live"
         /\ kind[Main] = "mutex" /\ str[MutexReg] = NULL
         /\ \/ /\ Reg(t) = MutexReg /\ ins[t].op \in {"MUTEX_LOCK", "MUTEX_UNLOCK"}
               /\ prog[t][ip[t]] = OnMutex(ins[t].op)
            \/ /\ Reg(t) # MutexReg /\ owner[Main] = t
               /\ Depth(prog[t])[ip[t]] = DepthOf(t)
<1>1. machine = "running"
  BY DEF LockState, LockParts, MutexOK, Within, TypeInv, TypeOK
<1>2. ip[t] \in DOMAIN prog[t] /\ HeldBy(t) = DepthOf(t) /\ ins[t] \in prog[t][ip[t]]
  BY DEF LockState, LockParts, DepthOK, DepthOKOf, Within
<1>3. ins[t].op # "THREAD_EXIT"
  BY MutexTypes DEF LockState
<1> QED
  BY <1>1, <1>2, <1>3, Kinds DEF LockState, LockParts, MutexOK, Reg

\* No other register holds the mutex.
LEMMA OnlyThere ==
  ASSUME LockState, NEW t \in Threads, Within(t), Reg(t) # MutexReg
  PROVE  /\ pc[t] # "forget_str" => str[Reg(t)] # Main
         /\ pc[t] # "forget_hnd" => hnd[Reg(t)] # Main
<1>1. Main \in Objs /\ MutexReg \in Regs /\ Main # NULL /\ Reg(t) \in Regs
  BY MutexTypes, NullApart, RegType DEF LockState, TypeInv
<1>2. ~Forgets(MutexReg, "forget_hnd")
  <2> SUFFICES ASSUME NEW u \in Threads, pc[u] = "forget_hnd", Reg(u) = MutexReg PROVE FALSE
    BY DEF Forgets
  <2>1. Within(u) /\ Writes(ins[u].op)
    BY DEF Within, LockState, TypeInv, PlaceOK, Clearing
  <2> QED
    BY <2>1, Inside DEF Writes
<1>3. <<MutexReg, "hnd">> \in AllPlaces /\ Own[<<MutexReg, "hnd">>] = Main
  BY <1>1, <1>2, Inside, PlaceValues DEF PlacesHold, HndOf
<1>4. /\ pc[t] # "forget_str" /\ str[Reg(t)] # NULL => Own[<<Reg(t), "str">>] = str[Reg(t)]
      /\ pc[t] # "forget_hnd" /\ hnd[Reg(t)] # NULL => Own[<<Reg(t), "hnd">>] = hnd[Reg(t)]
  BY RegisterInUse DEF LockState
<1>5. <<Reg(t), "str">> \in AllPlaces /\ <<Reg(t), "hnd">> \in AllPlaces
  BY <1>1, PlaceValues DEF PlacesHold
<1>6. \A p, q \in AllPlaces : Own[p] = Own[q] /\ Own[p] # NULL => p = q
  BY DEF LockState, OwnerParts, OwnedOnce
<1>7. <<Reg(t), "str">> # <<MutexReg, "hnd">> /\ <<Reg(t), "hnd">> # <<MutexReg, "hnd">>
  OBVIOUS
<1> QED
  BY <1>1, <1>3, <1>4, <1>5, <1>6, <1>7

-----------------------------------------------------------------------------
\* Each step keeps the discipline.

LEMMA NobodyMeets ==
  ASSUME LockState, NEW t \in Threads, Step(t)
  PROVE  ~race'
<1>1. CASE Dispatch(t)
  <2>1. PICK i \in prog[t][ip[t]] : race' = (race \/ (i.op # "THREAD_EXIT" /\ Meets(t, i)))
    BY <1>1 DEF Dispatch
  <2>2. pc[t] = "ready" /\ ip[t] <= Len(prog[t])
    BY <1>1 DEF Dispatch, At
  <2>3. ip[t] \in DOMAIN prog[t] /\ HeldBy(t) = DepthOf(t)
    BY <2>2, MutexTypes DEF LockState, LockParts, DepthOK, DepthOKOf
  <2>4. ~race
    BY DEF LockState, LockParts
  <2> SUFFICES ASSUME i.op # "THREAD_EXIT", NEW u \in Threads \ {t}, Within(u), Reg(u) = i.reg,
                      Writes(i.op) \/ Writes(ins[u].op)
               PROVE  FALSE
    BY <2>1, <2>4 DEF Meets
  <2>5. \/ i.reg = MutexReg /\ i.op \in {"MUTEX_LOCK", "MUTEX_UNLOCK"}
        \/ i.reg # MutexReg /\ owner[Main] = t
    BY <2>3, Kinds DEF LockState
  <2>6. \/ Reg(u) = MutexReg /\ ins[u].op \in {"MUTEX_LOCK", "MUTEX_UNLOCK"}
        \/ Reg(u) # MutexReg /\ owner[Main] = u
    BY Inside
  <2> QED
    BY <2>5, <2>6 DEF Writes
<1>2. CASE ~Dispatch(t)
  BY <1>2, Zenon DEF Step, Halt, Alloc, ClearStr, ForgetStr, ClearHnd, ForgetHnd,
     Wipe, LoadStr, CopyStr, LoadHandle, Puts, PrintStr, Check, Lock, Granted, Unlock,
     Destroy, LockState, LockParts
<1> QED
  BY <1>1, <1>2

\* Away from the mutex the count stays what it is.
LEMMA DepthKept ==
  ASSUME LockState, NEW t \in Threads, prog' = prog,
         \A u \in Threads \ {t} : pc'[u] = pc[u] /\ ip'[u] = ip[u] /\ ins'[u] = ins[u],
         owner'[Main] = owner[Main], depth'[Main] = depth[Main],
         \/ pc'[t] = "ended"
         \/ Within(t) /\ ip'[t] = ip[t] /\ ins'[t] = ins[t]
         \/ /\ Within(t) /\ pc'[t] = "ready" /\ ip'[t] = ip[t] + 1
            /\ Reg(t) # MutexReg
  PROVE  DepthOK'
<1>1. \A u \in Threads : DepthOKOf(u) /\ HeldBy(u)' = HeldBy(u)
  BY DEF LockState, LockParts, DepthOK, HeldBy
<1>2. \A u \in Threads \ {t} : DepthOKOf(u)'
  BY <1>1 DEF DepthOKOf, DepthOf, Within
<1>3. CASE pc'[t] = "ended"
  BY <1>2, <1>3 DEF DepthOK, DepthOKOf, Within
<1>4. CASE Within(t) /\ ip'[t] = ip[t] /\ ins'[t] = ins[t]
  <2>1. DepthOKOf(t)'
    BY <1>1, <1>4 DEF DepthOKOf, DepthOf, Within
  <2> QED
    BY <1>2, <2>1 DEF DepthOK
<1>5. CASE /\ Within(t) /\ pc'[t] = "ready" /\ ip'[t] = ip[t] + 1
           /\ Reg(t) # MutexReg
  <2>1. Depth(prog[t])[ip[t]] = DepthOf(t)
    BY <1>5, Inside
  <2>2. ip[t] \in 1 .. Len(prog[t]) /\ HeldBy(t) = DepthOf(t)
    BY <1>1, <1>5, MutexTypes DEF DepthOKOf, Within, LockState
  <2>3. ip'[t] - 1 = ip[t] /\ ip[t] \in 0 .. Len(prog[t])
    BY <1>5, <2>2
  <2>4. HeldBy(t)' = DepthOf(t)'
    BY <1>1, <2>1, <2>2, <2>3 DEF DepthOf
  <2>5. DepthOKOf(t)'
    BY <1>5, <2>3, <2>4 DEF DepthOKOf, Within
  <2> QED
    BY <1>2, <2>5 DEF DepthOK
<1> QED
  BY <1>3, <1>4, <1>5

\* Where the thread locks or unlocks the mutex, both count.
LEMMA DepthCounted ==
  ASSUME LockState, NEW t \in Threads, Within(t), Reg(t) = MutexReg, prog' = prog,
         \A u \in Threads \ {t} : pc'[u] = pc[u] /\ ip'[u] = ip[u] /\ ins'[u] = ins[u],
         pc'[t] = "ready", ip'[t] = ip[t] + 1,
         \A u \in Threads \ {t} : HeldBy(u)' = HeldBy(u),
         HeldBy(t)' = DepthAfter(prog[t][ip[t]], HeldBy(t))
  PROVE  DepthOK'
<1>1. \A u \in Threads : DepthOKOf(u)
  BY DEF LockState, LockParts, DepthOK
<1>2. \A u \in Threads \ {t} : DepthOKOf(u)'
  BY <1>1 DEF DepthOKOf, DepthOf, Within
<1>3. ip[t] \in 1 .. Len(prog[t]) /\ HeldBy(t) = DepthOf(t)
  BY <1>1, MutexTypes DEF DepthOKOf, Within, LockState
<1>4. Depth(prog[t])[ip[t]] = DepthAfter(prog[t][ip[t]], DepthOf(t))
  BY <1>3, DepthSteps, MutexTypes DEF DepthOf, LockState
<1>5. ip'[t] - 1 = ip[t] /\ ip[t] \in 0 .. Len(prog[t])
  BY <1>3
<1>6. HeldBy(t)' = DepthOf(t)'
  BY <1>3, <1>4, <1>5 DEF DepthOf
<1>7. DepthOKOf(t)'
  BY <1>5, <1>6 DEF DepthOKOf, Within
<1> QED
  BY <1>2, <1>7 DEF DepthOK

LEMMA DepthStep ==
  ASSUME LockState, NEW t \in Threads, Step(t)
  PROVE  DepthOK'
<1> USE DEF At, Goto, Done
<1>0. TypeOK /\ PlaceOK
  BY DEF LockState, TypeInv
<1>1. CASE Dispatch(t)
  <2>1. PICK i \in prog[t][ip[t]] :
          /\ ins' = [ins EXCEPT ![t] = i]
          /\ pc' = [pc EXCEPT ![t] = FirstStep(i.op)]
    BY <1>1 DEF Dispatch
  <2>2. /\ pc[t] = "ready" /\ ip[t] <= Len(prog[t])
        /\ UNCHANGED <<prog, ip, owner, depth>>
    BY <1>1 DEF Dispatch
  <2>3. \A u \in Threads : DepthOKOf(u) /\ HeldBy(u)' = HeldBy(u)
    BY <2>2 DEF LockState, LockParts, DepthOK, HeldBy
  <2>4. /\ ins'[t] = i /\ pc'[t] = FirstStep(i.op)
        /\ \A u \in Threads \ {t} : ins'[u] = ins[u] /\ pc'[u] = pc[u]
    BY <1>0, <2>1 DEF TypeOK
  <2>5. \A u \in Threads \ {t} : DepthOKOf(u)'
    BY <2>2, <2>3, <2>4 DEF DepthOKOf, DepthOf, Within
  <2>6. ip[t] \in DOMAIN prog[t]
    BY <2>2, MutexTypes DEF LockState
  <2>7. DepthOKOf(t)'
    BY <2>2, <2>3, <2>4, <2>6 DEF DepthOKOf, DepthOf
  <2> QED
    BY <2>5, <2>7 DEF DepthOK
<1>2. CASE Halt(t)
  BY <1>0, <1>2, DepthKept DEF Halt, TypeOK
<1>3. CASE \/ Alloc(t) \/ ClearStr(t) \/ ForgetStr(t) \/ ClearHnd(t) \/ ForgetHnd(t)
           \/ LoadStr(t) \/ Check(t) \/ Lock(t) \/ Destroy(t)
  <2>1. /\ Within(t) /\ UNCHANGED <<prog, ip, ins, owner, depth>>
        /\ \A u \in Threads \ {t} : pc'[u] = pc[u]
    BY <1>0, <1>3 DEF Alloc, ClearStr, ForgetStr, ClearHnd, ForgetHnd, LoadStr, Check, Lock,
       Destroy, Frees, Undefined, Misuse, TypeOK, Within
  <2> QED
    BY <2>1, DepthKept
<1>4. CASE CopyStr(t) \/ Wipe(t) \/ LoadHandle(t) \/ Puts(t) \/ PrintStr(t)
  <2>1. /\ Within(t) /\ UNCHANGED <<prog, ins, owner, depth>>
        /\ \A u \in Threads \ {t} : pc'[u] = pc[u] /\ ip'[u] = ip[u]
        /\ pc[t] \in {"copy_str", "wipe", "load_handle", "puts", "print"}
        /\ ip'[t] = ip[t] \/ (pc'[t] = "ready" /\ ip'[t] = ip[t] + 1)
    BY <1>0, <1>4 DEF CopyStr, Wipe, LoadHandle, Puts, PrintStr, Undefined, Misuse, TypeOK, Within
  <2>2. ins[t].op \notin {"MUTEX_LOCK", "MUTEX_UNLOCK"}
    BY <1>0, <2>1 DEF PlaceOK, Clearing, Writes, Handles
  <2>3. Reg(t) # MutexReg
    BY <2>1, <2>2, Inside
  <2> QED
    BY <2>1, <2>3, DepthKept
<1>5. CASE Granted(t)
  <2>1. /\ pc[t] = "wait" /\ ub = "none" /\ UNCHANGED <<prog, ins>> /\ Within(t)
        /\ \A u \in Threads \ {t} : pc'[u] = pc[u] /\ ip'[u] = ip[u]
        /\ ip'[t] = ip[t] \/ (pc'[t] = "ready" /\ ip'[t] = ip[t] + 1)
    BY <1>0, <1>5 DEF Granted, Undefined, Misuse, TypeOK, Within
  <2>2. tgt[t] = hnd[Reg(t)] /\ ins[t].op = "MUTEX_LOCK" /\ tgt[t] \in Objs
    BY <1>0, <2>1 DEF PlaceOK, LockState, OwnerParts, RegisterOK, RegisterOf
  <2>3. CASE Reg(t) = MutexReg
    <3>1. tgt[t] = Main /\ life[Main] = "live" /\ prog[t][ip[t]] = OnMutex("MUTEX_LOCK")
      BY <2>1, <2>2, <2>3, Inside
    <3>2. /\ owner[Main] \in {NULL, t} /\ owner'[Main] = t /\ depth'[Main] = depth[Main] + 1
          /\ pc'[t] = "ready" /\ ip'[t] = ip[t] + 1
      BY <1>0, <1>5, <2>2, <3>1 DEF Granted, TypeOK
    <3>3. HeldBy(t)' = HeldBy(t) + 1 /\ \A u \in Threads \ {t} : HeldBy(u)' = HeldBy(u)
      BY <1>0, <2>2, <3>1, <3>2, NullApart DEF HeldBy, TypeOK
    <3>4. HeldBy(t)' = DepthAfter(prog[t][ip[t]], HeldBy(t))
      <4>1. HeldBy(t) \in Nat
        BY <1>0, <2>2, <3>1 DEF HeldBy, TypeOK
      <4> QED
        BY <3>1, <3>3, <4>1, AfterLock
    <3> QED
      BY <2>1, <2>3, <3>2, <3>3, <3>4, DepthCounted
  <2>4. CASE Reg(t) # MutexReg
    <3>1. tgt[t] # Main
      BY <2>1, <2>2, <2>4, OnlyThere
    <3>2. owner'[Main] = owner[Main] /\ depth'[Main] = depth[Main]
      <4>1. /\ owner' = [owner EXCEPT ![tgt[t]] = t] \/ owner' = owner
            /\ depth' = [depth EXCEPT ![tgt[t]] = depth[tgt[t]] + 1] \/ depth' = depth
        BY <1>5 DEF Granted
      <4> QED
        BY <1>0, <2>2, <3>1, <4>1, MutexTypes DEF TypeOK, LockState
    <3> QED
      BY <2>1, <2>4, <3>2, DepthKept
  <2> QED
    BY <2>3, <2>4
<1>6. CASE Unlock(t)
  <2> DEFINE h == hnd[Reg(t)]
  <2>1. /\ pc[t] = "MUTEX_UNLOCK" /\ UNCHANGED <<prog, ins>> /\ Within(t)
        /\ \A u \in Threads \ {t} : pc'[u] = pc[u] /\ ip'[u] = ip[u]
        /\ ip'[t] = ip[t] \/ (pc'[t] = "ready" /\ ip'[t] = ip[t] + 1)
    BY <1>0, <1>6 DEF Unlock, Undefined, Misuse, TypeOK, Within
  <2>2. ins[t].op = "MUTEX_UNLOCK"
    BY <1>0, <2>1 DEF PlaceOK
  <2>3. CASE Reg(t) = MutexReg
    <3>1. h = Main /\ life[Main] = "live" /\ prog[t][ip[t]] = OnMutex("MUTEX_UNLOCK")
      BY <2>1, <2>2, <2>3, Inside
    <3>2. Usable(h) /\ Main \in Objs /\ Main # NULL
      BY <3>1, MutexTypes, NullApart DEF Usable, LockState
    <3>3. pc'[t] = "ready" /\ ip'[t] = ip[t] + 1
      BY <1>0, <1>6, <3>2 DEF Unlock, TypeOK
    <3>4. CASE owner[Main] = t
      <4>1. /\ depth' = [depth EXCEPT ![Main] = depth[Main] - 1]
            /\ owner' = [owner EXCEPT ![Main] = IF depth[Main] = 1 THEN NULL ELSE t]
        BY <1>6, <3>1, <3>2, <3>4 DEF Unlock
      <4>2. /\ depth'[Main] = depth[Main] - 1 /\ depth[Main] \in Nat \ {0}
            /\ owner'[Main] = IF depth[Main] = 1 THEN NULL ELSE t
        BY <1>0, <3>2, <3>4, <4>1, NullApart DEF TypeOK
      <4>3. HeldBy(t)' = HeldBy(t) - 1 /\ HeldBy(t) \in Nat \ {0}
        BY <3>4, <4>2, NullApart DEF HeldBy
      <4>4. \A u \in Threads \ {t} : HeldBy(u)' = HeldBy(u)
        BY <3>4, <4>2, NullApart DEF HeldBy
      <4>5. HeldBy(t)' = DepthAfter(prog[t][ip[t]], HeldBy(t))
        BY <2>2, <3>1, <4>3, AfterUnlock
      <4> QED
        BY <2>1, <2>3, <3>3, <4>4, <4>5, DepthCounted
    <3>5. CASE owner[Main] # t
      <4>1. UNCHANGED <<owner, depth>>
        BY <1>6, <3>1, <3>2, <3>5 DEF Unlock
      <4>2. \A u \in Threads : HeldBy(u)' = HeldBy(u)
        BY <4>1 DEF HeldBy
      <4>3. HeldBy(t) = 0
        BY <3>5 DEF HeldBy
      <4>4. HeldBy(t)' = DepthAfter(prog[t][ip[t]], HeldBy(t))
        BY <2>2, <3>1, <4>2, <4>3, AfterUnlock
      <4> QED
        BY <2>1, <2>3, <3>3, <4>2, <4>4, DepthCounted
    <3> QED
      BY <3>4, <3>5
  <2>4. CASE Reg(t) # MutexReg
    <3>1. h # Main
      BY <2>1, <2>4, OnlyThere
    <3>2. owner'[Main] = owner[Main] /\ depth'[Main] = depth[Main]
      BY <1>0, <1>6, <3>1, RegType, MutexTypes DEF Unlock, TypeOK, LockState, Usable
    <3> QED
      BY <2>1, <2>4, <3>2, DepthKept
  <2> QED
    BY <2>3, <2>4
<1> QED
  BY <1>1, <1>2, <1>3, <1>4, <1>5, <1>6, Zenon DEF Step

\* What a thread writes, frees or allocates is not the mutex.
LEMMA MutexStep ==
  ASSUME LockState, NEW t \in Threads, Step(t)
  PROVE  MutexOK'
<1> USE DEF At, Goto, Done
<1>0. TypeOK /\ PlaceOK /\ Main \in Objs /\ MutexReg \in Regs /\ machine \in {"running", "freed"}
  BY MutexTypes DEF LockState, TypeInv, TypeOK
<1>1. pc[t] # "ended" /\ machine' = machine
  BY Zenon DEF Step, Dispatch, Halt, Alloc, ClearStr, ForgetStr, ClearHnd, ForgetHnd,
     Wipe, LoadStr, CopyStr, LoadHandle, Puts, PrintStr, Check, Lock, Granted, Unlock,
     Destroy
<1>2. /\ machine = "running" /\ hnd[MutexReg] = Main /\ str[MutexReg] = NULL
      /\ kind[Main] = "mutex" /\ life[Main] = "live"
  BY <1>0, <1>1 DEF LockState, LockParts, MutexOK
<1> SUFFICES /\ hnd'[MutexReg] = Main /\ str'[MutexReg] = NULL
             /\ kind'[Main] = "mutex" /\ life'[Main] = "live"
  BY <1>1, <1>2 DEF MutexOK
<1>3. CASE \/ Dispatch(t) \/ Halt(t) \/ CopyStr(t) \/ Puts(t) \/ PrintStr(t)
           \/ Check(t) \/ Lock(t) \/ Granted(t) \/ Unlock(t)
  BY <1>2, <1>3, Zenon DEF Dispatch, Halt, CopyStr, Puts, PrintStr, Check, Lock, Granted, Unlock
<1>4. CASE Alloc(t) \/ LoadStr(t)
  <2>1. PICK o \in Objs, k \in {"str", "mutex", "thread"} : Allocates(o, k)
    BY <1>4 DEF Alloc, LoadStr
  <2>2. o # Main /\ kind' = [kind EXCEPT ![o] = k] /\ life' = [life EXCEPT ![o] = "live"]
    BY <1>2, <2>1 DEF Allocates, Fresh
  <2>3. kind'[Main] = "mutex" /\ life'[Main] = "live"
    BY <1>0, <1>2, <2>2 DEF TypeOK
  <2>4. CASE Alloc(t)
    BY <1>2, <2>3, <2>4 DEF Alloc
  <2>5. CASE LoadStr(t)
    <3>1. Within(t) /\ ins[t].op = "LOAD_STR"
      BY <1>0, <2>5 DEF LoadStr, Within, PlaceOK
    <3>2. Reg(t) # MutexReg
      BY <3>1, Inside
    <3> QED
      BY <1>0, <1>2, <2>3, <2>5, <3>2 DEF LoadStr, TypeOK
  <2> QED
    BY <1>4, <2>4, <2>5
<1>5. CASE ForgetStr(t) \/ ForgetHnd(t) \/ Wipe(t) \/ LoadHandle(t)
  <2>1. /\ Within(t) /\ Writes(ins[t].op) /\ UNCHANGED heap
        /\ str' = str \/ str' = [str EXCEPT ![Reg(t)] = NULL]
        /\ hnd' = hnd \/ \E x : hnd' = [hnd EXCEPT ![Reg(t)] = x]
    BY <1>0, <1>5 DEF ForgetStr, ForgetHnd, Wipe, LoadHandle, Within, PlaceOK, Clearing, Handles, Writes
  <2>2. Reg(t) # MutexReg
    BY <2>1, Inside DEF Writes
  <2> QED
    BY <1>0, <1>2, <2>1, <2>2 DEF TypeOK
<1>6. CASE ClearStr(t) \/ ClearHnd(t) \/ Destroy(t)
  <2>1. /\ Within(t) /\ ins[t].op \notin {"MUTEX_LOCK", "MUTEX_UNLOCK"}
        /\ pc[t] \in {"clear_str", "clear_hnd", "MUTEX_DESTROY"}
        /\ UNCHANGED <<str, hnd, kind>>
    BY <1>0, <1>6 DEF ClearStr, ClearHnd, Destroy, Frees, Undefined, Misuse, Within, PlaceOK,
       Clearing, Writes
  <2>2. Reg(t) # MutexReg
    BY <2>1, Inside
  <2>3. str[Reg(t)] # Main /\ hnd[Reg(t)] # Main
    BY <2>1, <2>2, OnlyThere
  <2>4. life' = life \/ \E o \in {str[Reg(t)], hnd[Reg(t)]} : \E x : life' = [life EXCEPT ![o] = x]
    BY <1>6 DEF ClearStr, ClearHnd, Destroy, Frees
  <2>5. life'[Main] = "live"
    BY <1>0, <1>2, <2>3, <2>4 DEF TypeOK
  <2> QED
    BY <1>2, <2>1, <2>5
<1> QED
  BY <1>3, <1>4, <1>5, <1>6, Zenon DEF Step

\* The one thing that can go wrong is to take another register for a mutex.
LEMMA NullStep ==
  ASSUME LockState, NEW t \in Threads, Step(t), TypeInv', Unbroken'
  PROVE  ub' # "none" => ub' = "null" /\ ~OneMutex(prog')
<1> USE DEF At, Goto, Done
<1>0. TypeOK /\ PlaceOK /\ RegisterOK
  BY DEF LockState, TypeInv, OwnerParts
<1> SUFFICES ASSUME ub' = "null" PROVE ~OneMutex(prog')
  BY DEF TypeInv, TypeOK, Unbroken
<1>1. ub = "none" /\ prog' = prog
  BY Zenon DEF Step, Dispatch, Halt, Alloc, ClearStr, ForgetStr, ClearHnd, ForgetHnd,
     Wipe, LoadStr, CopyStr, LoadHandle, Puts, PrintStr, Check, Lock, Granted, Unlock,
     Destroy
<1>2. CASE \/ Dispatch(t) \/ Halt(t) \/ Alloc(t) \/ ForgetStr(t) \/ ForgetHnd(t) \/ Wipe(t)
           \/ LoadStr(t) \/ LoadHandle(t) \/ Puts(t)
  BY <1>1, <1>2, Zenon DEF Dispatch, Halt, Alloc, ForgetStr, ForgetHnd, Wipe, LoadStr, LoadHandle, Puts
<1>3. CASE ClearStr(t) \/ ClearHnd(t)
  BY <1>1, <1>3 DEF ClearStr, ClearHnd, Frees, Undefined
<1>4. CASE CopyStr(t)
  BY <1>0, <1>1, <1>4 DEF CopyStr, Misuse, Undefined, RegisterOK, RegisterOf
<1>5. CASE PrintStr(t) \/ Granted(t)
  <2>1. tgt[t] \in Objs
    BY <1>0, <1>1, <1>5 DEF PrintStr, Granted, PlaceOK
  <2> QED
    BY <1>1, <1>5, <2>1, NullApart DEF PrintStr, Granted, Misuse, Undefined
<1>6. CASE Check(t) \/ Lock(t) \/ Unlock(t) \/ Destroy(t)
  <2>1. hnd[Reg(t)] = NULL
    BY <1>1, <1>6 DEF Check, Lock, Unlock, Destroy, Misuse, Undefined
  <2>2. Within(t) /\ ins[t].op \in {"MUTEX_LOCK", "MUTEX_UNLOCK", "MUTEX_DESTROY"}
    BY <1>0, <1>6 DEF Check, Lock, Unlock, Destroy, Within, PlaceOK
  <2>3. hnd[MutexReg] # NULL
    BY <2>2, Inside, MutexTypes, NullApart DEF LockState
  <2>4. ins[t].reg # MutexReg
    BY <2>1, <2>3 DEF Reg
  <2>5. ip[t] \in DOMAIN prog[t] /\ ins[t] \in prog[t][ip[t]]
    BY <2>2 DEF LockState, LockParts, DepthOK, DepthOKOf
  <2> QED
    BY <1>1, <2>2, <2>4, <2>5 DEF OneMutex
<1> QED
  BY <1>2, <1>3, <1>4, <1>5, <1>6, Zenon DEF Step

-----------------------------------------------------------------------------
LEMMA InitLock == Init => LockInv
<1> SUFFICES ASSUME Init PROVE LockParts
  BY DEF LockInv
<1>0. TypeInv
  BY InitType
<1>1. \A t \in Threads : DepthOKOf(t)
  <2> TAKE t \in Threads
  <2>1. Depth(prog[t])[0] = 0 /\ Len(prog[t]) \in Nat
    BY <1>0, DepthSteps, MutexTypes
  <2>2. ip[t] - 1 = 0 /\ pc[t] = "ready" /\ HeldBy(t) = 0
    BY <1>0, MutexTypes, NullApart DEF Init, HeldBy
  <2> QED
    BY <2>1, <2>2 DEF DepthOKOf, DepthOf, Within
<1>2. MutexOK
  BY RegistersOK DEF Init, MutexOK, Main, Objs
<1> QED
  BY <1>1, <1>2 DEF LockParts, DepthOK, Init

LEMMA NextLock ==
  TypeInv /\ OwnerInv /\ LockInv /\ [Next]_vars => LockInv'
<1> SUFFICES ASSUME TypeInv, OwnerInv, LockInv, [Next]_vars, Disciplined(prog')
             PROVE  LockParts'
  BY DEF LockInv
<1>1. prog' = prog
  <2>1. ASSUME NEW t \in Threads, Step(t) PROVE prog' = prog
    BY <2>1, Zenon DEF Step, Dispatch, Halt, Alloc, ClearStr, ForgetStr, ClearHnd, ForgetHnd,
       Wipe, LoadStr, CopyStr, LoadHandle, Puts, PrintStr, Check, Lock, Granted, Unlock,
       Destroy
  <2> QED
    BY <2>1 DEF Next, EndMachine
<1>2. LockState /\ LockParts
  BY <1>1 DEF LockInv, LockParts, OwnerInv, LockState
<1>3. ASSUME NEW t \in Threads, Step(t) PROVE LockParts'
  <2>1. ~race' /\ TypeInv' /\ OwnerInv'
    BY <1>2, <1>3, NobodyMeets, NextType, NextOwner DEF Next
  <2>2. Unbroken'
    BY <2>1 DEF OwnerInv, OwnerParts
  <2> QED
    BY <1>2, <1>3, <2>1, <2>2, DepthStep, MutexStep, NullStep DEF LockParts
<1>4. CASE EndMachine
  <2>1. OwnerParts'
    BY <1>2, <1>4, EndStep DEF LockState
  <2>2. /\ ub' \in {"none", "double_free"} /\ machine' = "freed"
        /\ \A t \in Threads : pc'[t] = "ended"
        /\ UNCHANGED race
    BY <1>4 DEF EndMachine
  <2>3. ub' = "none" /\ MutexOK'
    BY <2>1, <2>2 DEF OwnerParts, Unbroken, MutexOK
  <2>4. DepthOK'
    BY <2>2 DEF DepthOK, DepthOKOf, Within
  <2> QED
    BY <1>2, <2>2, <2>3, <2>4 DEF LockParts
<1>5. CASE UNCHANGED vars
  BY <1>2, <1>5 DEF LockParts, DepthOK, DepthOKOf, DepthOf, HeldBy, Within, MutexOK
<1> QED
  BY <1>3, <1>4, <1>5 DEF Next

\* Threads that lock the mutex before they use a register never meet in one, and
\* their machine never breaks, unless they take for a mutex a register that holds
\* no handle.
THEOREM DisciplineKeepsApart == Spec => []LockedMeansApart
<1>1. LockInv => LockedMeansApart
  BY DEF LockInv, LockParts, LockedMeansApart
<1> QED
  BY <1>1, InitType, NextType, InitOwner, NextOwner, InitLock, NextLock, PTL DEF Spec
=============================================================================
