--------------------------------- MODULE Mmu ---------------------------------
(***************************************************************************)
(* The memory of a srsVM machine: the tree of segments that program        *)
(* loading and ALLOC build (srsvm_mmu_alloc, insert_segment, has_room,     *)
(* update_seg_bounds), the search of an address in it (srsvm_mmu_locate),  *)
(* loads, stores and FREE, by threads that share it, and the release of    *)
(* the whole tree with the machine.                                        *)
(*                                                                         *)
(* A thread holds the lock of the root while it inserts or searches, so    *)
(* only one does at a time.  It uses the segment a search returned after   *)
(* the locks are released, in an action of its own.  FREE takes no lock at *)
(* all: its look at each slot of the parent, its write to one and          *)
(* free_tree come between the looks of a search and between the reads and  *)
(* the writes of an ALLOC.                                                 *)
(***************************************************************************)
EXTENDS Integers, Sequences, FiniteSets, SequencesExt

CONSTANTS
  Segs,       \* the segment objects malloc can supply, and Root
  Root,       \* vm->mem_root
  Threads,
  Width,      \* children per segment: WORD_SIZE
  Space,      \* 2^WORD_SIZE: addresses and sizes are taken modulo Space
  Programs,   \* the programs: sequences of segments [size, base, literal, locked]
  Sizes,      \* the sizes programs ALLOC
  Uses,       \* the loads and stores programs make: [addr, size]
  Vals,       \* the values they store
  NULL

Addrs == 0 .. Space - 1

ASSUME MmuOK ==
  /\ Root \in Segs /\ IsFiniteSet(Segs)
  /\ NULL \notin Segs \cup Vals /\ "dangling" \notin Segs \cup {NULL}
  /\ Width \in Nat \ {0} /\ Space \in Nat \ {0}
  /\ Sizes \subseteq Addrs
  /\ \A u \in Uses : u.addr \in Addrs /\ u.size \in Addrs \ {0}
  /\ \A p \in Programs : p \in Seq([size : Addrs, base : Addrs, literal : BOOLEAN, locked : BOOLEAN])

VARIABLES
  prog,     \* the program that is loaded
  seg,      \* the segments
  data,     \* the bytes of their literal memory, NULL before they are written
  phase,    \* of the machine: "load", "failed", "run", "freed"
  placed,   \* how many segments of the program are in place
  op,       \* what each thread is doing, with the way its search has come and
            \* the segment it returned
  seen,     \* the children of every segment, as an ALLOC in progress read them
  ub,       \* the first undefined behaviour, or "none"
  last,     \* history: the last value stored at each address in the segment
            \* found there
  wrong,    \* history: a load from that segment returned something else
  untidy    \* history: a FREE did not find its segment because of an empty slot,
            \* had segments below it, met a thread that had the segment or came
            \* to it in a search, or ran beside an ALLOC; or the machine ended
            \* with an empty slot before a segment

vars == <<prog, seg, data, phase, placed, op, seen, ub, last, wrong, untidy>>

Wrap(n) == n % Space

-----------------------------------------------------------------------------
\* Types.

SegRec == [life : {"unborn", "live", "freed"},
           parent : Segs \cup {NULL},
           kids : [1 .. Width -> Segs \cup {NULL}],
           lo : Addrs, hi : Addrs,           \* min_address, max_address
           sz : Addrs,
           lit : Addrs, litSz : Addrs,       \* literal_start, literal_sz
           locked : BOOLEAN,
           freed : BOOLEAN]                  \* free_flag

\* A search is at the last of the segments of its path; slot is the child of
\* each it looked at last, 0 when only the pointer to the segment was read.
Paths == Seq([at : Segs, slot : 0 .. Width])

OpRec == [pc : {"idle", "search", "alloc", "load", "store", "free", "scan", "clear", "tree"},
          todo : {"load", "store", "free"},   \* what a search is for
          path : Paths,
          seg : Segs \cup {NULL}, addr : Addrs, size : Addrs, val : Vals \cup {NULL},
          slot : 1 .. Width + 1]              \* where the loop of a FREE is

Idle == [pc |-> "idle", todo |-> "load", path |-> <<>>,
         seg |-> NULL, addr |-> 0, size |-> 0, val |-> NULL, slot |-> 1]

Empty == [i \in 1 .. Width |-> NULL]
Unseen == [s \in Segs |-> Empty]

TypeOK ==
  /\ prog \in Programs
  /\ seg \in [Segs -> SegRec]
  /\ data \in [Segs -> [Addrs -> Vals \cup {NULL}]]
  /\ phase \in {"load", "failed", "run", "freed"} /\ placed \in 0 .. Len(prog)
  /\ op \in [Threads -> OpRec]
  /\ seen \in [Segs -> [1 .. Width -> Segs \cup {NULL}]]
  /\ ub \in {"none", "use_after_free", "stack_overflow"}
  /\ last \in [Addrs -> Vals \cup {NULL}]
  /\ wrong \in BOOLEAN /\ untidy \in BOOLEAN

-----------------------------------------------------------------------------
\* Searching the tree.  m is a tree: a value of seg.

Kids(m, s) == {m[s].kids[i] : i \in 1 .. Width} \ {NULL}

\* No path in the tree is longer.
MaxPath == Cardinality(Segs)

\* What is reached from s when r leads to next[r].
From(next, s) ==
  LET reach[d \in Nat] == IF d = 0 THEN {s}
                          ELSE LET R == reach[d - 1] IN R \cup UNION {next[r] : r \in R}
  IN  reach[MaxPath]

First(I) == CHOOSE i \in I : \A j \in I : i <= j

\* The slots a loop that breaks at the first empty one visits.
Prefix(m, s) == {i \in 1 .. Width : \A j \in 1 .. i : m[s].kids[j] # NULL}
PrefixSeq(m, s) == SubSeq(m[s].kids, 1, Cardinality(Prefix(m, s)))

\* srsvm_mmu_segment_contains_literal.  With size 0 the end of the segment
\* counts as inside.
ContainsLiteral(r, a, n) ==
  r.litSz # 0 /\ a >= r.lit /\ Wrap(a + n) <= Wrap(r.lit + r.litSz)

\* A bug: the lowest address counts as outside.
InBoundsAbove(r, a) == r.lo < a /\ a < r.hi

\* The virtual bounds of a segment: where the search of its children goes on.
InBounds(r, a) == r.lo <= a /\ a < r.hi

\* srsvm_mmu_locate below s, with nobody else at the tree: a segment, NULL, or
\* "dangling" when the search reads a freed segment.
Locate(m, s, a) ==
  LET locate[d \in Nat] ==
        [r \in Segs |->
           LET hit(i) == IF m[r].kids[i] = NULL THEN NULL ELSE locate[d - 1][m[r].kids[i]]
               hits   == {i \in 1 .. Width : hit(i) # NULL}
           IN  IF d = 0 \/ m[r].life # "live" THEN "dangling"
               ELSE IF ContainsLiteral(m[r], a, 0) THEN r
               ELSE IF ~InBounds(m[r], a) \/ hits = {} THEN NULL
               ELSE hit(First(hits))]
  IN  locate[MaxPath][s]

-----------------------------------------------------------------------------
\* Inserting a segment.

\* More nested calls than there are different ones (of a segment by its
\* parent, of a parent by its child, and the first one): they never end.
Depth == 3 * Cardinality(Segs) + 1

\* has_room: is there room at base for n bytes in p?  The call for a child
\* (child_slot in the code) that does not hold the region goes back to the
\* parent, which skips that child only; deep bounds the calls before the
\* stack is exhausted.
HasRoom(m, n, base) ==
  LET end == Wrap(base + n)
      meets(k) == \/ base >= m[k].lo /\ end < m[k].hi
                  \/ end >= m[k].lo /\ base < m[k].hi
      room[deep \in Nat] ==
        [p \in Segs, prev \in Segs \cup {NULL}, isChild \in BOOLEAN |->
           LET r      == m[p]
               litEnd == Wrap(r.lit + r.litSz)
               here   == IF base < r.lo \/ end > r.hi
                         THEN IF r.parent = NULL THEN "yes" ELSE room[deep - 1][r.parent, p, FALSE]
                         ELSE IF \/ base >= r.lit /\ end < litEnd
                                 \/ end >= litEnd /\ base < litEnd
                         THEN "no" ELSE "yes"
               below(acc, k) == IF acc # "yes" \/ k = prev \/ ~meets(k) THEN acc
                                ELSE room[deep - 1][k, NULL, TRUE]
           IN  IF deep = 0 THEN "overflow"
               ELSE IF here # "yes" \/ isChild THEN here
               ELSE FoldLeft(below, "yes", PrefixSeq(m, p))]
  IN  room

Room(m, p, n, base) == IF base = 0 THEN "yes" ELSE HasRoom(m, n, base)[Depth][p, NULL, FALSE]

\* find_free_slot, 0 for none.
FreeSlot(m, p) ==
  LET free == {i \in 1 .. Width : m[p].kids[i] = NULL}
  IN  IF free = {} THEN 0 ELSE First(free)

\* qsort of the children by min_address, empty slots last; the sort of the C
\* library keeps the order of equal elements.
SortKids(m, s) ==
  LET kids == m[s].kids
      key(i)  == IF kids[i] = NULL THEN Space ELSE m[kids[i]].lo
      rank(i) == Cardinality({j \in 1 .. Width : key(j) < key(i) \/ (key(j) = key(i) /\ j < i)})
  IN  [r \in 1 .. Width |-> kids[CHOOSE i \in 1 .. Width : rank(i) = r - 1]]

Ancestors(m, s) == From([r \in Segs |-> {m[r].parent} \ {NULL}], s)

\* A bug: only the parent's bounds follow.
UpdateBoundsOnce(m, c) ==
  LET p == m[c].parent
      wide == [m EXCEPT ![p].lo = IF m[c].lo < @ THEN m[c].lo ELSE @,
                        ![p].hi = IF m[c].hi > @ THEN m[c].hi ELSE @]
  IN  [wide EXCEPT ![p].kids = SortKids(wide, p)]

\* update_seg_bounds: the bounds of every ancestor grow over c, and their
\* children are sorted.
UpdateBounds(m, c) ==
  LET up   == Ancestors(m, c)
      wide == [s \in Segs |->
                 IF s \notin up THEN m[s]
                 ELSE [m[s] EXCEPT !.lo = IF m[c].lo < @ THEN m[c].lo ELSE @,
                                   !.hi = IF m[c].hi > @ THEN m[c].hi ELSE @]]
  IN  [s \in Segs |-> IF s \in up THEN [wide[s] EXCEPT !.kids = SortKids(wide, s)] ELSE wide[s]]

\* A bug: the end of the segment is kept in a wider integer.
PlaceWide(m, p, slot, c, a) ==
  UpdateBounds([m EXCEPT ![p].kids[slot] = c,
                         ![c].parent = p, ![c].lo = a, ![c].lit = a,
                         ![c].hi = a + m[c].sz], c)

\* c goes into a free slot of p at address a.
Place(m, p, slot, c, a) ==
  UpdateBounds([m EXCEPT ![p].kids[slot] = c,
                         ![c].parent = p, ![c].lo = a, ![c].lit = a,
                         ![c].hi = Wrap(a + m[c].sz)], c)

\* Where c goes when its base is not granted: after the literal memory of p,
\* or after the last child.
NextAddress(m, p, slot) ==
  IF slot = 1 THEN Wrap(m[p].lit + m[p].litSz) ELSE m[m[p].kids[slot - 1]].hi

\* insert_segment below p: the outcome, and the tree.
Insert(m, p, c, base, force) ==
  LET failed == [result |-> "fail", tree |-> m]
      put(q, slot, a) == [result |-> "ok", tree |-> Place(m, q, slot, c, a)]
      insert[d \in Nat] ==
        [q \in Segs |-> [b \in Addrs |->
           LET room == Room(m, q, m[c].sz, b)
               slot == FreeSlot(m, q)
               tries(x) == {[at |-> i, end |-> insert[d - 1][m[q].kids[i]][x]] : i \in 1 .. Width}
               into(x)  == LET ended == {t \in tries(x) : t.end.result # "fail"}
                           IN  IF ended = {} THEN failed
                               ELSE (CHOOSE t \in ended : \A u \in ended : t.at <= u.at).end
               granted  == into(b)
           IN  IF d = 0 THEN failed
               ELSE IF room = "no" /\ force THEN failed
               ELSE IF room = "overflow" THEN [failed EXCEPT !.result = "overflow"]
               ELSE IF slot # 0 THEN put(q, slot, IF room = "no" THEN NextAddress(m, q, slot) ELSE b)
               ELSE IF room = "no" \/ granted.result = "fail" THEN into(0) ELSE granted]]
  IN  insert[MaxPath][p][base]

Powers == {2 ^ e : e \in 0 .. Space} \cap 0 .. 2 * Space
RoundUp(n, powers) == CHOOSE k \in powers : k >= n /\ \A j \in powers : j >= n => k <= j

\* alloc_size: the next power of two, or the size itself if that overflows.
AllocSize(n) == IF \E k \in Powers : n <= k /\ k < Space THEN RoundUp(n, Powers) ELSE n

\* srsvm_mmu_alloc of object c.
Alloc(m, c, size, base, literal) ==
  Insert([m EXCEPT ![c] = [@ EXCEPT !.life = "live",
                                    !.litSz = IF literal THEN size ELSE 0,
                                    !.sz = IF literal THEN AllocSize(size) ELSE size]],
         Root, c, base, ~literal)

-----------------------------------------------------------------------------
\* Initial state: srsvm_vm_alloc has allocated the root over all addresses.

Blank == [life |-> "unborn", parent |-> NULL, kids |-> Empty,
          lo |-> 0, hi |-> 0, sz |-> 0, lit |-> 0, litSz |-> 0,
          locked |-> FALSE, freed |-> FALSE]

Init ==
  /\ prog \in Programs
  /\ seg = [s \in Segs |-> IF s = Root THEN [Blank EXCEPT !.life = "live", !.hi = Space - 1,
                                                          !.sz = Space - 1]
                           ELSE Blank]
  /\ data = [s \in Segs |-> [a \in Addrs |-> NULL]]
  /\ phase = "load" /\ placed = 0
  /\ op = [t \in Threads |-> Idle] /\ seen = Unseen
  /\ ub = "none"
  /\ last = [a \in Addrs |-> NULL]
  /\ wrong = FALSE /\ untidy = FALSE

Forget(r) == last' = [a \in Addrs |-> IF ContainsLiteral(r, a, 0) THEN NULL ELSE last[a]]

\* The bytes of a load or store in the segment and in the address space.
Offsets(m, o) == {Wrap(o.addr + i - m[o.seg].lit) : i \in 0 .. o.size - 1}
Touched(o) == {Wrap(o.addr + i) : i \in 0 .. o.size - 1}

Unborn(c) == seg[c].life = "unborn"

\* The object the next malloc supplies.
Fresh == CHOOSE s \in Segs : Unborn(s)

-----------------------------------------------------------------------------
\* srsvm_vm_load_program: the segments of the program, one after the other.

\* A literal segment is allocated, its bytes are stored through the address
\* the program gives (data v here), and only then is it locked.  An empty
\* segment is none, nor is there one when no memory is left.
LoadSegment(v) ==
  LET spec == prog[placed + 1]
      new  == {s \in Segs : Unborn(s)}
      c    == Fresh
      r    == IF new = {} \/ spec.size = 0 THEN [result |-> "fail", tree |-> seg]
              ELSE Alloc(seg, c, spec.size, spec.base, spec.literal)
      h    == Locate(r.tree, Root, spec.base)
      o    == [seg |-> h, addr |-> spec.base, size |-> spec.size]
      fits == /\ h \notin {NULL, "dangling"} /\ ~r.tree[h].locked
              /\ ContainsLiteral(r.tree[h], spec.base, spec.size)
  IN
  /\ ub = "none" /\ phase = "load" /\ placed < Len(prog)
  /\ seg' = IF r.result = "ok"
            THEN [r.tree EXCEPT ![c].locked = spec.literal /\ fits /\ spec.locked]
            ELSE seg
  /\ IF r.result = "ok" /\ spec.literal /\ fits
     THEN /\ data' = [data EXCEPT ![h] =
                      [i \in Addrs |-> IF i \in Offsets(r.tree, o) THEN v ELSE @[i]]]
          /\ last' = [a \in Addrs |-> IF a \in Touched(o) THEN v ELSE last[a]]
     ELSE UNCHANGED <<data, last>>
  /\ IF r.result = "ok" /\ (spec.literal => fits)
     THEN placed' = placed + 1 /\ UNCHANGED phase
     ELSE phase' = "failed" /\ UNCHANGED placed
  /\ ub' = IF r.result = "overflow" THEN "stack_overflow" ELSE ub
  /\ UNCHANGED <<prog, op, seen, wrong, untidy>>

LoadDone ==
  /\ ub = "none" /\ phase = "load" /\ placed = Len(prog)
  /\ phase' = "run"
  /\ UNCHANGED <<prog, seg, data, placed, op, seen, ub, last, wrong, untidy>>

-----------------------------------------------------------------------------
\* What threads share.

Ready(t, p) == ub = "none" /\ phase = "run" /\ op[t].pc = p
Rest(t) == op' = [op EXCEPT ![t] = Idle]

\* The lock of the root is free.
Unlocked == \A t \in Threads : op[t].pc \notin {"search", "alloc"}

\* The loop over the parent's slots or free_tree is under way.
Freeing(t) == op[t].pc \in {"scan", "clear", "tree"}

\* The segments of a search's path, the segment a search returned, and the
\* parent whose slots a FREE goes through.
Held(t) ==
  LET o == op[t] IN
  {o.path[i].at : i \in DOMAIN o.path}
  \cup (IF o.seg = NULL THEN {} ELSE {o.seg})
  \cup (IF o.pc \in {"scan", "clear"} THEN {seg[o.seg].parent} ELSE {})

Met(t, s) == \E u \in Threads \ {t} : s \in Held(u)

\* Of these, what the next step of t reads or writes.  A search that ends
\* releases the lock of every segment it came through.
Here(t) == op[t].path[Len(op[t].path)]
Hits(t) == Here(t).slot = 0 /\ ContainsLiteral(seg[Here(t).at], op[t].addr, 0)
Touches(t) == IF op[t].pc = "search" /\ ~Hits(t) THEN {Here(t).at} ELSE Held(t)

\* One of them is gone.
UseFreed(t) ==
  /\ ub = "none" /\ phase = "run"
  /\ \E s \in Touches(t) : seg[s].life = "freed"
  /\ ub' = "use_after_free"
  /\ UNCHANGED <<prog, seg, data, phase, placed, op, seen, last, wrong, untidy>>

Intact(t) == \A s \in Touches(t) : seg[s].life # "freed"

-----------------------------------------------------------------------------
\* ALLOC: a literal segment, always suggested at address 0.  With no memory
\* left nothing happens but the error bit of the register.

\* The lock is taken and the children are read, which a FREE may write
\* meanwhile.
AllocOp(t, size) ==
  /\ Ready(t, "idle") /\ Unlocked /\ size # 0
  /\ \E c \in Segs : Unborn(c)
  /\ op' = [op EXCEPT ![t] = [Idle EXCEPT !.pc = "alloc", !.size = size]]
  /\ seen' = [s \in Segs |-> seg[s].kids]
  /\ untidy' = (untidy \/ \E u \in Threads : Freeing(u))
  /\ UNCHANGED <<prog, seg, data, phase, placed, ub, last, wrong>>

\* The tree with the children of the segments in S as they were read.
Stale(S) == [s \in Segs |-> IF s \in S THEN [seg[s] EXCEPT !.kids = seen[s]] ELSE seg[s]]

\* The sort of an array may have read it before a FREE wrote to it, and then
\* writes back what it read.  A freed segment in an array is read by the sort.
AllocDone(t) ==
  /\ Ready(t, "alloc")
  /\ \E S \in SUBSET {s \in Segs : seg[s].kids # seen[s]} :
       LET r  == Alloc(Stale(S), Fresh, op[t].size, 0, TRUE)
           up == Ancestors(r.tree, Fresh)
       IN  /\ S \subseteq up
           /\ IF r.result # "ok" THEN UNCHANGED <<seg, last, ub>>
              ELSE IF \E s \in up : \E k \in Kids(r.tree, s) : r.tree[k].life = "freed"
              THEN ub' = "use_after_free" /\ UNCHANGED <<seg, last>>
              ELSE seg' = r.tree /\ Forget(r.tree[Fresh]) /\ UNCHANGED ub
  /\ Rest(t)
  /\ seen' = Unseen
  /\ UNCHANGED <<prog, data, phase, placed, wrong, untidy>>

-----------------------------------------------------------------------------
\* LOAD, STORE and FREE search the address, one look at a slot after the other,
\* and release the locks; an address in no segment is a fault of the thread.

Search(t, todo, a, n, v) ==
  /\ Ready(t, "idle") /\ Unlocked
  /\ op' = [op EXCEPT ![t] = [Idle EXCEPT !.pc = "search", !.todo = todo,
                                          !.addr = a, !.size = n, !.val = v,
                                          !.path = <<[at |-> Root, slot |-> 0]>>]]
  /\ UNCHANGED <<prog, seg, data, phase, placed, seen, ub, last, wrong, untidy>>

\* The segment is found, and used if the bytes are in it and it is not locked.
Find(t) ==
  LET o == op[t]  s == Here(t).at IN
  /\ Ready(t, "search") /\ Hits(t) /\ Intact(t)
  /\ op' = [op EXCEPT ![t] =
              IF \/ o.todo = "free"
                 \/ ContainsLiteral(seg[s], o.addr, o.size) /\ ~(o.todo = "store" /\ seg[s].locked)
              THEN [Idle EXCEPT !.pc = o.todo, !.seg = s, !.addr = o.addr, !.size = o.size, !.val = o.val]
              ELSE Idle]
  /\ UNCHANGED <<prog, seg, data, phase, placed, seen, ub, last, wrong, untidy>>

\* Nothing is left to look at here: the address lies outside, or that was the
\* last slot.
Leaves(t) == \/ Here(t).slot = Width
             \/ Here(t).slot = 0 /\ ~InBounds(seg[Here(t).at], op[t].addr)

\* The next child: its pointer is read.
Look(t) ==
  LET o == op[t]  n == Len(o.path)  i == Here(t).slot + 1  k == seg[Here(t).at].kids[i]
      here == [o.path EXCEPT ![n].slot = i]
  IN
  /\ Ready(t, "search") /\ ~Hits(t) /\ ~Leaves(t) /\ Intact(t)
  /\ op' = [op EXCEPT ![t].path = IF k = NULL THEN here ELSE Append(here, [at |-> k, slot |-> 0])]
  /\ UNCHANGED <<prog, seg, data, phase, placed, seen, ub, last, wrong, untidy>>

\* Back to the parent; from the root, the search has found nothing.
Leave(t) ==
  /\ Ready(t, "search") /\ ~Hits(t) /\ Leaves(t) /\ Intact(t)
  /\ op' = [op EXCEPT ![t] = IF Len(op[t].path) = 1 THEN Idle
                             ELSE [op[t] EXCEPT !.path = Front(op[t].path)]]
  /\ UNCHANGED <<prog, seg, data, phase, placed, seen, ub, last, wrong, untidy>>

\* A bug: the copy begins at the start of the segment.
StoreAtStart(t) ==
  LET o == op[t] IN
  /\ Ready(t, "store") /\ Intact(t)
  /\ data' = [data EXCEPT ![o.seg] =
               [i \in Addrs |-> IF i \in 0 .. o.size - 1 THEN o.val ELSE @[i]]]
  /\ last' = [a \in Addrs |-> IF a \in Touched(o) /\ Locate(seg, Root, a) = o.seg THEN o.val ELSE last[a]]
  /\ Rest(t)
  /\ UNCHANGED <<prog, seg, phase, placed, seen, ub, wrong, untidy>>

\* srsvm_mmu_store: the copy, under the lock of the segment.
Store(t) ==
  LET o == op[t] IN
  /\ Ready(t, "store") /\ Intact(t)
  /\ data' = [data EXCEPT ![o.seg] =
               [i \in Addrs |-> IF i \in Offsets(seg, o) THEN o.val ELSE @[i]]]
  /\ last' = [a \in Addrs |-> IF a \in Touched(o) /\ Locate(seg, Root, a) = o.seg THEN o.val ELSE last[a]]
  /\ Rest(t)
  /\ UNCHANGED <<prog, seg, phase, placed, seen, ub, wrong, untidy>>

\* srsvm_mmu_load.
Load(t) ==
  LET o == op[t] IN
  /\ Ready(t, "load") /\ Intact(t)
  /\ wrong' = (wrong \/ \E a \in Touched(o) :
                 /\ Locate(seg, Root, a) = o.seg /\ last[a] # NULL
                 /\ data[o.seg][Wrap(a - seg[o.seg].lit)] # last[a])
  /\ Rest(t)
  /\ UNCHANGED <<prog, seg, data, phase, placed, seen, ub, last, untidy>>

-----------------------------------------------------------------------------
\* FREE.

\* children_freed: it too stops at the first empty slot.
Below(m, s) == From([r \in Segs |-> {m[r].kids[i] : i \in Prefix(m, r)}], s)
ChildrenFreed(m, s) == \A k \in Below(m, s) \ {s} : m[k].freed

\* A bug: a segment is freed whatever is below it.
FreeTreeAlways(m, s) ==
  IF ~m[s].freed THEN m ELSE [m EXCEPT ![s].life = "freed"]

\* free_tree: the children that can be freed go with what is below them (the
\* code's can_free always finds it done), then s if nothing is left in use
\* below it.
FreeTree(m, s) ==
  LET done  == {m[s].kids[i] : i \in {j \in Prefix(m, s) : m[m[s].kids[j]].freed /\ ChildrenFreed(m, m[s].kids[j])}}
      gone  == UNION {Below(m, k) : k \in done}
      swept == [x \in Segs |->
                  [m[x] EXCEPT !.life = IF x \in gone THEN "freed" ELSE @,
                               !.kids = [i \in 1 .. Width |-> IF @[i] \in gone THEN NULL ELSE @[i]]]]
  IN  IF ~m[s].freed THEN m
      ELSE IF ChildrenFreed(swept, s) THEN [swept EXCEPT ![s].life = "freed"]
      ELSE swept

\* A bug: free_tree comes before the loop over the parent's slots.
FlagFrees(t) ==
  LET s == op[t].seg IN
  /\ Ready(t, "free") /\ Intact(t)
  /\ seg' = FreeTree([seg EXCEPT ![s].freed = TRUE], s)
  /\ op' = [op EXCEPT ![t].pc = "scan"]
  /\ untidy' = (untidy \/ Kids(seg, s) # {} \/ Met(t, s) \/ \E u \in Threads : op[u].pc = "alloc")
  /\ UNCHANGED <<prog, data, phase, placed, seen, ub, last, wrong>>

\* srsvm_mmu_free flags the segment,
Flag(t) ==
  LET s == op[t].seg IN
  /\ Ready(t, "free") /\ Intact(t)
  /\ seg' = [seg EXCEPT ![s].freed = TRUE]
  /\ op' = [op EXCEPT ![t].pc = "scan"]
  /\ untidy' = (untidy \/ \E u \in Threads : op[u].pc = "alloc")
  /\ UNCHANGED <<prog, data, phase, placed, seen, ub, last, wrong>>

\* looks for it in its parent up to the first empty slot,
Scan(t) ==
  LET o == op[t]  p == seg[o.seg].parent
      empty == o.slot > Width \/ seg[p].kids[o.slot] = NULL
  IN
  /\ Ready(t, "scan") /\ Intact(t)
  /\ op' = [op EXCEPT ![t] = IF empty THEN [o EXCEPT !.pc = "tree"]
                             ELSE IF seg[p].kids[o.slot] = o.seg THEN [o EXCEPT !.pc = "clear"]
                             ELSE [o EXCEPT !.slot = @ + 1]]
  /\ UNCHANGED <<prog, seg, data, phase, placed, seen, ub, last, wrong, untidy>>

\* empties the slot where it saw it and goes on,
Clear(t) ==
  LET o == op[t]  p == seg[o.seg].parent IN
  /\ Ready(t, "clear") /\ Intact(t)
  /\ seg' = [seg EXCEPT ![p].kids[o.slot] = NULL]
  /\ op' = [op EXCEPT ![t] = [o EXCEPT !.pc = "scan", !.slot = @ + 1]]
  /\ untidy' = (untidy \/ Kids(seg, o.seg) # {} \/ Met(t, o.seg))
  /\ Forget(seg[o.seg])
  /\ UNCHANGED <<prog, data, phase, placed, seen, ub, wrong>>

\* and frees what it can of the segment and what is below it.
Free(t) ==
  LET s == op[t].seg IN
  /\ Ready(t, "tree") /\ Intact(t)
  /\ seg' = FreeTree(seg, s)
  /\ Rest(t)
  /\ untidy' = \/ untidy
               \/ Kids(seg, s) # {}
               \/ \E x \in Segs : s \in Kids(seg, x)
               \/ Met(t, s)
  /\ UNCHANGED <<prog, data, phase, placed, seen, ub, last, wrong>>

-----------------------------------------------------------------------------
\* srsvm_vm_free, once the threads have ended: srsvm_mmu_set_all_free flags
\* every segment, srsvm_mmu_free(root) frees them.

Reach(m, s) == From([r \in Segs |-> IF m[r].life = "live" THEN Kids(m, r) ELSE {}], s)

Hidden(m, s) == \E k \in Kids(m, s) : k \notin {m[s].kids[i] : i \in Prefix(m, s)}

VmFree ==
  LET all == Reach(seg, Root)
      flagged == [s \in Segs |-> IF s \in all THEN [seg[s] EXCEPT !.freed = TRUE] ELSE seg[s]]
  IN
  /\ ub = "none" /\ phase \in {"run", "failed"}
  /\ \A t \in Threads : op[t].pc = "idle"
  /\ IF \E s \in all : seg[s].life = "freed"
     THEN ub' = "use_after_free" /\ UNCHANGED seg
     ELSE seg' = FreeTree(flagged, Root) /\ UNCHANGED ub
  /\ phase' = "freed"
  /\ untidy' = (untidy \/ \E s \in all : seg[s].life = "live" /\ Hidden(seg, s))
  /\ UNCHANGED <<prog, data, placed, op, seen, last, wrong>>

Stopped == (ub # "none" \/ phase = "freed") /\ UNCHANGED vars

Next ==
  \/ \E v \in Vals : LoadSegment(v)
  \/ LoadDone
  \/ \E t \in Threads :
       \/ \E n \in Sizes : AllocOp(t, n)
       \/ \E u \in Uses : \/ Search(t, "load", u.addr, u.size, NULL)
                         \/ Search(t, "free", u.addr, 1, NULL)
                         \/ \E v \in Vals : Search(t, "store", u.addr, u.size, v)
       \/ AllocDone(t) \/ Find(t) \/ Look(t) \/ Leave(t) \/ UseFreed(t)
       \/ Store(t) \/ Load(t) \/ Flag(t) \/ Scan(t) \/ Clear(t) \/ Free(t)
  \/ VmFree
  \/ Stopped

Spec == Init /\ [][Next]_vars

-----------------------------------------------------------------------------
\* Safety.

Linked == Reach(seg, Root) \ {Root}

\* The bounds of a segment hold those of everything below it: the search never
\* turns away from a subtree that has the address.
BoundsNest ==
  ub = "none" /\ ~untidy => \A s \in Linked :
    LET p == seg[s].parent IN seg[p].lo <= seg[s].lo /\ seg[s].hi <= seg[p].hi

\* Until a FREE is untidy, a load returns the last value stored at its addresses
\* since they were allocated, whatever segments come and go around them.
LoadReturnsLastStore == ~untidy => ~wrong

\* Under the same condition no thread uses a segment that has been freed.
NoUseAfterFree == ~untidy => ub # "use_after_free"

\* Unless a FREE was untidy, the end of the machine frees every segment.
AllFreed == phase = "freed" /\ ub = "none" /\ ~untidy => \A s \in Segs : seg[s].life # "live"

Span(x) == IF x.literal THEN AllocSize(x.size) ELSE x.size
Apart(x, y, gap) == x.base + Span(x) + gap <= y.base \/ y.base + Span(y) + gap <= x.base
Spread(p, gap) ==
  /\ \A i, j \in DOMAIN p : i < j => Apart(p[i], p[j], gap)
  /\ \A i \in DOMAIN p : p[i].base > 0 /\ p[i].base + Span(p[i]) < Space

InPlace == \A i \in 1 .. placed : prog[i].literal =>
  LET s == Locate(seg, Root, prog[i].base)
  IN  s \in Segs /\ seg[s].lit = prog[i].base /\ seg[s].litSz = prog[i].size

\* A program whose segments lie apart, their sizes rounded up, loads, and each
\* segment is found at its base, however many share a parent.
SpreadProgramLoads == Spread(prog, 1) /\ ub = "none" => phase # "failed" /\ (phase = "load" => InPlace)
=============================================================================
