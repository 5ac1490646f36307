--------------------------- MODULE Assembler_proofs ---------------------------
(***************************************************************************)
(* What is proved of Assembler for all texts, limits and opcodes.          *)
(***************************************************************************)
EXTENDS Assembler, FiniteSetTheorems, SequenceTheorems, TLAPS

\* The lemmas on induction: there is no tree here.
Shared == INSTANCE SharedLemmas WITH Dangling <- 0

-----------------------------------------------------------------------------
\* Sequences.

Sequence(x) == x \in Seq(ToSet(x))

LEMMA SequenceIs ==
  ASSUME NEW x, Sequence(x)
  PROVE  /\ Len(x) \in Nat /\ DOMAIN x = 1 .. Len(x)
         /\ x = [j \in 1 .. Len(x) |-> x[j]]
BY LenProperties DEF Sequence

LEMMA IsSequence ==
  ASSUME NEW x, NEW A, x \in Seq(A)
  PROVE  Sequence(x)
<1>1. x \in [1 .. Len(x) -> A] /\ Len(x) \in Nat /\ DOMAIN x = 1 .. Len(x)
  BY LenProperties
<1>2. x \in [1 .. Len(x) -> ToSet(x)]
  BY <1>1 DEF ToSet
<1> QED
  BY <1>1, <1>2, SeqDef DEF Sequence

LEMMA MapIs ==
  ASSUME NEW n \in Nat, NEW f, f = [j \in 1 .. n |-> f[j]]
  PROVE  Sequence(f) /\ Len(f) = n
<1>1. f \in [1 .. n -> ToSet(f)]
  BY DEF ToSet
<1>2. f \in Seq(ToSet(f))
  BY <1>1, SeqDef
<1> QED
  BY <1>1, <1>2, LenProperties DEF Sequence

-----------------------------------------------------------------------------
\* Definition by recursion up to a number.

IsFold(f, n, b, step) == \A k \in 0 .. n : f[k] = IF k = 0 THEN b ELSE step[k][f[k - 1]]

LEMMA FoldExists ==
  ASSUME NEW D, NEW b \in D, NEW n \in Nat, NEW step \in [1 .. n -> [D -> D]]
  PROVE  \E f \in [0 .. n -> D] : IsFold(f, n, b, step)
<1> DEFINE X == {m \in Nat : m <= n => \E f \in [0 .. m -> D] : IsFold(f, m, b, step)}
<1>1. 0 \in X
  <2> DEFINE f == [k \in 0 .. 0 |-> b]
  <2>1. f \in [0 .. 0 -> D] /\ \A k \in 0 .. 0 : k = 0 /\ f[k] = b
    OBVIOUS
  <2> HIDE DEF f
  <2>2. IsFold(f, 0, b, step)
    BY <2>1 DEF IsFold
  <2> QED
    BY <2>1, <2>2
<1>2. ASSUME NEW m \in Nat, m \in X PROVE m + 1 \in X
  <2> SUFFICES ASSUME m + 1 <= n
               PROVE  \E f \in [0 .. m + 1 -> D] : IsFold(f, m + 1, b, step)
    OBVIOUS
  <2>1. PICK f \in [0 .. m -> D] : IsFold(f, m, b, step)
    BY <1>2
  <2> DEFINE v == step[m + 1][f[m]]
             g == [k \in 0 .. m + 1 |-> IF k = m + 1 THEN v ELSE f[k]]
  <2>2. v \in D
    <3>1. m + 1 \in 1 .. n /\ f[m] \in D
      OBVIOUS
    <3> QED
      BY <3>1
  <2>3. g \in [0 .. m + 1 -> D]
    <3> HIDE DEF v
    <3> QED
      BY <2>2
  <2>4. ASSUME NEW k \in 0 .. m + 1
        PROVE  g[k] = IF k = 0 THEN b ELSE step[k][g[k - 1]]
    <3>1. CASE k = m + 1
      <4>1. g[k] = v /\ k # 0 /\ k - 1 = m /\ g[m] = f[m]
        BY <3>1
      <4> QED
        BY <3>1, <4>1
    <3>2. CASE k \in 0 .. m
      <4>1. g[k] = f[k] /\ (k # 0 => g[k - 1] = f[k - 1])
        BY <3>2
      <4>2. f[k] = IF k = 0 THEN b ELSE step[k][f[k - 1]]
        BY <2>1, <3>2 DEF IsFold
      <4> HIDE DEF g
      <4> QED
        BY <3>2, <4>1, <4>2
    <3> QED
      BY <3>1, <3>2
  <2> HIDE DEF g
  <2>5. IsFold(g, m + 1, b, step)
    BY <2>4 DEF IsFold
  <2> QED
    BY <2>3, <2>5
<1> HIDE DEF X
<1>3. Nat \subseteq X
  BY <1>1, <1>2, Shared!InductionOnNat
<1> QED
  BY <1>3 DEF X

-----------------------------------------------------------------------------
\* Sums.

Numbers(s, n) == \A k \in 1 .. n : s[k] \in Nat

Sums(f, s, n) ==
  /\ f \in [0 .. n -> Nat]
  /\ \A k \in 0 .. n : f[k] = IF k = 0 THEN 0 ELSE f[k - 1] + s[k]

LEMMA SumToIs ==
  ASSUME NEW n \in Nat, NEW s, Numbers(s, n)
  PROVE  \E f : Sums(f, s, n) /\ SumTo(s, n) = f[n]
<1> DEFINE step == [k \in 1 .. n |-> [v \in Nat |-> v + s[k]]]
           Def(f) == f = [j \in 0 .. n |-> IF j = 0 THEN 0 ELSE f[j - 1] + s[j]]
           sum == CHOOSE f : Def(f)
<1>1. step \in [1 .. n -> [Nat -> Nat]]
  BY DEF Numbers
<1>2. \A k \in 1 .. n : \A v \in Nat : step[k][v] = v + s[k]
  OBVIOUS
<1> HIDE DEF step
<1>3. PICK f \in [0 .. n -> Nat] : IsFold(f, n, 0, step)
  <2>1. 0 \in Nat
    OBVIOUS
  <2> QED
    BY <1>1, <2>1, FoldExists
<1>4. ASSUME NEW k \in 0 .. n PROVE f[k] = IF k = 0 THEN 0 ELSE f[k - 1] + s[k]
  <2>1. f[k] = IF k = 0 THEN 0 ELSE step[k][f[k - 1]]
    BY <1>3 DEF IsFold
  <2>2. CASE k = 0
    BY <2>1, <2>2
  <2>3. CASE k # 0
    <3>1. k \in 1 .. n /\ f[k - 1] \in Nat
      BY <2>3
    <3> QED
      BY <1>2, <2>1, <2>3, <3>1
  <2> QED
    BY <2>2, <2>3
<1>5. Def(f)
  BY <1>4
<1>6. Def(sum)
  BY <1>5
<1>7. SumTo(s, n) = sum[n]
  BY DEF SumTo
<1> HIDE DEF sum
<1>8. \A k \in 0 .. n : sum[k] = IF k = 0 THEN 0 ELSE sum[k - 1] + s[k]
  BY <1>6
<1> DEFINE X == {k \in Nat : k <= n => sum[k] \in Nat}
<1>9. 0 \in X
  BY <1>8
<1>10. ASSUME NEW k \in Nat, k \in X PROVE k + 1 \in X
  <2> SUFFICES ASSUME k + 1 <= n PROVE sum[k + 1] \in Nat
    OBVIOUS
  <2>1. sum[k] \in Nat /\ k + 1 \in 0 .. n /\ k + 1 # 0 /\ (k + 1) - 1 = k /\ s[k + 1] \in Nat
    BY <1>10 DEF Numbers
  <2> QED
    BY <1>8, <2>1
<1> HIDE DEF X
<1>11. Nat \subseteq X
  BY <1>9, <1>10, Shared!InductionOnNat
<1>12. sum \in [0 .. n -> Nat]
  <2>1. \A k \in 0 .. n : sum[k] \in Nat
    BY <1>11 DEF X
  <2> QED
    BY <1>6, <2>1
<1> QED
  BY <1>7, <1>8, <1>12 DEF Sums

\* Two sequences that begin alike have the same sums that far.
LEMMA SumsAgree ==
  ASSUME NEW n \in Nat, NEW m \in Nat, NEW s, NEW t, NEW f, NEW g, Sums(f, s, n), Sums(g, t, m),
         NEW c \in Nat, c <= n, c <= m, \A k \in 1 .. c : s[k] = t[k]
  PROVE  f[c] = g[c]
<1> DEFINE X == {k \in Nat : k <= c => f[k] = g[k]}
<1>1. 0 \in X
  BY DEF Sums
<1>2. ASSUME NEW k \in Nat, k \in X PROVE k + 1 \in X
  <2> SUFFICES ASSUME k + 1 <= c PROVE f[k + 1] = g[k + 1]
    OBVIOUS
  <2>1. f[k] = g[k] /\ k + 1 \in 0 .. n /\ k + 1 \in 0 .. m /\ k + 1 \in 1 .. c /\ k + 1 # 0 /\ (k + 1) - 1 = k
    BY <1>2
  <2>2. f[k + 1] = f[k] + s[k + 1] /\ g[k + 1] = g[k] + t[k + 1] /\ s[k + 1] = t[k + 1]
    BY <2>1 DEF Sums
  <2> QED
    BY <2>1, <2>2
<1> HIDE DEF X
<1>3. Nat \subseteq X
  BY <1>1, <1>2, Shared!InductionOnNat
<1> QED
  BY <1>3 DEF X

LEMMA SumSame ==
  ASSUME NEW n \in Nat, NEW s, NEW t, Numbers(s, n), \A k \in 1 .. n : s[k] = t[k]
  PROVE  SumTo(s, n) = SumTo(t, n)
<1>1. Numbers(t, n)
  BY DEF Numbers
<1>2. PICK f : Sums(f, s, n) /\ SumTo(s, n) = f[n]
  BY SumToIs
<1>3. PICK g : Sums(g, t, n) /\ SumTo(t, n) = g[n]
  BY <1>1, SumToIs
<1> QED
  BY <1>2, <1>3, SumsAgree

LEMMA SumNat ==
  ASSUME NEW n \in Nat, NEW s, Numbers(s, n)
  PROVE  SumTo(s, n) \in Nat
<1>1. PICK f : Sums(f, s, n) /\ SumTo(s, n) = f[n]
  BY SumToIs
<1> QED
  BY <1>1 DEF Sums

LEMMA SumZero == ASSUME NEW s PROVE SumTo(s, 0) = 0
<1>1. Numbers(s, 0)
  BY DEF Numbers
<1>2. PICK f : Sums(f, s, 0) /\ SumTo(s, 0) = f[0]
  BY <1>1, SumToIs
<1> QED
  BY <1>2 DEF Sums

LEMMA SumNext ==
  ASSUME NEW n \in Nat, NEW s, Numbers(s, n + 1)
  PROVE  SumTo(s, n + 1) = SumTo(s, n) + s[n + 1]
<1>1. Numbers(s, n)
  BY DEF Numbers
<1>2. PICK f : Sums(f, s, n) /\ SumTo(s, n) = f[n]
  BY <1>1, SumToIs
<1>3. PICK g : Sums(g, s, n + 1) /\ SumTo(s, n + 1) = g[n + 1]
  BY SumToIs
<1>4. f[n] = g[n]
  BY <1>2, <1>3, SumsAgree
<1>5. g[n + 1] = g[n] + s[n + 1]
  BY <1>3 DEF Sums
<1> QED
  BY <1>2, <1>3, <1>4, <1>5

\* The sums grow.
LEMMA SumGrows ==
  ASSUME NEW n \in Nat, NEW s, Numbers(s, n), NEW a \in Nat, NEW b \in Nat, a <= b, b <= n
  PROVE  SumTo(s, a) \in Nat /\ SumTo(s, b) \in Nat /\ SumTo(s, a) <= SumTo(s, b)
<1> DEFINE X == {k \in Nat : a <= k /\ k <= n => SumTo(s, a) <= SumTo(s, k)}
<1>1. \A k \in Nat : k <= n => Numbers(s, k) /\ SumTo(s, k) \in Nat
  <2> SUFFICES ASSUME NEW k \in Nat, k <= n PROVE Numbers(s, k) /\ SumTo(s, k) \in Nat
    OBVIOUS
  <2>1. Numbers(s, k)
    BY DEF Numbers
  <2> QED
    BY <2>1, SumNat
<1>2. 0 \in X
  BY <1>1
<1>3. ASSUME NEW k \in Nat, k \in X PROVE k + 1 \in X
  <2> SUFFICES ASSUME a <= k + 1, k + 1 <= n PROVE SumTo(s, a) <= SumTo(s, k + 1)
    OBVIOUS
  <2>1. CASE a = k + 1
    BY <1>1, <2>1
  <2>2. CASE a <= k
    <3>1. SumTo(s, a) <= SumTo(s, k)
      BY <1>3, <2>2
    <3>2. SumTo(s, k + 1) = SumTo(s, k) + s[k + 1] /\ s[k + 1] \in Nat
      <4>1. Numbers(s, k + 1)
        BY <1>1
      <4> QED
        BY <4>1, SumNext DEF Numbers
    <3>3. SumTo(s, a) \in Nat /\ SumTo(s, k) \in Nat
      BY <1>1
    <3> QED
      BY <3>1, <3>2, <3>3
  <2> QED
    BY <2>1, <2>2
<1> HIDE DEF X
<1>4. Nat \subseteq X
  BY <1>2, <1>3, Shared!InductionOnNat
<1>5. SumTo(s, a) <= SumTo(s, b)
  BY <1>4 DEF X
<1> QED
  BY <1>1, <1>5

LEMMA NumbersLess ==
  ASSUME NEW n \in Nat, NEW m \in Nat, m <= n, NEW s, Numbers(s, n)
  PROVE  Numbers(s, m)
BY DEF Numbers

\* The sum of a sequence that contains another one from a place on.
LEMMA SumShift ==
  ASSUME NEW t, NEW u, NEW a \in Nat, NEW m \in Nat, Numbers(t, a + m),
         \A j \in 1 .. m : t[a + j] = u[j]
  PROVE  Numbers(u, m) /\ SumTo(t, a + m) = SumTo(t, a) + SumTo(u, m)
<1>1. Numbers(u, m)
  <2> SUFFICES ASSUME NEW j \in 1 .. m PROVE u[j] \in Nat
    BY DEF Numbers
  <2>1. a + j \in 1 .. a + m
    OBVIOUS
  <2> QED
    BY <2>1 DEF Numbers
<1>2. \A k \in Nat : k <= m => Numbers(t, a + k) /\ SumTo(t, a + k) \in Nat /\ Numbers(u, k) /\ SumTo(u, k) \in Nat
  <2> SUFFICES ASSUME NEW k \in Nat, k <= m
               PROVE  Numbers(t, a + k) /\ SumTo(t, a + k) \in Nat /\ Numbers(u, k) /\ SumTo(u, k) \in Nat
    OBVIOUS
  <2>1. Numbers(t, a + k) /\ Numbers(u, k) /\ a + k \in Nat
    BY <1>1 DEF Numbers
  <2> QED
    BY <2>1, SumNat
<1> DEFINE X == {k \in Nat : k <= m => SumTo(t, a + k) = SumTo(t, a) + SumTo(u, k)}
<1>3. 0 \in X
  <2>1. SumTo(u, 0) = 0 /\ a + 0 = a /\ SumTo(t, a + 0) \in Nat
    BY <1>2, SumZero
  <2> QED
    BY <2>1
<1>4. ASSUME NEW k \in Nat, k \in X PROVE k + 1 \in X
  <2> SUFFICES ASSUME k + 1 <= m PROVE SumTo(t, a + (k + 1)) = SumTo(t, a) + SumTo(u, k + 1)
    OBVIOUS
  <2>1. /\ a + k \in Nat /\ (a + k) + 1 = a + (k + 1) /\ k + 1 \in 1 .. m
        /\ Numbers(t, a + (k + 1)) /\ Numbers(u, k + 1)
    BY <1>2
  <2>2. SumTo(t, (a + k) + 1) = SumTo(t, a + k) + t[(a + k) + 1]
    BY <2>1, SumNext
  <2>3. SumTo(u, k + 1) = SumTo(u, k) + u[k + 1]
    BY <2>1, SumNext
  <2>4. t[a + (k + 1)] = u[k + 1] /\ u[k + 1] \in Nat
    BY <1>1, <2>1 DEF Numbers
  <2>5. /\ SumTo(t, a + k) = SumTo(t, a) + SumTo(u, k)
        /\ SumTo(t, a) \in Nat /\ SumTo(u, k) \in Nat
    <3>1. SumTo(t, a + 0) \in Nat /\ a + 0 = a
      BY <1>2
    <3> QED
      BY <1>2, <1>4, <3>1
  <2> QED
    BY <2>1, <2>2, <2>3, <2>4, <2>5
<1> HIDE DEF X
<1>5. Nat \subseteq X
  BY <1>3, <1>4, Shared!InductionOnNat
<1> QED
  BY <1>1, <1>5 DEF X

\* A place below a sum lies in one of its parts.
LEMMA PartOf ==
  ASSUME NEW n \in Nat, NEW s, Numbers(s, n), NEW p \in 1 .. SumTo(s, n)
  PROVE  \E k \in 1 .. n : \E j \in 1 .. s[k] : p = SumTo(s, k - 1) + j
<1> DEFINE Found(m) == \E k \in 1 .. m : \E j \in 1 .. s[k] : p = SumTo(s, k - 1) + j
           X == {m \in Nat : m <= n /\ p <= SumTo(s, m) => Found(m)}
<1> HIDE DEF Found
<1>1. 0 \in X
  <2>1. SumTo(s, 0) = 0
    BY SumZero
  <2>2. p >= 1
    BY SumNat
  <2> QED
    BY <2>1, <2>2
<1>2. ASSUME NEW m \in Nat, m \in X PROVE m + 1 \in X
  <2> SUFFICES ASSUME m + 1 <= n, p <= SumTo(s, m + 1) PROVE Found(m + 1)
    OBVIOUS
  <2>0. Numbers(s, m + 1) /\ Numbers(s, m) /\ SumTo(s, m) \in Nat /\ p \in Nat
    <3>1. Numbers(s, m + 1) /\ Numbers(s, m) /\ SumTo(s, n) \in Nat
      BY NumbersLess, SumNat
    <3> QED
      BY <3>1, SumNat
  <2>1. CASE p <= SumTo(s, m)
    <3>1. Found(m)
      BY <1>2, <2>1
    <3> QED
      BY <3>1 DEF Found
  <2>2. CASE p > SumTo(s, m)
    <3> DEFINE j == p - SumTo(s, m)
    <3>1. SumTo(s, m + 1) = SumTo(s, m) + s[m + 1] /\ s[m + 1] \in Nat
      BY <2>0, SumNext DEF Numbers
    <3>2. j \in 1 .. s[m + 1] /\ p = SumTo(s, (m + 1) - 1) + j /\ m + 1 \in 1 .. m + 1
      <4>1. (m + 1) - 1 = m
        OBVIOUS
      <4> QED
        BY <2>0, <2>2, <3>1, <4>1
    <3> HIDE DEF j
    <3> QED
      BY <3>2 DEF Found
  <2> QED
    BY <2>0, <2>1, <2>2
<1> HIDE DEF X
<1>3. Nat \subseteq X
  BY <1>1, <1>2, Shared!InductionOnNat
<1>4. Found(n)
  <2>1. p <= SumTo(s, n)
    BY SumNat
  <2> QED
    BY <1>3, <2>1 DEF X
<1> QED
  BY <1>4 DEF Found

-----------------------------------------------------------------------------
\* Sequences of sequences.

LEMMA ConcatIs ==
  ASSUME NEW A, NEW s \in Seq(A), NEW t \in Seq(A)
  PROVE  /\ s \o t \in Seq(A) /\ Len(s \o t) = Len(s) + Len(t)
         /\ \A j \in 1 .. Len(s) : (s \o t)[j] = s[j]
         /\ \A j \in 1 .. Len(t) : (s \o t)[Len(s) + j] = t[j]
<1>1. Len(s) \in Nat /\ Len(t) \in Nat
  BY LenProperties
<1> QED
  BY <1>1, ConcatProperties

LEMMA NoElements ==
  ASSUME NEW A, NEW s \in Seq(A), Len(s) = 0
  PROVE  s = <<>>
BY EmptySeq

Lens(ss) == [k \in 1 .. Len(ss) |-> Len(ss[k])]

LEMMA LensIs ==
  ASSUME NEW A, NEW ss \in Seq(Seq(A))
  PROVE  /\ Len(ss) \in Nat /\ Numbers(Lens(ss), Len(ss))
         /\ \A k \in 1 .. Len(ss) : ss[k] \in Seq(A) /\ Lens(ss)[k] = Len(ss[k]) /\ Len(ss[k]) \in Nat
<1>1. Len(ss) \in Nat /\ \A k \in 1 .. Len(ss) : ss[k] \in Seq(A)
  BY LenProperties
<1>2. \A k \in 1 .. Len(ss) : Len(ss[k]) \in Nat
  BY <1>1, LenProperties
<1> QED
  BY <1>1, <1>2 DEF Lens, Numbers

\* The first k of the sequences lie one behind the other.
Laid(s, ss, k) ==
  /\ Len(s) = SumTo(Lens(ss), k)
  /\ \A c \in 1 .. k : \A j \in 1 .. Len(ss[c]) : s[SumTo(Lens(ss), c - 1) + j] = ss[c][j]

LEMMA LaidNext ==
  ASSUME NEW A, NEW ss \in Seq(Seq(A)), NEW k \in Nat, k + 1 <= Len(ss), NEW s \in Seq(A), Laid(s, ss, k)
  PROVE  s \o ss[k + 1] \in Seq(A) /\ Laid(s \o ss[k + 1], ss, k + 1)
<1> DEFINE lens == Lens(ss)
           u == ss[k + 1]
           w == s \o u
<1>1. Len(ss) \in Nat /\ Numbers(lens, Len(ss)) /\ u \in Seq(A) /\ k + 1 \in 1 .. Len(ss) /\ lens[k + 1] = Len(u)
  BY LensIs
<1> HIDE DEF lens, u
<1>2. /\ w \in Seq(A) /\ Len(w) = Len(s) + Len(u)
      /\ \A j \in 1 .. Len(s) : w[j] = s[j]
      /\ \A j \in 1 .. Len(u) : w[Len(s) + j] = u[j]
  BY <1>1, ConcatIs
<1> HIDE DEF w
<1>3. SumTo(lens, k + 1) = SumTo(lens, k) + Len(u) /\ Len(s) = SumTo(lens, k)
  <2>1. Numbers(lens, k + 1)
    BY <1>1, NumbersLess
  <2> QED
    BY <1>1, <2>1, SumNext DEF Laid, lens
<1>4. ASSUME NEW c \in 1 .. k + 1, NEW j \in 1 .. Len(ss[c])
      PROVE  w[SumTo(lens, c - 1) + j] = ss[c][j]
  <2>1. CASE c = k + 1
    <3>1. c - 1 = k /\ ss[c] = u
      BY <2>1 DEF u
    <3> QED
      BY <1>2, <1>3, <3>1
  <2>2. CASE c \in 1 .. k
    <3>1. s[SumTo(lens, c - 1) + j] = ss[c][j]
      BY <2>2 DEF Laid, lens
    <3>2. SumTo(lens, c - 1) + j \in 1 .. Len(s)
      <4>1. Numbers(lens, c) /\ Numbers(lens, k) /\ (c - 1) + 1 = c /\ c - 1 \in Nat /\ c \in Nat /\ c <= k
        BY <1>1, <2>2 DEF Numbers
      <4>2. SumTo(lens, c) = SumTo(lens, c - 1) + lens[c]
        BY <4>1, SumNext
      <4>3. SumTo(lens, c - 1) \in Nat /\ SumTo(lens, c) <= SumTo(lens, k) /\ SumTo(lens, c) \in Nat
        <5>1. Numbers(lens, c - 1)
          BY <4>1 DEF Numbers
        <5> QED
          BY <4>1, <5>1, SumGrows, SumNat
      <4>4. lens[c] = Len(ss[c]) /\ Len(ss[c]) \in Nat /\ SumTo(lens, k) \in Nat
        BY <1>1, <2>2, <4>1, LensIs, SumNat DEF lens
      <4>5. j \in Nat /\ 1 <= j /\ j <= Len(ss[c])
        BY <4>4
      <4> DEFINE x == SumTo(lens, c - 1)
                 y == SumTo(lens, c)
                 z == SumTo(lens, k)
                 l == Len(ss[c])
      <4>6. /\ x \in Nat /\ y \in Nat /\ z \in Nat /\ l \in Nat /\ y = x + l /\ y <= z
            /\ j \in Nat /\ 1 <= j /\ j <= l /\ Len(s) = z
        BY <1>3, <4>2, <4>3, <4>4, <4>5
      <4> HIDE DEF x, y, z, l
      <4>7. x + j \in 1 .. Len(s)
        BY <4>6
      <4> QED
        BY <4>7 DEF x
    <3> QED
      BY <1>2, <3>1, <3>2
  <2> QED
    BY <2>1, <2>2
<1>5. Len(w) = SumTo(lens, k + 1)
  BY <1>2, <1>3
<1>6. Laid(w, ss, k + 1)
  BY <1>4, <1>5 DEF Laid, lens
<1> QED
  BY <1>2, <1>6 DEF w, u

LEMMA FlattenIs ==
  ASSUME NEW A, NEW ss \in Seq(Seq(A))
  PROVE  FlattenSeq(ss) \in Seq(A) /\ Laid(FlattenSeq(ss), ss, Len(ss))
<1> DEFINE n == Len(ss)
           lens == Lens(ss)
           Def(g) == g = [j \in 1 .. Len(ss) |-> IF j = 1 THEN ss[j] ELSE g[j - 1] \o ss[j]]
           flat == CHOOSE g : Def(g)
<1>1. n \in Nat /\ Numbers(lens, n)
  BY LensIs
<1>2. \A k \in 1 .. n : ss[k] \in Seq(A)
  BY LensIs
<1>3. CASE n = 0
  <2>1. ss = <<>>
    BY <1>3, NoElements
  <2>2. FlattenSeq(ss) = ss
    BY <1>3 DEF FlattenSeq
  <2>3. <<>> \in Seq(A) /\ Len(<<>>) = 0 /\ SumTo(lens, 0) = 0
    BY EmptySeq, SumZero
  <2>4. FlattenSeq(ss) \in Seq(A) /\ Len(FlattenSeq(ss)) = SumTo(Lens(ss), 0)
    <3> HIDE DEF n, Def, flat
    <3> QED
      BY <2>1, <2>2, <2>3
  <2> QED
    BY <1>3, <2>4 DEF Laid
<1>4. CASE n # 0
  <2>1. FlattenSeq(ss) = flat[n]
    BY <1>4 DEF FlattenSeq
  <2> DEFINE step == [k \in 1 .. n |-> [s \in Seq(A) |-> s \o ss[k]]]
  <2>2. step \in [1 .. n -> [Seq(A) -> Seq(A)]]
    BY <1>2, ConcatIs
  <2>3. \A k \in 1 .. n : \A s \in Seq(A) : step[k][s] = s \o ss[k]
    OBVIOUS
  <2> HIDE DEF step
  <2>4. PICK f \in [0 .. n -> Seq(A)] : IsFold(f, n, <<>>, step)
    <3>1. <<>> \in Seq(A)
      BY EmptySeq
    <3> HIDE DEF Def, flat, n
    <3> QED
      BY <1>1, <2>2, <3>1, FoldExists
  <2> HIDE DEF n
  <2>5. f[0] = <<>> /\ \A k \in 1 .. n : f[k - 1] \in Seq(A) /\ f[k] = f[k - 1] \o ss[k]
    <3>1. 0 \in 0 .. n /\ f[0] = <<>>
      BY <1>1, <2>4 DEF IsFold
    <3>2. ASSUME NEW k \in 1 .. n PROVE f[k - 1] \in Seq(A) /\ f[k] = f[k - 1] \o ss[k]
      <4>1. k \in 0 .. n /\ k # 0 /\ k - 1 \in 0 .. n
        BY <1>1
      <4>2. f[k] = step[k][f[k - 1]] /\ f[k - 1] \in Seq(A)
        BY <2>4, <4>1 DEF IsFold
      <4> QED
        BY <2>3, <4>2
    <3> QED
      BY <3>1, <3>2
  <2>6. f[1] = ss[1]
    <3>1. 1 \in 1 .. n /\ 1 - 1 = 0 /\ ss[1] \in Seq(A)
      BY <1>1, <1>2, <1>4
    <3>2. <<>> \o ss[1] = ss[1]
      BY <3>1, ConcatEmptySeq
    <3>3. f[1] = f[1 - 1] \o ss[1]
      BY <2>5, <3>1
    <3> QED
      BY <2>5, <3>1, <3>2, <3>3
  <2> DEFINE h == [k \in 1 .. n |-> f[k]]
  <2>7. Def(h)
    <3>1. ASSUME NEW k \in 1 .. n PROVE h[k] = IF k = 1 THEN ss[k] ELSE h[k - 1] \o ss[k]
      <4>1. CASE k = 1
        BY <2>6, <4>1
      <4>2. CASE k # 1
        <5>1. k - 1 \in 1 .. n
          BY <1>1, <4>2
        <5> QED
          BY <2>5, <4>2, <5>1
      <4> QED
        BY <4>1, <4>2
    <3> QED
      BY <3>1 DEF n
  <2>8. Def(flat)
    <3> HIDE DEF h
    <3> QED
      BY <2>7
  <2> HIDE DEF flat, h
  <2>9. \A k \in 1 .. n : flat[k] = IF k = 1 THEN ss[k] ELSE flat[k - 1] \o ss[k]
    BY <2>8 DEF n
  <2> DEFINE X == {k \in Nat : k \in 1 .. n => flat[k] = f[k]}
             Y == {k \in Nat : k <= n => Laid(f[k], ss, k)}
  <2>10. 0 \in X /\ 0 \in Y
    <3>1. Len(<<>>) = 0 /\ SumTo(lens, 0) = 0
      BY EmptySeq, SumZero
    <3> QED
      BY <2>5, <3>1 DEF Laid
  <2>11. ASSUME NEW k \in Nat, k \in X PROVE k + 1 \in X
    <3> SUFFICES ASSUME k + 1 \in 1 .. n PROVE flat[k + 1] = f[k + 1]
      OBVIOUS
    <3>1. CASE k = 0
      <4>1. k + 1 = 1 /\ 1 \in 1 .. n
        BY <3>1
      <4>2. flat[1] = ss[1]
        BY <2>9, <4>1
      <4> QED
        BY <2>6, <4>1, <4>2
    <3>2. CASE k # 0
      <4>1. k \in 1 .. n /\ (k + 1) - 1 = k /\ k + 1 # 1
        BY <1>1, <3>2
      <4> QED
        <5>1. flat[k] = f[k] /\ k + 1 \in 1 .. n
          BY <2>11, <4>1 DEF X
        <5>2. flat[k + 1] = flat[(k + 1) - 1] \o ss[k + 1]
          BY <2>9, <4>1
        <5>3. f[k + 1] = f[(k + 1) - 1] \o ss[k + 1]
          BY <2>5
        <5> QED
          BY <4>1, <5>1, <5>2, <5>3
    <3> QED
      BY <3>1, <3>2
  <2>12. ASSUME NEW k \in Nat, k \in Y PROVE k + 1 \in Y
    <3> SUFFICES ASSUME k + 1 <= n PROVE Laid(f[k + 1], ss, k + 1)
      OBVIOUS
    <3>1. k + 1 \in 1 .. n /\ (k + 1) - 1 = k /\ Laid(f[k], ss, k)
      BY <1>1, <2>12
    <3>2. f[k] \in Seq(A) /\ f[k + 1] = f[k] \o ss[k + 1]
      BY <2>5, <3>1
    <3>3. Laid(f[k] \o ss[k + 1], ss, k + 1)
      BY <3>1, <3>2, LaidNext DEF n
    <3> QED
      BY <3>2, <3>3
  <2> HIDE DEF X, Y
  <2>13. Nat \subseteq X /\ Nat \subseteq Y
    BY <2>10, <2>11, <2>12, Shared!InductionOnNat
  <2>14. n \in 1 .. n /\ n \in 0 .. n
    BY <1>1, <1>4
  <2> QED
    BY <1>1, <2>1, <2>4, <2>13, <2>14 DEF X, Y, n
<1> QED
  BY <1>3, <1>4

-----------------------------------------------------------------------------
\* Maps of opcodes.

\* What is found by a number has it, and is found by its name.
Consistent(map) ==
  /\ \A c \in DOMAIN map.codes :
       /\ map.codes[c].code = c
       /\ Fold(map.codes[c].name) \in DOMAIN map.names
       /\ map.names[Fold(map.codes[c].name)] = c
  /\ \A name \in DOMAIN map.names : map.names[name] \in DOMAIN map.codes

Maps(ops) ==
  {map \in [names : UNION {[N -> Nat] : N \in SUBSET STRING}, codes : UNION {[C -> ToSet(ops)] : C \in SUBSET Nat}] :
     Consistent(map)}

LEMMA WithType ==
  ASSUME NEW A, NEW B, NEW f \in UNION {[C -> B] : C \in SUBSET A}, NEW x \in A, NEW y \in B
  PROVE  With(f, x, y) \in UNION {[C -> B] : C \in SUBSET A}
<1>1. PICK C \in SUBSET A : f \in [C -> B]
  OBVIOUS
<1>2. {x} \cup C \in SUBSET A /\ With(f, x, y) \in [{x} \cup C -> B]
  BY <1>1 DEF With
<1> QED
  BY <1>2

LEMMA FoldType == ASSUME NEW name \in STRING PROVE Fold(name) \in STRING
BY OpcodesOK DEF Fold

LEMMA OpcodeIs ==
  ASSUME NEW ops, Opcodes(ops), NEW op \in ToSet(ops)
  PROVE  op.code \in Nat /\ op.name \in STRING /\ op.name # "" /\ op.min \in Nat /\ op.max \in Nat
BY DEF Opcodes

LEMMA EnterConsistent ==
  ASSUME NEW ops, Opcodes(ops), NEW op \in ToSet(ops), NEW map \in Maps(ops)
  PROVE  Enter(map, op) \in Maps(ops)
<1> DEFINE name == Fold(op.name)
           Names == UNION {[N -> Nat] : N \in SUBSET STRING}
           Codes == UNION {[C -> ToSet(ops)] : C \in SUBSET Nat}
<1>1. op.code \in Nat /\ op.name \in STRING /\ op.name # "" /\ name \in STRING
  BY OpcodeIs, FoldType
<1>2. CASE Known(map, op.name) \/ op.code \in DOMAIN map.codes
  BY <1>2 DEF Enter
<1>3. CASE ~(Known(map, op.name) \/ op.code \in DOMAIN map.codes)
  <2> DEFINE names == With(map.names, name, op.code)
             codes == With(map.codes, op.code, op)
             new == [names |-> names, codes |-> codes]
  <2>1. name \notin DOMAIN map.names /\ op.code \notin DOMAIN map.codes
    BY <1>1, <1>3 DEF Known
  <2>2. Enter(map, op) = new
    BY <1>1, <1>3 DEF Enter
  <2>3. map.names \in Names /\ map.codes \in Codes /\ Consistent(map)
    BY DEF Maps
  <2>4. names \in Names /\ codes \in Codes
    <3> HIDE DEF name
    <3>1. names \in Names
      BY <1>1, <2>3, WithType
    <3>2. codes \in Codes
      BY <1>1, <2>3, WithType
    <3> QED
      BY <3>1, <3>2
  <2>5. /\ DOMAIN names = {name} \cup DOMAIN map.names /\ names[name] = op.code
        /\ \A n \in DOMAIN map.names : names[n] = map.names[n]
        /\ DOMAIN codes = {op.code} \cup DOMAIN map.codes /\ codes[op.code] = op
        /\ \A c \in DOMAIN map.codes : codes[c] = map.codes[c]
    <3> HIDE DEF name
    <3>1. /\ DOMAIN names = {name} \cup DOMAIN map.names /\ names[name] = op.code
          /\ \A n \in DOMAIN map.names : n # name => names[n] = map.names[n]
      BY DEF With
    <3>2. /\ DOMAIN codes = {op.code} \cup DOMAIN map.codes /\ codes[op.code] = op
          /\ \A c \in DOMAIN map.codes : c # op.code => codes[c] = map.codes[c]
      BY DEF With
    <3> HIDE DEF names, codes
    <3> QED
      BY <2>1, <3>1, <3>2
  <2> HIDE DEF names, codes, Names, Codes
  <2>6. ASSUME NEW c \in DOMAIN codes
        PROVE  codes[c].code = c /\ Fold(codes[c].name) \in DOMAIN names /\ names[Fold(codes[c].name)] = c
    <3>1. CASE c = op.code
      BY <2>5, <3>1
    <3>2. CASE c \in DOMAIN map.codes
      BY <2>3, <2>5, <3>2 DEF Consistent
    <3> QED
      BY <2>5, <3>1, <3>2
  <2>7. ASSUME NEW n \in DOMAIN names PROVE names[n] \in DOMAIN codes
    BY <2>3, <2>5 DEF Consistent
  <2>8. new.names = names /\ new.codes = codes /\ new \in [names : Names, codes : Codes]
    BY <2>4
  <2> HIDE DEF new
  <2>9. Consistent(new)
    BY <2>6, <2>7, <2>8 DEF Consistent
  <2> QED
    BY <2>2, <2>8, <2>9 DEF Maps, Names, Codes
<1> QED
  BY <1>2, <1>3

LEMMA RegisteredConsistent ==
  ASSUME NEW ops, Opcodes(ops)
  PROVE  Registered(ops) \in Maps(ops)
<1> DEFINE n == Len(ops)
           M == Maps(ops)
           Def(g) == g = [k \in 0 .. Len(ops) |-> IF k = 0 THEN NoOpcodes ELSE Enter(g[k - 1], ops[k])]
           map == CHOOSE g : Def(g)
           step == [k \in 1 .. n |-> [m \in M |-> Enter(m, ops[k])]]
<1>1. Registered(ops) = map[n]
  BY DEF Registered
<1>2. n \in Nat /\ \A k \in 1 .. n : ops[k] \in ToSet(ops)
  <2>1. Sequence(ops)
    BY DEF Opcodes, Sequence
  <2> QED
    BY <2>1, SequenceIs DEF ToSet
<1>3. NoOpcodes \in M
  <2>1. <<>> \in [{} -> Nat] /\ <<>> \in [{} -> ToSet(ops)] /\ DOMAIN <<>> = {}
    OBVIOUS
  <2>2. <<>> \in UNION {[N -> Nat] : N \in SUBSET STRING} /\ <<>> \in UNION {[C -> ToSet(ops)] : C \in SUBSET Nat}
    BY <2>1
  <2>3. Consistent(NoOpcodes)
    BY <2>1 DEF Consistent, NoOpcodes
  <2> QED
    BY <2>2, <2>3 DEF Maps, NoOpcodes
<1>4. \A k \in 1 .. n : \A m \in M : Enter(m, ops[k]) \in M
  BY <1>2, EnterConsistent
<1> HIDE DEF M
<1>5. step \in [1 .. n -> [M -> M]] /\ \A k \in 1 .. n : \A m \in M : step[k][m] = Enter(m, ops[k])
  BY <1>4
<1> HIDE DEF step
<1>6. PICK f \in [0 .. n -> M] : IsFold(f, n, NoOpcodes, step)
  <2> HIDE DEF Def, map, n
  <2> QED
    BY <1>2, <1>3, <1>5, FoldExists
<1> HIDE DEF n
<1>7. ASSUME NEW k \in 0 .. n PROVE f[k] = IF k = 0 THEN NoOpcodes ELSE Enter(f[k - 1], ops[k])
  <2>1. f[k] = IF k = 0 THEN NoOpcodes ELSE step[k][f[k - 1]]
    BY <1>6 DEF IsFold
  <2>2. k # 0 => k \in 1 .. n /\ f[k - 1] \in M
    BY <1>2
  <2> QED
    BY <1>5, <2>1, <2>2
<1>8. Def(f)
  BY <1>7 DEF n
<1>9. Def(map)
  BY <1>8
<1> HIDE DEF map
<1>10. \A k \in 0 .. n : map[k] = IF k = 0 THEN NoOpcodes ELSE Enter(map[k - 1], ops[k])
  BY <1>9 DEF n
<1> DEFINE X == {k \in Nat : k <= n => map[k] \in M}
<1>11. 0 \in X
  BY <1>2, <1>3, <1>10
<1>12. ASSUME NEW k \in Nat, k \in X PROVE k + 1 \in X
  <2> SUFFICES ASSUME k + 1 <= n PROVE map[k + 1] \in M
    OBVIOUS
  <2>1. k + 1 \in 0 .. n /\ k + 1 \in 1 .. n /\ k + 1 # 0 /\ (k + 1) - 1 = k /\ map[k] \in M
    BY <1>2, <1>12
  <2>2. map[k + 1] = Enter(map[k], ops[k + 1])
    BY <1>10, <2>1
  <2> QED
    BY <1>4, <2>1, <2>2
<1> HIDE DEF X
<1>13. Nat \subseteq X
  BY <1>11, <1>12, Shared!InductionOnNat
<1> QED
  BY <1>1, <1>2, <1>13 DEF X, M, n

LEMMA ResolvedIs ==
  ASSUME NEW ops, NEW map \in Maps(ops), NEW spelling, NEW op \in Resolved(map, spelling)
  PROVE  \E c \in DOMAIN map.codes : op = map.codes[c]
<1>1. CASE Known(map, spelling)
  BY <1>1 DEF Resolved, Known, Maps, Consistent
<1>2. CASE ~Known(map, spelling)
  BY <1>2 DEF Resolved
<1> QED
  BY <1>1, <1>2

Offers(map, name) == \E c \in DOMAIN map.codes : map.codes[c].name = name

LEMMA CodeOfIs ==
  ASSUME NEW ops, NEW map \in Maps(ops), NEW name, Offers(map, name)
  PROVE  /\ CodeOf(map, name) \in DOMAIN map.codes /\ CodeOf(map, name) \in Nat
         /\ map.codes[CodeOf(map, name)].name = name
         /\ map.codes[CodeOf(map, name)] \in ToSet(ops)
<1>1. PICK c \in DOMAIN map.codes : map.codes[c].name = name
  BY DEF Offers
<1>2. CodeOf(map, name) = c
  BY <1>1 DEF CodeOf, Maps, Consistent
<1>3. c \in Nat /\ map.codes[c] \in ToSet(ops)
  BY DEF Maps
<1> QED
  BY <1>1, <1>2, <1>3

LEMMA BuiltinsConsistent == Builtins \in Maps(BuiltinOps)
BY BuiltinsOK, RegisteredConsistent DEF Builtins

LEMMA ModBuiltinsConsistent ==
  ASSUME NEW m \in Loadable
  PROVE  ModBuiltins[m] \in Maps(ModOps[m]) /\ m # ""
<1>1. m \in DOMAIN ModOps /\ Opcodes(ModOps[m]) /\ m # ""
  BY BuiltinsOK DEF Loadable
<1>2. Registered(ModOps[m]) \in Maps(ModOps[m])
  BY <1>1, RegisteredConsistent
<1> QED
  BY <1>1, <1>2 DEF ModBuiltins

-----------------------------------------------------------------------------
\* Instructions as words.

LEMMA DivisionIs ==
  ASSUME NEW n \in Nat \ {0}, NEW q \in Nat, NEW r \in 0 .. n - 1
  PROVE  (q * n + r) \div n = q /\ (q * n + r) % n = r
<1> DEFINE x == q * n + r
           d == x \div n
           m == x % n
<1>1. x \in Nat
  OBVIOUS
<1> HIDE DEF x
<1>2. d \in Nat /\ m \in 0 .. n - 1 /\ x = d * n + m
  BY <1>1
<1> HIDE DEF d, m
<1>3. d = q
  <2>1. CASE d < q
    <3>1. d + 1 <= q /\ (d + 1) * n <= q * n
      BY <1>2, <2>1
    <3>2. (d + 1) * n = d * n + n
      BY <1>2
    <3> QED
      BY <1>2, <3>1, <3>2 DEF x
  <2>2. CASE d > q
    <3>1. q + 1 <= d /\ (q + 1) * n <= d * n
      BY <1>2, <2>2
    <3>2. (q + 1) * n = q * n + n
      BY <1>2
    <3> QED
      BY <1>2, <3>1, <3>2 DEF x
  <2> QED
    BY <1>2, <2>1, <2>2
<1>4. m = r
  BY <1>2, <1>3 DEF x
<1> QED
  BY <1>3, <1>4 DEF d, m, x

ArgType == [type : {"REGISTER", "CONSTANT", "WORD", "NONE"}, val : Nat]

\* What the assembler may write.
Emittable(ins) ==
  /\ ins = [op |-> ins.op, args |-> ins.args]
  /\ Offers(Builtins, ins.op) /\ ins.args \in Seq(ArgType) /\ Len(ins.args) <= MaxArgs

\* The machine reads what the assembler meant.
LEMMA DecodedIs ==
  ASSUME NEW ins, Emittable(ins)
  PROVE  /\ Decoded(Encoded(ins)) = ins /\ ins \in Instr
         /\ Encoded(ins).word \in 0 .. (MaxArgs + 1) * CodeSpan - 1
         /\ Argc(Encoded(ins).word) = Len(ins.args)
         /\ Builtins.codes[Code(Encoded(ins).word)] \in ToSet(BuiltinOps)
         /\ Builtins.codes[Code(Encoded(ins).word)].name = ins.op
<1> DEFINE c == CodeOf(Builtins, ins.op)
           n == Len(ins.args)
<1>1. c \in DOMAIN Builtins.codes /\ c \in Nat /\ Builtins.codes[c].name = ins.op /\ Builtins.codes[c] \in ToSet(BuiltinOps)
  BY BuiltinsConsistent, CodeOfIs DEF Emittable
<1>2. c \in 0 .. CodeSpan - 1
  <2>1. PICK k \in DOMAIN BuiltinOps : Builtins.codes[c] = BuiltinOps[k]
    BY <1>1 DEF ToSet
  <2>2. BuiltinOps[k].code < CodeSpan
    BY BuiltinsOK DEF Encodable
  <2>3. Builtins.codes[c].code = c
    BY <1>1, BuiltinsConsistent DEF Maps, Consistent
  <2> QED
    BY <1>1, <2>1, <2>2, <2>3, OpcodesOK
<1>3. n \in Nat /\ n <= MaxArgs /\ MaxArgs \in Nat /\ CodeSpan \in Nat \ {0}
  BY LenProperties, OpcodesOK DEF Emittable
<1>4. Builtins.codes[c].name \in STRING
  BY <1>1, BuiltinsOK, OpcodeIs
<1> HIDE DEF c, n
<1>5. n * CodeSpan \in 0 .. (MaxArgs + 1) * CodeSpan - 1 /\ n * CodeSpan + CodeSpan <= (MaxArgs + 1) * CodeSpan
  <2>1. (n + 1) * CodeSpan <= (MaxArgs + 1) * CodeSpan
    BY <1>3
  <2>2. (n + 1) * CodeSpan = n * CodeSpan + CodeSpan /\ n * CodeSpan \in Nat /\ (MaxArgs + 1) * CodeSpan \in Nat
    BY <1>3
  <2> QED
    BY <1>3, <2>1, <2>2
<1>6. (n * CodeSpan) % ((MaxArgs + 1) * CodeSpan) = n * CodeSpan
  <2> DEFINE x == n * CodeSpan
             y == (MaxArgs + 1) * CodeSpan
  <2>1. x \in Nat /\ y \in Nat /\ x < y
    BY <1>3, <1>5
  <2> HIDE DEF x, y
  <2>2. x % y = x
    BY <2>1
  <2> QED
    BY <2>2 DEF x, y
<1> DEFINE word == n * CodeSpan + c
<1>7. OpcodeWord(c, n) = word
  BY <1>6 DEF OpcodeWord
<1>8. Argc(word) = n /\ Code(word) = c
  BY <1>2, <1>3, DivisionIs DEF Argc, Code
<1>9. word \in 0 .. (MaxArgs + 1) * CodeSpan - 1
  <2> DEFINE x == n * CodeSpan
             y == (MaxArgs + 1) * CodeSpan
  <2>1. x \in Nat /\ y \in Nat /\ x + CodeSpan <= y
    BY <1>3, <1>5
  <2> HIDE DEF x, y
  <2>2. x + c \in 0 .. y - 1
    BY <1>2, <1>3, <2>1
  <2> QED
    BY <2>2 DEF x, y
<1> HIDE DEF word
<1>10. Encoded(ins) = [word |-> word, argv |-> ins.args]
  BY <1>7 DEF Encoded, c, n
<1>11. SubSeq(ins.args, 1, n) = ins.args
  BY SubSeqFull DEF Emittable, n
<1>12. Decoded(Encoded(ins)) = [op |-> Builtins.codes[c].name, args |-> SubSeq(ins.args, 1, n)]
  BY <1>8, <1>10 DEF Decoded
<1>13. Decoded(Encoded(ins)) = ins
  BY <1>1, <1>11, <1>12 DEF Emittable
<1>14. ins \in Instr
  BY <1>1, <1>4 DEF Emittable, Instr, ArgType
<1>15. Encoded(ins).word = word
  BY <1>10
<1>16. Argc(Encoded(ins).word) = Len(ins.args) /\ Code(Encoded(ins).word) = c
  BY <1>8, <1>15 DEF n
<1> QED
  BY <1>1, <1>9, <1>13, <1>14, <1>15, <1>16

-----------------------------------------------------------------------------
\* A line.

\* The arguments the lexer has found are a sequence.
Lexing(s) == "args" \in DOMAIN s /\ Sequence(s.args)

LEMMA OneMore ==
  ASSUME NEW s, Sequence(s), NEW x
  PROVE  Sequence(Append(s, x))
<1>1. s \in Seq(ToSet(s) \cup {x})
  <2>1. s \in [1 .. Len(s) -> ToSet(s)] /\ Len(s) \in Nat
    BY LenProperties DEF Sequence
  <2>2. s \in [1 .. Len(s) -> ToSet(s) \cup {x}]
    BY <2>1
  <2> QED
    BY <2>1, <2>2, SeqDef
<1>2. Append(s, x) \in Seq(ToSet(s) \cup {x})
  BY <1>1, AppendProperties
<1> QED
  BY <1>2, IsSequence

LEMMA LexKeeps ==
  ASSUME NEW s, Lexing(s), NEW c, NEW k
  PROVE  Lexing(Lex(s, c, k))
<1>1. Lexing(InInit(s, c, k))
  BY DEF InInit, Lexing
<1>2. Lexing(InLabel(s, c, k))
  BY DEF InLabel, Lexing
<1>3. Lexing(InOpcode(s, c, k))
  <2> DEFINE op  == IF s.opcode = 0 THEN k ELSE s.opcode
             end == s.cut \cup {k}
  <2> HIDE DEF op, end
  <2>1. /\ Lexing([s EXCEPT !.opcode = op, !.cut = end, !.at = "ARG"])
        /\ Lexing([s EXCEPT !.opcode = 0, !.label = op, !.cut = end, !.at = "LABEL"])
        /\ Lexing([s EXCEPT !.opcode = op, !.cut = end, !.at = "COMMENT"])
        /\ Lexing([s EXCEPT !.opcode = op]) /\ Lexing([s EXCEPT !.at = "ERROR"])
    BY DEF Lexing
  <2>2. \/ InOpcode(s, c, k) = [s EXCEPT !.opcode = op, !.cut = end, !.at = "ARG"]
        \/ InOpcode(s, c, k) = [s EXCEPT !.opcode = 0, !.label = op, !.cut = end, !.at = "LABEL"]
        \/ InOpcode(s, c, k) = [s EXCEPT !.opcode = op, !.cut = end, !.at = "COMMENT"]
        \/ InOpcode(s, c, k) = [s EXCEPT !.opcode = op]
        \/ InOpcode(s, c, k) = [s EXCEPT !.at = "ERROR"]
    BY DEF InOpcode, op, end
  <2> QED
    BY <2>1, <2>2
<1>4. Lexing(InArg(s, c, k))
  <2> DEFINE ends   == c \in {Blank, ";"} /\ ~s.str
             closes == s.open # 0 /\ (ends \/ (s.str /\ ~s.esc /\ c = "\""))
             cut  == IF ends THEN s.cut \cup {k} ELSE s.cut
             args == IF closes THEN Append(s.args, s.open) ELSE s.args
             open == IF closes THEN 0 ELSE IF s.open = 0 /\ ~ends THEN k ELSE s.open
             str  == IF s.str THEN s.esc \/ c # "\"" ELSE c = "\""
             esc  == s.str /\ ~s.esc /\ c = "\\"
             over == s.over \/ (closes /\ ends /\ Len(s.args) + 1 = MaxArgs)
             at0  == IF c = ";" /\ ends THEN "COMMENT" ELSE s.at
  <2>1. InArg(s, c, k) =
          IF Len(s.args) = MaxArgs THEN [s EXCEPT !.at = "ERROR"]
          ELSE [s EXCEPT !.cut = cut, !.args = args, !.open = open, !.str = str, !.esc = esc, !.over = over, !.at = at0]
    BY DEF InArg
  <2>2. Sequence(args)
    BY OneMore DEF Lexing
  <2> HIDE DEF ends, closes, cut, args, open, str, esc, over, at0
  <2>3. Lexing([s EXCEPT !.at = "ERROR"])
    BY DEF Lexing
  <2>4. Lexing([s EXCEPT !.cut = cut, !.args = args, !.open = open, !.str = str, !.esc = esc, !.over = over, !.at = at0])
    BY <2>2 DEF Lexing
  <2> QED
    BY <2>1, <2>3, <2>4
<1> QED
  BY <1>1, <1>2, <1>3, <1>4 DEF Lex

LEMMA LexedIs ==
  ASSUME NEW t, Sequence(t)
  PROVE  Sequence(Lexed(t).args)
<1> DEFINE n == Len(t)
           Def(g) == g = [j \in 0 .. Len(t) |-> IF j = 0 THEN Start0 ELSE Lex(g[j - 1], t[j], j)]
           lex == CHOOSE g : Def(g)
           Lexes(g, m) == g = [j \in 0 .. m |-> IF j = 0 THEN Start0 ELSE Lex(g[j - 1], t[j], j)]
           E == {m \in Nat : \E g : Lexes(g, m)}
<1>1. n \in Nat
  BY SequenceIs
<1>2. 0 \in E
  <2> DEFINE g == [j \in 0 .. 0 |-> Start0]
  <2>1. Lexes(g, 0)
    OBVIOUS
  <2> QED
    BY <2>1
<1>3. ASSUME NEW m \in Nat, m \in E PROVE m + 1 \in E
  <2>1. PICK f : Lexes(f, m)
    BY <1>3
  <2> DEFINE v == Lex(f[m], t[m + 1], m + 1)
             g == [j \in 0 .. m + 1 |-> IF j = m + 1 THEN v ELSE f[j]]
  <2>2. ASSUME NEW j \in 0 .. m + 1
        PROVE  g[j] = IF j = 0 THEN Start0 ELSE Lex(g[j - 1], t[j], j)
    <3>1. CASE j = m + 1
      <4>1. g[j] = v /\ j # 0 /\ j - 1 = m /\ g[m] = f[m]
        BY <3>1
      <4> QED
        BY <3>1, <4>1
    <3>2. CASE j \in 0 .. m
      <4>1. g[j] = f[j] /\ (j # 0 => g[j - 1] = f[j - 1])
        BY <3>2
      <4>2. f[j] = IF j = 0 THEN Start0 ELSE Lex(f[j - 1], t[j], j)
        BY <2>1, <3>2
      <4> HIDE DEF g
      <4> QED
        BY <4>1, <4>2
    <3> QED
      BY <3>1, <3>2
  <2>3. g = [j \in 0 .. m + 1 |-> g[j]]
    OBVIOUS
  <2> HIDE DEF g
  <2>4. Lexes(g, m + 1)
    BY <2>2, <2>3
  <2> QED
    BY <2>4
<1> HIDE DEF E
<1>4. n \in E
  <2>1. Nat \subseteq E
    BY <1>2, <1>3, Shared!InductionOnNat
  <2> QED
    BY <1>1, <2>1
<1>5. Def(lex)
  <2>1. PICK g : Lexes(g, n)
    BY <1>4 DEF E
  <2>2. Def(g)
    BY <2>1
  <2> QED
    BY <2>2
<1>6. Lexed(t) = LET s == lex[n]
                 IN  [s EXCEPT !.over = @ \/ (s.at = "ARG" /\ Len(s.args) = MaxArgs),
                               !.args = IF s.at = "ARG" /\ s.open # 0 THEN Append(@, s.open) ELSE @]
  BY DEF Lexed
<1> HIDE DEF lex
<1>7. \A j \in 0 .. n : lex[j] = IF j = 0 THEN Start0 ELSE Lex(lex[j - 1], t[j], j)
  BY <1>5
<1> DEFINE X == {k \in Nat : k <= n => Lexing(lex[k])}
<1>8. 0 \in X
  <2>1. Lexing(Start0)
    <3>1. <<>> \in Seq({})
      BY EmptySeq
    <3>2. Sequence(<<>>)
      BY <3>1, IsSequence
    <3> QED
      BY <3>2 DEF Start0, Lexing
  <2> QED
    BY <1>1, <1>7, <2>1
<1>9. ASSUME NEW k \in Nat, k \in X PROVE k + 1 \in X
  <2> SUFFICES ASSUME k + 1 <= n PROVE Lexing(lex[k + 1])
    OBVIOUS
  <2>1. k + 1 \in 0 .. n /\ k + 1 # 0 /\ (k + 1) - 1 = k /\ Lexing(lex[k])
    BY <1>1, <1>9
  <2>2. lex[k + 1] = Lex(lex[k], t[k + 1], k + 1)
    BY <1>7, <2>1
  <2> QED
    BY <2>1, <2>2, LexKeeps
<1> HIDE DEF X
<1>10. Lexing(lex[n])
  <2>1. Nat \subseteq X
    BY <1>8, <1>9, Shared!InductionOnNat
  <2> QED
    BY <1>1, <2>1 DEF X
<1> DEFINE s == lex[n]
           args == IF s.at = "ARG" /\ s.open # 0 THEN Append(s.args, s.open) ELSE s.args
           over == s.over \/ (s.at = "ARG" /\ Len(s.args) = MaxArgs)
<1>11. Lexed(t) = [s EXCEPT !.over = over, !.args = args]
  BY <1>6
<1>12. Lexing(s)
  BY <1>10
<1> HIDE DEF s
<1>13. Sequence(args)
  BY <1>12, OneMore DEF Lexing
<1> HIDE DEF args, over
<1> QED
  BY <1>11, <1>12, <1>13 DEF Lexing

-----------------------------------------------------------------------------
\* The parts of a line.

Kinds == {"reg", "label", "const", "word", "none"}
ArgOK(a) == a.kind \in Kinds /\ a.val \in Nat
OpOK(mod, op) ==
  \/ mod = "" /\ Offers(Builtins, op)
  \/ mod \in Loadable /\ Offers(ModBuiltins[mod], op)

LineOK(line) ==
  /\ Sequence(line.args) /\ \A j \in DOMAIN line.args : ArgOK(line.args[j])
  /\ OpOK(line.mod, line.op)

LEMMA ArgumentIs ==
  ASSUME NEW arg
  PROVE  ArgOK(Argument(arg))
<1>1. ArgOK(Constant(arg))
  <2> DEFINE t == Join(arg)
             string == [kind |-> "const", text |-> t, val |-> 0]
             dec == [kind |-> "word", text |-> t, val |-> Dec[t]]
             hex == [kind |-> "word", text |-> t, val |-> Hex[t]]
             none == [kind |-> "none", text |-> "", val |-> 0]
  <2>1. ArgOK(string) /\ ArgOK(none)
    BY DEF ArgOK, Kinds
  <2>2. t \in DOMAIN Dec => ArgOK(dec)
    BY BuiltinsOK DEF ArgOK, Kinds
  <2>3. t \in DOMAIN Hex => ArgOK(hex)
    BY OpcodesOK DEF ArgOK, Kinds
  <2>4. \/ Constant(arg) = string \/ Constant(arg) = none
        \/ t \in DOMAIN Dec /\ Constant(arg) = dec
        \/ t \in DOMAIN Hex /\ Constant(arg) = hex
    <3>1. Constant(arg) = CASE Quoted(arg) -> string
                            [] t \in Typed -> string
                            [] t \in DOMAIN Dec -> dec
                            [] t \in DOMAIN Hex \ DOMAIN Dec -> hex
                            [] OTHER -> none
      BY DEF Constant
    <3> HIDE DEF string, none, dec, hex, t
    <3> QED
      BY <3>1
  <2> HIDE DEF string, none, dec, hex, t
  <2> QED
    BY <2>1, <2>2, <2>3, <2>4
<1>2. ArgOK([kind |-> "reg", text |-> Join(arg), val |-> 0]) /\ ArgOK([kind |-> "label", text |-> Join(Tail(arg)), val |-> 0])
  BY DEF ArgOK, Kinds
<1> QED
  BY <1>1, <1>2 DEF Argument

LEMMA NoDot == ~Split(<<>>).dot
<1>1. {j \in DOMAIN <<>> : <<>>[j] = "."} = {}
  OBVIOUS
<1>2. Max({0}) = 0
  BY DEF Max
<1> DEFINE dot == Max({0} \cup {j \in DOMAIN <<>> : <<>>[j] = "."})
<1>3. dot = 0
  BY <1>1, <1>2
<1>4. Split(<<>>).dot = (dot > 0)
  <2>1. Split(<<>>) = [dot |-> dot > 0, mod |-> Join(SubSeq(<<>>, 1, dot - 1)), op |-> Join(SubSeq(<<>>, dot + 1, Len(<<>>)))]
    BY DEF Split
  <2> HIDE DEF dot
  <2> QED
    BY <2>1
<1>5. ~(dot > 0)
  BY <1>3
<1> HIDE DEF dot
<1> QED
  BY <1>4, <1>5, Zenon

LEMMA OpcodesOfIs ==
  ASSUME NEW opcode, NEW o \in OpcodesOf(opcode)
  PROVE  OpOK(IF Split(opcode).dot THEN Split(opcode).mod ELSE "", o.name)
<1> DEFINE part == Split(opcode)
<1>1. CASE ~part.dot
  <2>1. \E t : o \in Resolved(Builtins, t)
    BY <1>1 DEF OpcodesOf
  <2>2. \E c \in DOMAIN Builtins.codes : o = Builtins.codes[c]
    BY <2>1, BuiltinsConsistent, ResolvedIs
  <2> QED
    BY <1>1, <2>2 DEF OpOK, Offers
<1>2. CASE part.dot
  <2>1. opcode # <<>>
    BY <1>2, NoDot
  <2>2. part.mod \in Loadable /\ o \in Resolved(ModBuiltins[part.mod], part.op)
    BY <1>2, <2>1 DEF OpcodesOf
  <2> HIDE DEF part
  <2>3. \E c \in DOMAIN ModBuiltins[part.mod].codes : o = ModBuiltins[part.mod].codes[c]
    BY <2>2, ModBuiltinsConsistent, ResolvedIs
  <2> QED
    BY <1>2, <2>2, <2>3 DEF OpOK, Offers, part
<1> QED
  BY <1>1, <1>2

LEMMA ParsedIs ==
  ASSUME NEW t, Sequence(t), Parsed(t).end = "line"
  PROVE  LineOK(Parsed(t)) /\ \A a, b \in Parsed(t).label : a = b
<1> DEFINE s    == Lexed(t)
           op   == IF s.opcode = 0 THEN <<>> ELSE From(t, s, s.opcode)
           args == [j \in DOMAIN s.args |-> From(t, s, s.args[j])]
           label == IF s.label = 0 THEN {} ELSE {Join(From(t, s, s.label))}
           mod  == IF Split(op).dot THEN Split(op).mod ELSE ""
           name == (CHOOSE o \in OpcodesOf(op) : TRUE).name
           parts == [j \in DOMAIN args |-> Argument(args[j])]
           line == [end |-> "line", label |-> label, mod |-> mod, op |-> name, args |-> parts]
<1>1. Sequence(s.args)
  BY LexedIs
<1>2. Parsed(t) = line /\ OpcodesOf(op) # {}
  <2> HIDE DEF s, op, args
  <2> DEFINE refused == \/ s.str \/ s.at = "ERROR" \/ OpcodesOf(op) = {}
                        \/ \E j \in DOMAIN args : args[j] \in {<<"$">>, <<"#">>}
             crashes == \E j \in DOMAIN args : BadEscape(args[j])
             overflows == \E j \in DOMAIN args : Argument(args[j]).kind = "word" /\ j + Offset(op) > MaxArgs
  <2>1. Parsed(t) = IF s.over THEN [end |-> "overread"]
                    ELSE IF refused THEN [end |-> "refused"]
                    ELSE IF crashes THEN [end |-> "crash"]
                    ELSE IF overflows THEN [end |-> "overflow"]
                    ELSE line
    BY DEF Parsed, s, op, args
  <2>2. OpcodesOf(op) = {} => refused
    OBVIOUS
  <2> HIDE DEF refused, crashes, overflows, line
  <2>3. [end |-> "overread"].end # "line" /\ [end |-> "refused"].end # "line"
        /\ [end |-> "crash"].end # "line" /\ [end |-> "overflow"].end # "line"
    OBVIOUS
  <2> QED
    BY <2>1, <2>2, <2>3
<1>3. OpOK(mod, name)
  BY <1>2, OpcodesOfIs
<1>4. Sequence(parts) /\ \A j \in DOMAIN parts : ArgOK(parts[j])
  <2>1. DOMAIN args = 1 .. Len(s.args) /\ Len(s.args) \in Nat
    BY <1>1, SequenceIs
  <2> HIDE DEF args
  <2>2. parts = [j \in 1 .. Len(s.args) |-> parts[j]]
    BY <2>1
  <2>3. \A j \in DOMAIN parts : ArgOK(parts[j])
    BY ArgumentIs
  <2> HIDE DEF parts
  <2> QED
    BY <2>1, <2>2, <2>3, MapIs
<1>5. \A a, b \in label : a = b
  OBVIOUS
<1> HIDE DEF label, mod, name, parts
<1>6. line.label = label /\ line.mod = mod /\ line.op = name /\ line.args = parts
  OBVIOUS
<1> HIDE DEF line
<1> QED
  BY <1>2, <1>3, <1>4, <1>5, <1>6 DEF LineOK

-----------------------------------------------------------------------------
\* Bags, and the places of their elements in an order.

Bag(b) == IsABag(b) /\ IsFiniteSet(DOMAIN b)

LEMMA ImageFinite ==
  ASSUME NEW S, IsFiniteSet(S), NEW f
  PROVE  IsFiniteSet({f[x] : x \in S})
<1> DEFINE T == {f[x] : x \in S}
           g == [x \in S |-> f[x]]
<1>1. g \in Surjection(S, T)
  BY DEF Surjection
<1> QED
  BY <1>1, FS_Surjection

LEMMA SomeCounted ==
  ASSUME NEW S, IsFiniteSet(S), S # {}
  PROVE  Cardinality(S) \in Nat /\ Cardinality(S) > 0
<1>1. Cardinality(S) \in Nat /\ Cardinality(S) # 0
  BY FS_CardinalityType, FS_EmptySet
<1> QED
  BY <1>1

LEMMA BagSum ==
  ASSUME NEW b, NEW c, Bag(b), Bag(c)
  PROVE  Bag(b (+) c) /\ DOMAIN (b (+) c) = DOMAIN b \cup DOMAIN c
<1>1. DOMAIN (b (+) c) = DOMAIN b \cup DOMAIN c /\ IsABag(b (+) c)
  BY DEF Bag, IsABag, (+)
<1>2. IsFiniteSet(DOMAIN b \cup DOMAIN c)
  BY FS_Union DEF Bag
<1> QED
  BY <1>1, <1>2 DEF Bag

LEMMA BagOne == ASSUME NEW x PROVE Bag(SetToBag({x})) /\ DOMAIN SetToBag({x}) = {x}
<1>1. DOMAIN SetToBag({x}) = {x} /\ IsABag(SetToBag({x}))
  BY DEF SetToBag, IsABag
<1> QED
  BY <1>1, FS_Singleton DEF Bag

LEMMA BagNone == Bag(EmptyBag)
<1>1. DOMAIN EmptyBag = {} /\ IsABag(EmptyBag)
  BY DEF EmptyBag, SetToBag, IsABag
<1> QED
  BY <1>1, FS_EmptySet DEF Bag

LEMMA TextsIs ==
  ASSUME NEW line, Sequence(line.args), NEW kinds
  PROVE  /\ Bag(Texts(line, kinds))
         /\ \A j \in DOMAIN line.args : line.args[j].kind \in kinds => line.args[j].text \in DOMAIN Texts(line, kinds)
<1> DEFINE J == {n \in DOMAIN line.args : line.args[n].kind \in kinds}
           f == [j \in J |-> line.args[j].text]
           uses(t) == {j \in DOMAIN line.args : line.args[j].kind \in kinds /\ line.args[j].text = t}
           all == {line.args[j].text : j \in J}
<1>1. IsFiniteSet(DOMAIN line.args) /\ IsFiniteSet(J)
  <2>1. DOMAIN line.args = 1 .. Len(line.args) /\ Len(line.args) \in Nat
    BY SequenceIs
  <2>2. IsFiniteSet(DOMAIN line.args)
    BY <2>1, FS_Interval
  <2> QED
    BY <2>2, FS_Subset
<1>2. IsFiniteSet(all)
  <2>1. all = {f[j] : j \in J}
    OBVIOUS
  <2> HIDE DEF J, f, all
  <2> QED
    BY <1>1, <2>1, ImageFinite
<1>3. ASSUME NEW t \in all PROVE Cardinality(uses(t)) \in Nat /\ Cardinality(uses(t)) > 0
  <2>1. uses(t) # {}
    OBVIOUS
  <2>2. IsFiniteSet(uses(t))
    BY <1>1, FS_Subset
  <2> HIDE DEF uses
  <2> QED
    BY <2>1, <2>2, SomeCounted
<1>4. Texts(line, kinds) = [t \in all |-> Cardinality(uses(t))]
  BY DEF Texts
<1>5. \A j \in DOMAIN line.args : line.args[j].kind \in kinds => line.args[j].text \in all
  OBVIOUS
<1> HIDE DEF uses, all
<1>6. DOMAIN Texts(line, kinds) = all /\ IsABag(Texts(line, kinds))
  BY <1>3, <1>4 DEF IsABag
<1> QED
  BY <1>2, <1>5, <1>6 DEF Bag

\* Numbers by place are those of the elements, and each finds its element.
LEMMA NumberingIs ==
  ASSUME NEW bag, Bag(bag), NEW order \in ByUse(bag)
  PROVE  /\ DOMAIN Numbering(order) = DOMAIN bag
         /\ \A x \in DOMAIN bag : /\ Numbering(order)[x] \in Slots(bag)
                                  /\ order[Numbering(order)[x] + 1] = x
<1> DEFINE S == DOMAIN bag
           n == Cardinality(DOMAIN bag)
<1>1. n \in Nat /\ IsFiniteSet(S)
  BY FS_CardinalityType DEF Bag
<1>2. order \in [1 .. n -> S] /\ \A a, b \in 1 .. n : a # b => order[a] # order[b]
  BY DEF ByUse, SetToSeqs
<1> HIDE DEF n, S
<1>3. order \in Surjection(1 .. n, S)
  <2>1. order \in Injection(1 .. n, S)
    BY <1>2 DEF Injection, IsInjective
  <2>2. Cardinality(1 .. n) = Cardinality(S)
    BY <1>1, FS_Interval DEF n, S
  <2> QED
    BY <1>1, <2>1, <2>2, FS_Injection
<1>4. ToSet(order) = S
  BY <1>2, <1>3 DEF Surjection, ToSet
<1>5. ASSUME NEW x \in S
      PROVE  Numbering(order)[x] \in 0 .. n - 1 /\ order[Numbering(order)[x] + 1] = x
  <2> DEFINE p == Place(order, x)
  <2>1. p \in 1 .. n /\ order[p] = x
    <3>1. \E k \in 1 .. n : order[k] = x
      BY <1>3 DEF Surjection
    <3> QED
      BY <1>2, <3>1 DEF Place
  <2>2. Numbering(order)[x] = p - 1
    BY <1>4 DEF Numbering, SlotIn
  <2> HIDE DEF p
  <2>3. (p - 1) + 1 = p /\ p - 1 \in 0 .. n - 1
    BY <1>1, <2>1
  <2> QED
    BY <2>1, <2>2, <2>3
<1>6. DOMAIN Numbering(order) = S
  BY <1>4 DEF Numbering
<1> QED
  BY <1>5, <1>6 DEF Slots, n, S

-----------------------------------------------------------------------------
\* Parsing.

Ends == {"overread", "refused", "crash", "overflow", "line"}

LEMMA ParsedEnds == ASSUME NEW t PROVE Parsed(t).end \in Ends
<1> DEFINE s    == Lexed(t)
           op   == IF s.opcode = 0 THEN <<>> ELSE From(t, s, s.opcode)
           args == [j \in DOMAIN s.args |-> From(t, s, s.args[j])]
           line == [end   |-> "line",
                    label |-> IF s.label = 0 THEN {} ELSE {Join(From(t, s, s.label))},
                    mod   |-> IF Split(op).dot THEN Split(op).mod ELSE "",
                    op    |-> (CHOOSE o \in OpcodesOf(op) : TRUE).name,
                    args  |-> [j \in DOMAIN args |-> Argument(args[j])]]
<1>1. line.end = "line"
  OBVIOUS
<1>2. \/ Parsed(t) = line
      \/ \E e \in Ends \ {"line"} : Parsed(t) = [end |-> e]
  <2> HIDE DEF s, op, args
  <2> DEFINE refused == \/ s.str \/ s.at = "ERROR" \/ OpcodesOf(op) = {}
                        \/ \E j \in DOMAIN args : args[j] \in {<<"$">>, <<"#">>}
             crashes == \E j \in DOMAIN args : BadEscape(args[j])
             overflows == \E j \in DOMAIN args : Argument(args[j]).kind = "word" /\ j + Offset(op) > MaxArgs
  <2>1. Parsed(t) = IF s.over THEN [end |-> "overread"]
                    ELSE IF refused THEN [end |-> "refused"]
                    ELSE IF crashes THEN [end |-> "crash"]
                    ELSE IF overflows THEN [end |-> "overflow"]
                    ELSE line
    BY DEF Parsed, s, op, args
  <2> HIDE DEF refused, crashes, overflows, line
  <2> QED
    BY <2>1 DEF Ends
<1> HIDE DEF line
<1> QED
  BY <1>1, <1>2 DEF Ends

GivenOK == \E in \in Inputs : src = in.src /\ text = in.text /\ align = in.align

LEMMA GivenIs ==
  ASSUME GivenOK
  PROVE  /\ align \in Nat /\ Sequence(text)
         /\ \A k \in DOMAIN text : Sequence(text[k]) /\ src[k].num \in Nat
BY AssemblerOK DEF GivenOK, Sequence

NamesUsed(line) ==
  \A j \in DOMAIN line.args :
    /\ line.args[j].kind = "reg" => line.args[j].text \in DOMAIN regs
    /\ line.args[j].kind \in {"const", "word"} => line.args[j].text \in DOMAIN consts

\* The lines there are so far are those the program may have, and what they name
\* is counted.
ParseInv ==
  /\ Sequence(lines) /\ Len(lines) <= Len(text)
  /\ \A k \in DOMAIN lines : LineOK(lines[k]) /\ lines[k].num \in Nat /\ NamesUsed(lines[k])
  /\ \A l \in DOMAIN labels : labels[l] \in DOMAIN lines
  /\ Bag(regs) /\ Bag(consts)
  /\ i \in 1 .. Len(text) + 1 /\ fatal \in BOOLEAN
  /\ phase = "parse" => Len(lines) < i

LEMMA AppendIs ==
  ASSUME NEW s, Sequence(s), NEW x
  PROVE  /\ Sequence(Append(s, x)) /\ Len(Append(s, x)) = Len(s) + 1 /\ Len(s) \in Nat
         /\ DOMAIN Append(s, x) = DOMAIN s \cup {Len(s) + 1}
         /\ \A k \in DOMAIN s : Append(s, x)[k] = s[k] /\ k # Len(s) + 1
         /\ Append(s, x)[Len(s) + 1] = x
<1>1. s \in Seq(ToSet(s) \cup {x}) /\ DOMAIN s = 1 .. Len(s) /\ Len(s) \in Nat
  <2>1. s \in [1 .. Len(s) -> ToSet(s)] /\ Len(s) \in Nat /\ DOMAIN s = 1 .. Len(s)
    BY LenProperties DEF Sequence
  <2>2. s \in [1 .. Len(s) -> ToSet(s) \cup {x}]
    BY <2>1
  <2> QED
    BY <2>1, <2>2, SeqDef
<1>2. /\ Append(s, x) \in Seq(ToSet(s) \cup {x}) /\ Len(Append(s, x)) = Len(s) + 1
      /\ \A k \in 1 .. Len(s) : Append(s, x)[k] = s[k]
      /\ Append(s, x)[Len(s) + 1] = x
  BY <1>1, AppendProperties
<1>3. Sequence(Append(s, x))
  BY <1>2, IsSequence
<1>4. DOMAIN Append(s, x) = 1 .. Len(s) + 1
  BY <1>2, <1>3, SequenceIs
<1> QED
  BY <1>1, <1>2, <1>3, <1>4

LEMMA AcceptKeeps ==
  ASSUME GivenOK, ParseInv, phase = "parse", i \in DOMAIN text, NEW line, line = Parsed(text[i]),
         line.end = "line", Accept(line), UNCHANGED given
  PROVE  ParseInv'
<1> DEFINE new == [num |-> src[i].num, label |-> Join(SetToSeq(line.label)),
                   mod |-> line.mod, op |-> line.op, args |-> line.args]
<1>1. LineOK(line)
  BY GivenIs, ParsedIs
<1>2. new.num = src[i].num /\ new.mod = line.mod /\ new.op = line.op /\ new.args = line.args
  OBVIOUS
<1>3. lines' = Append(lines, new)
  BY DEF Accept
<1> HIDE DEF new
<1>4. LineOK(new) /\ new.num \in Nat
  BY <1>1, <1>2, GivenIs DEF LineOK
<1>5. /\ Sequence(lines') /\ Len(lines') = Len(lines) + 1 /\ Len(lines) \in Nat
      /\ DOMAIN lines' = DOMAIN lines \cup {Len(lines) + 1}
      /\ \A k \in DOMAIN lines : lines'[k] = lines[k]
      /\ lines'[Len(lines) + 1] = new
  <2>1. Sequence(lines)
    BY DEF ParseInv
  <2> QED
    BY <1>3, <2>1, AppendIs
<1>6. i' = i + 1 /\ i' \in 1 .. Len(text) + 1 /\ i \in Nat /\ Len(text) \in Nat /\ i <= Len(text)
  BY GivenIs, SequenceIs DEF Accept
<1>7. Len(lines') <= Len(text') /\ Len(lines') < i'
  BY <1>5, <1>6 DEF ParseInv, given
<1>8. /\ Bag(regs') /\ Bag(consts')
      /\ DOMAIN regs \subseteq DOMAIN regs' /\ DOMAIN consts \subseteq DOMAIN consts'
      /\ \A j \in DOMAIN new.args :
           /\ new.args[j].kind = "reg" => new.args[j].text \in DOMAIN regs'
           /\ new.args[j].kind \in {"const", "word"} => new.args[j].text \in DOMAIN consts'
  <2>1. Sequence(line.args)
    BY <1>1 DEF LineOK
  <2>2. Bag(Texts(line, {"reg"})) /\ Bag(Texts(line, {"const", "word"}))
    BY <2>1, TextsIs
  <2>3. /\ Bag(regs') /\ DOMAIN regs' = DOMAIN regs \cup DOMAIN Texts(line, {"reg"})
        /\ Bag(consts') /\ DOMAIN consts' = DOMAIN consts \cup DOMAIN Texts(line, {"const", "word"})
    BY <2>2, BagSum DEF Accept, ParseInv
  <2>4. \A j \in DOMAIN line.args :
          /\ line.args[j].kind \in {"reg"} => line.args[j].text \in DOMAIN Texts(line, {"reg"})
          /\ line.args[j].kind \in {"const", "word"} => line.args[j].text \in DOMAIN Texts(line, {"const", "word"})
    BY <2>1, TextsIs
  <2> QED
    BY <1>2, <2>3, <2>4
<1>9. \A l \in DOMAIN labels' : labels'[l] \in DOMAIN lines'
  BY <1>5 DEF Accept, ParseInv
<1>10. \A k \in DOMAIN lines' : LineOK(lines'[k]) /\ lines'[k].num \in Nat /\ NamesUsed(lines[k])'
  <2> SUFFICES ASSUME NEW k \in DOMAIN lines'
               PROVE  LineOK(lines'[k]) /\ lines'[k].num \in Nat /\ NamesUsed(lines[k])'
    OBVIOUS
  <2>1. CASE k = Len(lines) + 1
    BY <1>4, <1>5, <1>8, <2>1 DEF NamesUsed
  <2>2. CASE k \in DOMAIN lines
    <3>1. LineOK(lines[k]) /\ lines[k].num \in Nat /\ NamesUsed(lines[k]) /\ lines'[k] = lines[k]
      BY <1>5, <2>2 DEF ParseInv
    <3> QED
      BY <1>8, <3>1 DEF NamesUsed
  <2> QED
    BY <1>5, <2>1, <2>2
<1> QED
  BY <1>5, <1>6, <1>7, <1>8, <1>9, <1>10 DEF ParseInv, Accept, given

Exec ==
  \/ ExecJump \/ ExecComputed \/ ExecThreadStart \/ ExecModLoad \/ ExecModUnload \/ ExecModOp
  \/ ExecModUnloadAll \/ ExecIllegal \/ ExecOther \/ ExecEnds

\* Where the thread may end.
Outcomes == {"halted", "end", "astray", "missing", "fault"}

LEMMA ExecKeeps ==
  ASSUME Exec
  PROVE  /\ phase = "run" /\ (phase' = phase \/ phase' \in Outcomes)
         /\ UNCHANGED <<given, i, parsed, slots, layout, code>>
<1>1. CASE ExecJump
  BY <1>1 DEF ExecJump, Ready
<1>2. CASE ExecComputed
  BY <1>2 DEF ExecComputed, Ready
<1>3. CASE ExecThreadStart
  BY <1>3 DEF ExecThreadStart, Ready, Faults, Outcomes
<1>4. CASE ExecModLoad
  BY <1>4 DEF ExecModLoad, Ready, Faults, Outcomes
<1>5. CASE ExecModUnload
  BY <1>5 DEF ExecModUnload, Ready, Faults, Outcomes
<1>6. CASE ExecModOp
  BY <1>6 DEF ExecModOp, Ready, Faults, Outcomes
<1>7. CASE ExecModUnloadAll
  BY <1>7 DEF ExecModUnloadAll, Ready
<1>8. CASE ExecIllegal
  BY <1>8 DEF ExecIllegal, machine, Outcomes
<1>9. CASE ExecOther
  BY <1>9 DEF ExecOther
<1>10. CASE ExecEnds
  BY <1>10 DEF ExecEnds, machine, Outcomes
<1> QED
  BY <1>1, <1>2, <1>3, <1>4, <1>5, <1>6, <1>7, <1>8, <1>9, <1>10 DEF Exec

\* What comes after parsing leaves the lines alone, and after the slots them too.
LEMMA LaterKeeps ==
  ASSUME Layout \/ LayoutEnds \/ Resolve \/ Write \/ Exec
  PROVE  /\ phase \in {"layout", "resolve", "run"}
         /\ phase' \in {"layout", "overflow", "resolve", "failed", "crash", "overrun", "run"} \cup Outcomes
         /\ UNCHANGED <<given, parsed, slots>>
<1>1. CASE Layout
  BY <1>1 DEF Layout
<1>2. CASE LayoutEnds
  BY <1>2 DEF LayoutEnds
<1>3. CASE Resolve
  BY <1>3 DEF Resolve
<1>4. CASE Write
  BY <1>4 DEF Write
<1>5. CASE Exec
  BY <1>5, ExecKeeps
<1> QED
  BY <1>1, <1>2, <1>3, <1>4, <1>5

LEMMA LaterMoves ==
  ASSUME Layout \/ LayoutEnds \/ Resolve \/ Write \/ Exec
  PROVE  i' = i \/ i' = 1 \/ (i \in Lines /\ i' = i + 1)
<1>1. CASE Layout
  BY <1>1 DEF Layout
<1>2. CASE LayoutEnds
  BY <1>2 DEF LayoutEnds
<1>3. CASE Resolve
  BY <1>3 DEF Resolve
<1>4. CASE Write
  BY <1>4 DEF Write
<1>5. CASE Exec
  BY <1>5, ExecKeeps
<1> QED
  BY <1>1, <1>2, <1>3, <1>4, <1>5

\* The names of the modules, counted.
ModuleNames == [m \in {InQuotes(n) : n \in Modules} |-> Cardinality({k \in Lines : InQuotes(lines[k].mod) = m})]

LEMMA ModuleNamesIs ==
  ASSUME Sequence(lines)
  PROVE  Bag(ModuleNames) /\ \A m \in Modules : InQuotes(m) \in DOMAIN ModuleNames
<1> DEFINE users(m) == {k \in Lines : InQuotes(lines[k].mod) = m}
           quoted == [k \in Lines |-> InQuotes(lines[k].mod)]
           K == {k \in Lines : lines[k].mod # ""}
           all == {InQuotes(n) : n \in Modules}
<1>1. IsFiniteSet(Lines) /\ IsFiniteSet(K)
  <2>1. Lines = 1 .. Len(lines) /\ Len(lines) \in Nat
    BY SequenceIs DEF Lines
  <2>2. IsFiniteSet(Lines)
    BY <2>1, FS_Interval
  <2> QED
    BY <2>2, FS_Subset
<1>2. all = {quoted[k] : k \in K}
  BY DEF Modules
<1>3. IsFiniteSet(all)
  <2> HIDE DEF K, quoted, all
  <2> QED
    BY <1>1, <1>2, ImageFinite
<1>4. ASSUME NEW m \in all PROVE Cardinality(users(m)) \in Nat /\ Cardinality(users(m)) > 0
  <2>1. users(m) # {} /\ IsFiniteSet(users(m))
    <3>1. PICK k \in K : m = quoted[k]
      BY <1>2
    <3>2. k \in users(m)
      BY <3>1
    <3> QED
      BY <1>1, <3>2, FS_Subset
  <2> HIDE DEF users
  <2> QED
    BY <2>1, SomeCounted
<1>5. ModuleNames = [m \in all |-> Cardinality(users(m))]
  BY DEF ModuleNames
<1>6. \A m \in Modules : InQuotes(m) \in all
  OBVIOUS
<1> HIDE DEF users, all
<1> QED
  BY <1>3, <1>4, <1>5, <1>6 DEF Bag, IsABag

LEMMA FlattenIsThis ==
  Flatten <=>
    LET r == regs (+) SetToBag({ModRegister})
        c == consts (+) ModuleNames
    IN  /\ phase = "flatten"
        /\ IF ModRegister \in DOMAIN regs THEN phase' = "failed" /\ UNCHANGED <<i, slots>>
           ELSE /\ \E ro \in ByUse(r), co \in ByUse(c) :
                     /\ regs' = r /\ consts' = c
                     /\ regSlot' = Numbering(ro) /\ constSlot' = Numbering(co)
                     /\ outRegs' = ro /\ outConsts' = co
                /\ phase' = "layout" /\ i' = 1
        /\ UNCHANGED <<given, parsed, layout, machine>>
BY DEF Flatten, ModuleNames

LEMMA FlattenBags ==
  ASSUME ParseInv, Flatten, ModRegister \notin DOMAIN regs
  PROVE  /\ Bag(regs') /\ DOMAIN regs' = DOMAIN regs \cup {ModRegister}
         /\ Bag(consts') /\ DOMAIN consts' = DOMAIN consts \cup DOMAIN ModuleNames
<1>1. Bag(SetToBag({ModRegister})) /\ DOMAIN SetToBag({ModRegister}) = {ModRegister} /\ Bag(ModuleNames)
  BY BagOne, ModuleNamesIs DEF ParseInv
<1>2. regs' = regs (+) SetToBag({ModRegister}) /\ consts' = consts (+) ModuleNames
  BY FlattenIsThis
<1> QED
  BY <1>1, <1>2, BagSum DEF ParseInv

LEMMA ParseNext ==
  ASSUME GivenOK, ParseInv, [Next \/ Stopped]_vars
  PROVE  GivenOK' /\ ParseInv'
<1>0. GivenOK'
  <2>1. UNCHANGED given
    <3>1. CASE ParseLine \/ ParseEnds \/ Flatten
      BY <3>1 DEF ParseLine, ParseEnds, Flatten
    <3>2. CASE Layout \/ LayoutEnds \/ Resolve \/ Write \/ Exec
      BY <3>2, LaterKeeps
    <3>3. CASE UNCHANGED vars
      BY <3>3 DEF vars
    <3> QED
      BY <3>1, <3>2, <3>3 DEF Next, Stopped, Exec
  <2> QED
    BY <2>1 DEF GivenOK, given
<1> SUFFICES ParseInv'
  BY <1>0
<1>1. CASE ParseLine
  <2> DEFINE line == Parsed(text[i])
  <2>1. phase = "parse" /\ i \in DOMAIN text /\ UNCHANGED given /\ line.end \in Ends
    BY <1>1, ParsedEnds DEF ParseLine
  <2>2. \/ line.end = "line" /\ Accept(line)
        \/ Refuse
        \/ line.end \notin {"line", "refused"} /\ phase' = line.end /\ UNCHANGED <<parsed, regs, consts, i>>
    BY <1>1 DEF ParseLine
  <2>3. CASE line.end = "line" /\ Accept(line)
    BY <2>1, <2>3, AcceptKeeps
  <2>4. CASE Refuse
    <3>1. i' \in 1 .. Len(text) + 1 /\ i' > Len(lines) /\ i \in Nat /\ i' = i + 1
      <4>1. Sequence(lines)
        BY DEF ParseInv
      <4>2. DOMAIN text = 1 .. Len(text) /\ Len(text) \in Nat /\ Len(lines) \in Nat
        BY <4>1, GivenIs, SequenceIs
      <4> QED
        BY <2>1, <2>4, <4>2 DEF Refuse, ParseInv
    <3>2. lines' = lines /\ labels' = labels /\ regs' = regs /\ consts' = consts /\ fatal' = TRUE /\ text' = text
      BY <2>1, <2>4 DEF Refuse, given
    <3> QED
      BY <3>1, <3>2 DEF ParseInv, NamesUsed
  <2>5. CASE line.end \notin {"line", "refused"} /\ phase' = line.end /\ UNCHANGED <<parsed, regs, consts, i>>
    <3>1. phase' # "parse"
      BY <2>1, <2>5 DEF Ends
    <3> QED
      BY <2>1, <2>5, <3>1 DEF ParseInv, NamesUsed, parsed, given
  <2> HIDE DEF line
  <2> QED
    BY <2>2, <2>3, <2>4, <2>5
<1>2. CASE ParseEnds
  <2>1. phase' # "parse" /\ UNCHANGED <<given, i, parsed, regs, consts>>
    BY <1>2 DEF ParseEnds, slots
  <2> QED
    BY <2>1 DEF ParseInv, NamesUsed, parsed, given
<1>3. CASE Flatten
  <2>1. phase' # "parse" /\ UNCHANGED <<given, parsed>> /\ (i' = i \/ i' = 1)
    BY <1>3 DEF Flatten
  <2>2. /\ Bag(regs') /\ Bag(consts')
        /\ DOMAIN regs \subseteq DOMAIN regs' /\ DOMAIN consts \subseteq DOMAIN consts'
    <3>1. CASE ModRegister \in DOMAIN regs
      BY <1>3, <3>1 DEF Flatten, slots, ParseInv
    <3>2. CASE ModRegister \notin DOMAIN regs
      BY <1>3, <3>2, FlattenBags
    <3> QED
      BY <3>1, <3>2
  <2>3. i' \in 1 .. Len(text) + 1
    BY <2>1, GivenIs, SequenceIs DEF ParseInv
  <2> QED
    BY <2>1, <2>2, <2>3 DEF ParseInv, NamesUsed, parsed, given
<1>4. CASE Layout \/ LayoutEnds \/ Resolve \/ Write \/ Exec
  <2>1. phase' # "parse" /\ UNCHANGED <<given, parsed, regs, consts>>
    BY <1>4, LaterKeeps DEF slots, Outcomes
  <2>2. i' \in 1 .. Len(text) + 1
    <3>1. Sequence(lines) /\ Len(lines) <= Len(text)
      BY DEF ParseInv
    <3>2. DOMAIN lines = 1 .. Len(lines) /\ Len(lines) \in Nat /\ Len(text) \in Nat
      BY <3>1, GivenIs, SequenceIs
    <3> QED
      BY <1>4, <3>1, <3>2, LaterMoves DEF ParseInv, Lines
  <2> QED
    BY <2>1, <2>2 DEF ParseInv, NamesUsed, parsed, given
<1>5. CASE UNCHANGED vars
  BY <1>5 DEF ParseInv, NamesUsed, vars, parsed, slots, given
<1> QED
  BY <1>1, <1>2, <1>3, <1>4, <1>5 DEF Next, Stopped, Exec

LEMMA ParseInit == Init => GivenOK /\ ParseInv
<1> SUFFICES ASSUME Init PROVE GivenOK /\ ParseInv
  OBVIOUS
<1>1. GivenOK
  BY DEF Init, GivenOK
<1>2. <<>> \in Seq({}) /\ Len(<<>>) = 0 /\ DOMAIN <<>> = {}
  BY EmptySeq
<1>3. Sequence(<<>>)
  BY <1>2, IsSequence
<1>4. Len(text) \in Nat
  BY <1>1, GivenIs, SequenceIs
<1>5. /\ lines = <<>> /\ labels = <<>> /\ regs = EmptyBag /\ consts = EmptyBag
      /\ i = 1 /\ fatal = FALSE
  BY DEF Init
<1>6. Sequence(lines) /\ Len(lines) = 0 /\ DOMAIN lines = {} /\ DOMAIN labels = {}
  BY <1>2, <1>3, <1>5
<1>7. Bag(regs) /\ Bag(consts)
  BY <1>5, BagNone
<1>8. fatal \in BOOLEAN
  BY <1>5
<1>9. i \in 1 .. Len(text) + 1 /\ Len(lines) <= Len(text) /\ Len(lines) < i
  BY <1>4, <1>5, <1>6
<1> QED
  BY <1>1, <1>6, <1>7, <1>8, <1>9 DEF ParseInv

-----------------------------------------------------------------------------
\* Slots.

Slotted == ModRegister \in DOMAIN regSlot

\* Each name that is counted has a place in the lists that are emitted, and the
\* names of modules are counted; before that nothing is laid out.
SlotInv ==
  /\ phase \in {"parse", "flatten", "rejected"} => ~Slotted
  /\ phase \in {"layout", "resolve", "run", "overrun"} \cup Outcomes => Slotted
  /\ Slotted =>
       /\ DOMAIN regSlot = DOMAIN regs /\ DOMAIN constSlot = DOMAIN consts
       /\ \A r \in DOMAIN regs : regSlot[r] \in Slots(regs) /\ outRegs[regSlot[r] + 1] = r
       /\ \A c \in DOMAIN consts : constSlot[c] \in Slots(consts) /\ outConsts[constSlot[c] + 1] = c
       /\ \A m \in Modules : InQuotes(m) \in DOMAIN consts
  /\ ~Slotted => regSlot = <<>> /\ constSlot = <<>> /\ laid = <<>> /\ code = <<>>

LEMMA SlotsIn ==
  ASSUME NEW bag, Bag(bag)
  PROVE  Slots(bag) \subseteq Nat
<1>1. Cardinality(DOMAIN bag) \in Nat
  BY FS_CardinalityType DEF Bag
<1> QED
  BY <1>1 DEF Slots

LEMMA SlotInit == Init => SlotInv
<1> SUFFICES ASSUME Init PROVE SlotInv
  OBVIOUS
<1>1. phase = "parse" /\ regSlot = <<>> /\ constSlot = <<>> /\ laid = <<>> /\ code = <<>>
  BY DEF Init
<1>2. DOMAIN regSlot = {}
  BY <1>1
<1> QED
  BY <1>1, <1>2 DEF SlotInv, Slotted, Outcomes

LEMMA SlotNext ==
  ASSUME GivenOK, ParseInv, SlotInv, [Next \/ Stopped]_vars
  PROVE  SlotInv'
<1>1. CASE ParseLine \/ ParseEnds
  <2>1. /\ phase = "parse" /\ UNCHANGED <<regSlot, constSlot, laid, code>>
        /\ phase' \in {"parse", "flatten", "rejected"} \cup (Ends \ {"line"})
    <3>1. CASE ParseLine
      <4>1. /\ phase = "parse" /\ UNCHANGED <<regSlot, constSlot, laid, code>>
        BY <3>1 DEF ParseLine, layout, machine
      <4>2. phase' = phase \/ (phase' = Parsed(text[i]).end /\ Parsed(text[i]).end # "line")
        BY <3>1 DEF ParseLine, Accept, Refuse
      <4> QED
        BY <4>1, <4>2, ParsedEnds
    <3>2. CASE ParseEnds
      BY <3>2 DEF ParseEnds, slots, layout, machine
    <3> QED
      BY <1>1, <3>1, <3>2
  <2> QED
    BY <2>1 DEF SlotInv, Slotted, Ends, Outcomes
<1>2. CASE Flatten
  <2>0. phase = "flatten" /\ UNCHANGED <<parsed, laid, code>>
    BY <1>2 DEF Flatten, layout, machine
  <2>1. CASE ModRegister \in DOMAIN regs
    <3>1. phase' = "failed" /\ UNCHANGED slots
      BY <1>2, <2>1 DEF Flatten
    <3> QED
      BY <2>0, <3>1 DEF SlotInv, Slotted, slots, Outcomes
  <2>2. CASE ModRegister \notin DOMAIN regs
    <3>1. /\ Bag(regs') /\ DOMAIN regs' = DOMAIN regs \cup {ModRegister}
          /\ Bag(consts') /\ DOMAIN consts' = DOMAIN consts \cup DOMAIN ModuleNames
      BY <1>2, <2>2, FlattenBags
    <3>2. /\ phase' = "layout"
          /\ \E ro \in ByUse(regs'), co \in ByUse(consts') :
               /\ regSlot' = Numbering(ro) /\ constSlot' = Numbering(co)
               /\ outRegs' = ro /\ outConsts' = co
      BY <1>2, <2>2, FlattenIsThis
    <3>3. PICK ro \in ByUse(regs'), co \in ByUse(consts') :
               /\ regSlot' = Numbering(ro) /\ constSlot' = Numbering(co)
               /\ outRegs' = ro /\ outConsts' = co
      BY <3>2
    <3>4. DOMAIN regSlot' = DOMAIN regs' /\ \A r \in DOMAIN regs' : regSlot'[r] \in Slots(regs') /\ outRegs'[regSlot'[r] + 1] = r
      BY <3>1, <3>3, NumberingIs
    <3>5. DOMAIN constSlot' = DOMAIN consts' /\ \A c \in DOMAIN consts' : constSlot'[c] \in Slots(consts') /\ outConsts'[constSlot'[c] + 1] = c
      BY <3>1, <3>3, NumberingIs
    <3>6. \A m \in Modules' : InQuotes(m) \in DOMAIN consts'
      <4>1. Modules' = Modules
        BY <2>0 DEF Modules, Lines, parsed
      <4> QED
        BY <3>1, <4>1, ModuleNamesIs DEF ParseInv
    <3>7. Slotted'
      BY <3>1, <3>4 DEF Slotted
    <3>8. Slots(regs)' = Slots(regs') /\ Slots(consts)' = Slots(consts')
      OBVIOUS
    <3> QED
      BY <3>2, <3>4, <3>5, <3>6, <3>7, <3>8 DEF SlotInv, Outcomes
  <2> QED
    BY <2>1, <2>2
<1>3. CASE Layout \/ LayoutEnds \/ Resolve \/ Write \/ Exec
  <2>1. /\ phase \in {"layout", "resolve", "run"}
        /\ phase' \in {"layout", "overflow", "resolve", "failed", "crash", "overrun", "run"} \cup Outcomes
        /\ UNCHANGED <<given, parsed, slots>>
    BY <1>3, LaterKeeps
  <2>2. Slotted /\ Slotted'
    BY <2>1 DEF SlotInv, Slotted, slots
  <2>3. Modules' = Modules /\ Slots(regs)' = Slots(regs) /\ Slots(consts)' = Slots(consts)
    BY <2>1 DEF Modules, Lines, parsed, slots
  <2> QED
    BY <2>1, <2>2, <2>3 DEF SlotInv, slots, Outcomes
<1>4. CASE UNCHANGED vars
  <2>1. Modules' = Modules /\ Slots(regs)' = Slots(regs) /\ Slots(consts)' = Slots(consts) /\ (Slotted' <=> Slotted)
    BY <1>4 DEF Modules, Lines, vars, parsed, slots, Slotted
  <2> QED
    BY <1>4, <2>1 DEF SlotInv, vars, slots, parsed, layout, machine
<1> QED
  BY <1>1, <1>2, <1>3, <1>4 DEF Next, Stopped, Exec

-----------------------------------------------------------------------------
\* Instructions.

LEMMA SpanIs == Span \in Nat /\ Span > 0 /\ EntryPoint \in Nat /\ EntryPoint < Span
BY AssemblerOK

LEMMA Offered ==
  ASSUME NEW op \in Forwards \cup Backs \cup {"NOP", "MOD_LOAD", "MOD_UNLOAD", "MOD_OP"}
  PROVE  Offers(Builtins, op)
BY EmittedOK DEF Offers

LEMMA ArgIs ==
  ASSUME NEW type \in {"REGISTER", "CONSTANT", "WORD", "NONE"}, NEW val \in Nat
  PROVE  Arg(type, val) \in ArgType /\ Arg(type, val).type = type /\ Arg(type, val).val = val
BY DEF Arg, ArgType

LEMMA InSeq ==
  ASSUME NEW A, NEW s, Sequence(s), \A j \in DOMAIN s : s[j] \in A
  PROVE  s \in Seq(A)
<1>1. s = [j \in 1 .. Len(s) |-> s[j]] /\ DOMAIN s = 1 .. Len(s) /\ Len(s) \in Nat
  BY SequenceIs
<1>2. s \in [1 .. Len(s) -> A]
  BY <1>1
<1> QED
  BY <1>1, <1>2, SeqDef

\* What the layout makes of a line: as many arguments as are written, in the slots
\* of what they name.
MainOK(line, main) ==
  /\ Emittable(main)
  /\ Len(main.args) = Len(ModuleArgs(line)) + Len(line.args)
  /\ \A j \in DOMAIN line.args :
       LET a == main.args[j + Len(ModuleArgs(line))]
       IN  /\ line.args[j].kind = "reg" => a.type = "REGISTER" /\ outRegs[a.val + 1] = line.args[j].text
           /\ a.type = "CONSTANT" => outConsts[a.val + 1] = line.args[j].text
  /\ line.mod = "" => main.op = line.op \/ main.op \in Forwards \cup Backs
  /\ line.mod # "" => main.op = "MOD_OP" /\ main.args[1] = Arg("CONSTANT", constSlot[InQuotes(line.mod)])

LEMMA AssembledIs ==
  ASSUME ParseInv, SlotInv, Slotted, NEW k \in Lines, NEW j \in DOMAIN lines[k].args
  PROVE  LET arg == lines[k].args[j]
             a == Assembled(lines[k], arg)
         IN  /\ a \in ArgType
             /\ arg.kind = "reg" => a.type = "REGISTER" /\ outRegs[a.val + 1] = arg.text
             /\ a.type = "CONSTANT" => outConsts[a.val + 1] = arg.text
<1> DEFINE line == lines[k]
           arg == line.args[j]
           a == Assembled(line, arg)
<1>1. ArgOK(arg) /\ NamesUsed(line)
  BY DEF ParseInv, LineOK, Lines
<1>2. CASE arg.kind = "reg"
  <2>1. arg.text \in DOMAIN regs
    BY <1>1, <1>2 DEF NamesUsed
  <2>2. regSlot[arg.text] \in Nat /\ outRegs[regSlot[arg.text] + 1] = arg.text
    BY <2>1, SlotsIn DEF SlotInv, ParseInv
  <2>3. a = Arg("REGISTER", regSlot[arg.text])
    BY <1>2 DEF Assembled
  <2> HIDE DEF a, arg, line
  <2> QED
    BY <2>2, <2>3, ArgIs DEF a, arg, line
<1>3. CASE arg.kind \in {"const", "word"} /\ a = Arg("CONSTANT", constSlot[arg.text])
  <2>1. arg.text \in DOMAIN consts
    BY <1>1, <1>3 DEF NamesUsed
  <2>2. constSlot[arg.text] \in Nat /\ outConsts[constSlot[arg.text] + 1] = arg.text
    BY <2>1, SlotsIn DEF SlotInv, ParseInv
  <2>3. arg.kind # "reg"
    BY <1>3
  <2> HIDE DEF a, arg, line
  <2> QED
    BY <1>3, <2>2, <2>3, ArgIs DEF a, arg, line
<1>4. CASE arg.kind # "reg" /\ (a = Arg("WORD", arg.val) \/ a = Arg("NONE", 0))
  <2>1. arg.val \in Nat
    BY <1>1 DEF ArgOK
  <2> HIDE DEF a, arg, line
  <2> QED
    BY <1>4, <2>1, ArgIs DEF a, arg, line
<1> QED
  <2>1. \/ arg.kind = "reg"
        \/ arg.kind \in {"const", "word"} /\ a = Arg("CONSTANT", constSlot[arg.text])
        \/ arg.kind # "reg" /\ (a = Arg("WORD", arg.val) \/ a = Arg("NONE", 0))
    BY DEF Assembled
  <2> HIDE DEF a, arg, line
  <2> QED
    BY <1>2, <1>3, <1>4, <2>1

LEMMA ModuleArgsIs ==
  ASSUME ParseInv, SlotInv, Slotted, NEW k \in Lines
  PROVE  /\ ModuleArgs(lines[k]) \in Seq(ArgType)
         /\ lines[k].mod = "" => ModuleArgs(lines[k]) = <<>> /\ Len(ModuleArgs(lines[k])) = 0
         /\ lines[k].mod # "" => /\ Len(ModuleArgs(lines[k])) = 2
                                 /\ ModuleArgs(lines[k])[1] = Arg("CONSTANT", constSlot[InQuotes(lines[k].mod)])
                                 /\ lines[k].mod \in Loadable
<1> DEFINE line == lines[k]
<1>1. CASE line.mod = ""
  <2>1. ModuleArgs(line) = <<>>
    BY <1>1 DEF ModuleArgs
  <2> QED
    BY <1>1, <2>1, EmptySeq
<1>2. CASE line.mod # ""
  <2> DEFINE a == Arg("CONSTANT", constSlot[InQuotes(line.mod)])
             b == Arg("WORD", CodeOf(ModBuiltins[line.mod], line.op))
  <2>1. ModuleArgs(line) = <<a, b>>
    BY <1>2 DEF ModuleArgs
  <2>2. line.mod \in Loadable /\ Offers(ModBuiltins[line.mod], line.op)
    BY <1>2 DEF ParseInv, LineOK, OpOK, Lines
  <2>3. b \in ArgType
    <3>1. CodeOf(ModBuiltins[line.mod], line.op) \in Nat
      BY <2>2, ModBuiltinsConsistent, CodeOfIs
    <3> QED
      BY <3>1, ArgIs
  <2>4. a \in ArgType
    <3>1. InQuotes(line.mod) \in DOMAIN consts
      BY <1>2 DEF SlotInv, Modules
    <3>2. constSlot[InQuotes(line.mod)] \in Nat
      BY <3>1, SlotsIn DEF SlotInv, ParseInv
    <3> QED
      BY <3>2, ArgIs
  <2> HIDE DEF b
  <2>5. <<a, b>> \in Seq(ArgType) /\ Len(<<a, b>>) = 2 /\ <<a, b>>[1] = a
    <3> HIDE DEF a
    <3> QED
      BY <2>3, <2>4
  <2> QED
    BY <1>2, <2>1, <2>2, <2>5
<1> QED
  BY <1>1, <1>2

LEMMA FirstOf ==
  ASSUME NEW s, NEW t, Len(s) = 2, \A j \in 1 .. Len(s) : t[j] = s[j]
  PROVE  t[1] = s[1]
OBVIOUS

LEMMA MainIs ==
  ASSUME ParseInv, SlotInv, Slotted, NEW k \in Lines, Len(Main(lines[k]).args) <= MaxArgs
  PROVE  MainOK(lines[k], Main(lines[k]))
<1> DEFINE line == lines[k]
           rest == [j \in DOMAIN line.args |-> Assembled(line, line.args[j])]
           first == ModuleArgs(line)
           main == Main(line)
<1>1. /\ main.op = (IF line.mod = "" THEN line.op ELSE "MOD_OP") /\ main.args = first \o rest
      /\ main = [op |-> main.op, args |-> main.args]
  <2> DEFINE op == IF line.mod = "" THEN line.op ELSE "MOD_OP"
  <2>1. main = [op |-> op, args |-> first \o rest]
    BY DEF Main
  <2> HIDE DEF main, first, rest, op
  <2>2. main.op = op /\ main.args = first \o rest
    BY <2>1
  <2>3. main = [op |-> main.op, args |-> main.args]
    BY <2>1, <2>2
  <2> QED
    BY <2>2, <2>3 DEF op
<1> HIDE DEF main
<1>2. Sequence(line.args) /\ OpOK(line.mod, line.op)
  BY DEF ParseInv, LineOK, Lines
<1>3. /\ DOMAIN line.args = 1 .. Len(line.args) /\ Len(line.args) \in Nat
      /\ rest \in Seq(ArgType) /\ Len(rest) = Len(line.args)
      /\ \A j \in 1 .. Len(line.args) : rest[j] = Assembled(line, line.args[j])
  <2>1. DOMAIN line.args = 1 .. Len(line.args) /\ Len(line.args) \in Nat
    BY <1>2, SequenceIs
  <2>2. \A j \in DOMAIN line.args : Assembled(line, line.args[j]) \in ArgType
    BY AssembledIs
  <2>3. rest \in [1 .. Len(line.args) -> ArgType]
    BY <2>1, <2>2
  <2>4. rest \in Seq(ArgType)
    BY <2>1, <2>3, SeqDef
  <2>5. Len(rest) = Len(line.args)
    BY <2>1, <2>3, <2>4, LenProperties
  <2> QED
    BY <2>1, <2>4, <2>5
<1> HIDE DEF rest
<1>4. /\ first \in Seq(ArgType)
      /\ line.mod = "" => first = <<>> /\ Len(first) = 0
      /\ line.mod # "" => Len(first) = 2 /\ first[1] = Arg("CONSTANT", constSlot[InQuotes(line.mod)])
  BY ModuleArgsIs
<1> HIDE DEF first
<1>5. /\ main.args \in Seq(ArgType) /\ Len(main.args) = Len(first) + Len(line.args) /\ Len(first) \in Nat
      /\ \A j \in 1 .. Len(first) : main.args[j] = first[j]
      /\ \A j \in 1 .. Len(line.args) : main.args[Len(first) + j] = Assembled(line, line.args[j])
  <2>1. Len(first) \in Nat
    BY <1>4, LenProperties
  <2>2. first \in Seq(ArgType) /\ rest \in Seq(ArgType)
    BY <1>3, <1>4
  <2>3. /\ first \o rest \in Seq(ArgType) /\ Len(first \o rest) = Len(first) + Len(rest)
        /\ \A j \in 1 .. Len(first) : (first \o rest)[j] = first[j]
        /\ \A j \in 1 .. Len(rest) : (first \o rest)[Len(first) + j] = rest[j]
    BY <2>2, ConcatIs
  <2> HIDE DEF line
  <2> QED
    BY <1>1, <1>3, <2>1, <2>3
<1>7. Offers(Builtins, main.op)
  <2>1. CASE line.mod = ""
    <3>1. line.mod \notin Loadable
      BY <2>1, ModBuiltinsConsistent
    <3> QED
      BY <1>1, <1>2, <2>1, <3>1 DEF OpOK
  <2>2. CASE line.mod # ""
    BY <1>1, <2>2, Offered
  <2> QED
    BY <2>1, <2>2
<1>8. Emittable(main)
  BY <1>1, <1>5, <1>7 DEF Emittable, main
<1>9. ASSUME NEW j \in DOMAIN line.args
      PROVE  LET a == main.args[j + Len(first)]
             IN  /\ line.args[j].kind = "reg" => a.type = "REGISTER" /\ outRegs[a.val + 1] = line.args[j].text
                 /\ a.type = "CONSTANT" => outConsts[a.val + 1] = line.args[j].text
  <2>1. main.args[j + Len(first)] = Assembled(line, line.args[j])
    <3>1. j + Len(first) = Len(first) + j /\ j \in 1 .. Len(line.args)
      BY <1>3, <1>5
    <3> QED
      BY <1>5, <3>1
  <2> QED
    BY <2>1, AssembledIs
<1>10. line.mod # "" => main.args[1] = Arg("CONSTANT", constSlot[InQuotes(line.mod)])
  <2> SUFFICES ASSUME line.mod # "" PROVE main.args[1] = Arg("CONSTANT", constSlot[InQuotes(line.mod)])
    OBVIOUS
  <2> HIDE DEF line
  <2>1. Len(first) = 2 /\ first[1] = Arg("CONSTANT", constSlot[InQuotes(line.mod)])
    BY <1>4
  <2>2. main.args[1] = first[1]
    BY <1>5, <2>1, FirstOf, Zenon
  <2> QED
    BY <2>1, <2>2
<1> QED
  BY <1>1, <1>5, <1>8, <1>9, <1>10 DEF MainOK, first, main

-----------------------------------------------------------------------------
\* What is put before a line, and how much room it takes.

Written == {ins \in [op : STRING, args : Seq(ArgType)] : Emittable(ins)}

LEMMA WrittenIs == ASSUME NEW ins PROVE ins \in Written <=> Emittable(ins)
<1>1. ASSUME Emittable(ins) PROVE ins \in Written
  <2>1. ins \in Instr
    BY <1>1, DecodedIs
  <2> QED
    BY <1>1, <2>1 DEF Written, Instr, ArgType
<1> QED
  BY <1>1 DEF Written

LEMMA Single ==
  ASSUME NEW A, NEW x \in A
  PROVE  <<x>> \in Seq(A) /\ Len(<<x>>) = 1 /\ <<x>>[1] = x
OBVIOUS

LEMMA OneBehind ==
  ASSUME NEW A, NEW s \in Seq(A), NEW x \in A
  PROVE  Len(s) + 1 \in DOMAIN (s \o <<x>>) /\ (s \o <<x>>)[Len(s) + 1] = x
<1> DEFINE one == <<x>>
<1>1. one \in Seq(A) /\ Len(one) = 1 /\ one[1] = x
  BY Single
<1> HIDE DEF one
<1>2. /\ s \o one \in Seq(A) /\ Len(s \o one) = Len(s) + 1 /\ Len(s) \in Nat
      /\ \A j \in 1 .. 1 : (s \o one)[Len(s) + j] = one[j]
  BY <1>1, ConcatIs, LenProperties
<1>3. DOMAIN (s \o one) = 1 .. Len(s) + 1
  BY <1>2, LenProperties
<1>4. (s \o one)[Len(s) + 1] = x
  BY <1>1, <1>2
<1> QED
  BY <1>2, <1>3, <1>4 DEF one

LEMMA OneArg ==
  ASSUME NEW a \in ArgType, NEW op, Offers(Builtins, op)
  PROVE  [op |-> op, args |-> <<a>>] \in Written /\ [op |-> op, args |-> <<a>>].op = op
<1> DEFINE s == <<a>>
           ins == [op |-> op, args |-> s]
<1>1. s \in Seq(ArgType) /\ Len(s) = 1
  OBVIOUS
<1> HIDE DEF s
<1>2. ins.op = op /\ ins.args = s /\ ins = [op |-> ins.op, args |-> ins.args]
  OBVIOUS
<1> HIDE DEF ins
<1>3. Emittable(ins)
  <2>1. 1 <= MaxArgs
    BY EmittedOK, OpcodesOK
  <2> QED
    BY <1>1, <1>2, <2>1 DEF Emittable
<1>4. ins \in Written /\ ins.op = op
  BY <1>2, <1>3, WrittenIs
<1> QED
  BY <1>4 DEF ins, s

LEMMA TwoArgs ==
  ASSUME NEW a \in ArgType, NEW b \in ArgType, NEW op, Offers(Builtins, op)
  PROVE  [op |-> op, args |-> <<a, b>>] \in Written
<1> DEFINE s == <<a, b>>
           ins == [op |-> op, args |-> s]
<1>1. s \in Seq(ArgType) /\ Len(s) = 2
  OBVIOUS
<1> HIDE DEF s
<1>2. ins.op = op /\ ins.args = s /\ ins = [op |-> ins.op, args |-> ins.args]
  OBVIOUS
<1> HIDE DEF ins
<1>3. Emittable(ins)
  BY <1>1, <1>2, EmittedOK, OpcodesOK DEF Emittable
<1>4. ins \in Written
  BY <1>3, WrittenIs
<1> QED
  BY <1>4 DEF ins, s

LEMMA LoadIs ==
  ASSUME ParseInv, SlotInv, Slotted, NEW m \in Modules
  PROVE  /\ Load(m) \in Written /\ Load(m).op = "MOD_LOAD"
         /\ Load(m).args[1] = Arg("REGISTER", regSlot[ModRegister])
         /\ Load(m).args[2] = Arg("CONSTANT", constSlot[InQuotes(m)])
         /\ constSlot[InQuotes(m)] \in Nat /\ outConsts[constSlot[InQuotes(m)] + 1] = InQuotes(m)
<1> DEFINE a == Arg("REGISTER", regSlot[ModRegister])
           b == Arg("CONSTANT", constSlot[InQuotes(m)])
<1>1. constSlot[InQuotes(m)] \in Nat /\ outConsts[constSlot[InQuotes(m)] + 1] = InQuotes(m)
  <2>1. InQuotes(m) \in DOMAIN consts
    BY DEF SlotInv
  <2> QED
    BY <2>1, SlotsIn DEF SlotInv, ParseInv
<1>2. regSlot[ModRegister] \in Nat
  BY SlotsIn DEF SlotInv, ParseInv, Slotted
<1>3. a \in ArgType /\ b \in ArgType
  BY <1>1, <1>2, ArgIs
<1>4. Load(m) = [op |-> "MOD_LOAD", args |-> <<a, b>>]
  BY DEF Load
<1> HIDE DEF a, b
<1>5. Load(m) \in Written
  BY <1>3, <1>4, TwoArgs, Offered
<1>6. Load(m).op = "MOD_LOAD" /\ Load(m).args = <<a, b>>
  BY <1>4
<1>7. Load(m).args[1] = a /\ Load(m).args[2] = b
  BY <1>6
<1> QED
  BY <1>1, <1>5, <1>6, <1>7 DEF a, b

Unloads == {ins \in Written : ins.op = "MOD_UNLOAD"}
Before(line) == Unloads \cup (IF line.mod = "" THEN {} ELSE {Load(line.mod)})

LEMMA UnloadIs ==
  ASSUME ParseInv, SlotInv, Slotted, NEW m
  PROVE  Unload(m) \in Seq(Unloads)
<1>1. CASE m \in DOMAIN consts
  <2> DEFINE a == Arg("CONSTANT", constSlot[m])
             ins == [op |-> "MOD_UNLOAD", args |-> <<a>>]
  <2>1. constSlot[m] \in Nat
    BY <1>1, SlotsIn DEF SlotInv, ParseInv
  <2>2. a \in ArgType
    BY <2>1, ArgIs
  <2>3. Unload(m) = <<ins>>
    BY <1>1 DEF Unload
  <2> HIDE DEF a
  <2>4. ins \in Unloads
    BY <2>2, OneArg, Offered DEF Unloads
  <2> HIDE DEF ins
  <2> QED
    BY <2>3, <2>4
<1>2. CASE m \notin DOMAIN consts
  BY <1>2, EmptySeq DEF Unload
<1> QED
  BY <1>1, <1>2

LEMMA SeqWider ==
  ASSUME NEW A, NEW B, A \subseteq B, NEW s \in Seq(A)
  PROVE  s \in Seq(B)
<1>1. s \in [1 .. Len(s) -> A] /\ Len(s) \in Nat
  BY LenProperties
<1>2. s \in [1 .. Len(s) -> B]
  BY <1>1
<1> QED
  BY <1>1, <1>2, SeqDef

Flags == [Loadable -> BOOLEAN]

\* A module that is used is loaded here, or its tag says it is.
Used(use, line, flags) ==
  /\ use.pre \in Seq(Before(line))
  /\ use.flags \in Flags /\ \A o \in Loadable : use.flags[o] => flags[o] \/ (o = line.mod /\ line.mod # "")
  /\ line.mod # "" => /\ line.mod \in Loadable
                      /\ flags[line.mod] \/ \E j \in DOMAIN use.pre : use.pre[j] = Load(line.mod)

LEMMA UseModuleIs ==
  ASSUME ParseInv, SlotInv, Slotted, NEW k \in Lines, NEW m, m = lines[k].mod, m # "",
         NEW flags \in Flags, NEW c
  PROVE  LET use == UseModule(m, flags, c)
         IN  Used(use, lines[k], flags) /\ (use.cache = c \/ use.cache = Insert(c, Capacity, m))
<1> DEFINE inserts == ~Cached(c, m) /\ ~flags[m]
           evicts  == inserts /\ Evicts(c, Capacity)
           left    == IF evicts THEN [flags EXCEPT ![Oldest(c)] = FALSE] ELSE flags
           one     == IF evicts THEN Unload(Oldest(c)) ELSE <<>>
           two     == IF NeedsLoad(m, left) THEN <<Load(m)>> ELSE <<>>
           after   == [left EXCEPT ![m] = TRUE]
           kept    == IF inserts THEN Insert(c, Capacity, m) ELSE c
           use     == UseModule(m, flags, c)
<1>1. use.pre = one \o two /\ use.flags = after /\ use.cache = kept
  <2>1. use = [pre |-> one \o two, flags |-> after, cache |-> kept]
    BY DEF UseModule
  <2> HIDE DEF use, one, two, after, kept
  <2> QED
    BY <2>1
<1>2. m \in Loadable /\ m \in Modules
  BY DEF ParseInv, LineOK, OpOK, Lines, Modules
<1>3. left \in Flags /\ \A o \in Loadable : left[o] => flags[o]
  BY DEF Flags
<1>4. after \in Flags /\ \A o \in Loadable : after[o] => o = m \/ flags[o]
  <2> HIDE DEF left
  <2> QED
    BY <1>2, <1>3 DEF Flags
<1>5. one \in Seq(Before(lines[k]))
  <2>1. Unload(Oldest(c)) \in Seq(Before(lines[k]))
    BY UnloadIs, SeqWider DEF Before
  <2> QED
    BY <2>1, EmptySeq
<1>6. two \in Seq(Before(lines[k])) /\ (left[m] \/ two = <<Load(m)>>)
  <2>1. Load(m) \in Before(lines[k])
    BY DEF Before
  <2>2. <<Load(m)>> \in Seq(Before(lines[k]))
    BY <2>1, Single
  <2> HIDE DEF left
  <2> QED
    BY <1>3, <2>2, EmptySeq DEF NeedsLoad
<1>7. kept = c \/ kept = Insert(c, Capacity, m)
  OBVIOUS
<1> HIDE DEF left, one, two, after, kept, use
<1>8. one \o two \in Seq(Before(lines[k]))
  <2>1. two \in Seq(Before(lines[k]))
    BY <1>6
  <2> QED
    BY <1>5, <2>1, ConcatIs
<1>9. flags[m] \/ \E n \in DOMAIN (one \o two) : (one \o two)[n] = Load(m)
  <2>1. CASE left[m]
    BY <1>2, <1>3, <2>1
  <2>2. CASE two = <<Load(m)>>
    <3>1. Load(m) \in Before(lines[k])
      BY DEF Before
    <3>2. Len(one) + 1 \in DOMAIN (one \o two) /\ (one \o two)[Len(one) + 1] = Load(m)
      BY <1>5, <2>2, <3>1, OneBehind
    <3> QED
      BY <3>2
  <2> QED
    BY <1>6, <2>1, <2>2
<1>10. Used(use, lines[k], flags)
  <2>1. \A o \in Loadable : use.flags[o] => flags[o] \/ (o = m /\ m # "")
    BY <1>1, <1>4
  <2>2. flags[m] \/ \E j \in DOMAIN use.pre : use.pre[j] = Load(m)
    BY <1>1, <1>9
  <2>3. use.pre \in Seq(Before(lines[k])) /\ use.flags \in Flags
    BY <1>1, <1>4, <1>8
  <2> QED
    BY <1>2, <2>1, <2>2, <2>3 DEF Used
<1> QED
  BY <1>1, <1>7, <1>10 DEF use

LEMMA BytesIs ==
  ASSUME NEW argc \in Nat
  PROVE  Bytes(argc) \in Nat /\ Bytes(argc) > 0
<1>1. WordBytes \in Nat /\ WordBytes > 0
  BY AssemblerOK
<1>2. argc * 2 * WordBytes \in Nat
  BY <1>1
<1> QED
  BY <1>1, <1>2 DEF Bytes

LEMMA NopsIs ==
  ASSUME align \in Nat, NEW bytes \in Nat
  PROVE  Nops(bytes) \in Nat
<1>1. CASE align = 0
  BY <1>1 DEF Nops
<1>2. CASE align # 0
  <2>1. bytes % align \in 0 .. align - 1
    BY <1>2
  <2>2. align - (bytes % align) \in Nat
    BY <2>1
  <2>3. (align - (bytes % align)) % align \in Nat
    BY <1>2, <2>2
  <2> QED
    BY <1>2, <2>3 DEF Nops
<1> QED
  BY <1>1, <1>2

LEMMA PreSizeIs ==
  ASSUME align \in Nat, NEW ins, Len(ins.args) \in Nat
  PROVE  PreSize(ins) \in Nat /\ LineSize(ins) \in Nat
<1> DEFINE b == Bytes(Len(ins.args))
           c == (1 + Len(ins.args)) * WordBytes
<1>1. b \in Nat /\ WordBytes \in Nat
  BY BytesIs, AssemblerOK
<1>2. c \in Nat
  BY <1>1
<1> HIDE DEF b, c
<1>3. Nops(b) \in Nat /\ Nops(c) \in Nat
  BY <1>1, <1>2, NopsIs
<1>4. b + Nops(b) * WordBytes \in Nat /\ b + Nops(c) * WordBytes \in Nat
  BY <1>1, <1>3
<1> QED
  BY <1>4 DEF PreSize, LineSize, b, c

LEMMA ReservedIs ==
  ASSUME align \in Nat, NEW pre \in Seq(Written), NEW main \in Written
  PROVE  Reserved(pre, main) \in Nat /\ Numbers([n \in DOMAIN pre |-> PreSize(pre[n])], Len(pre))
<1> DEFINE s == [n \in DOMAIN pre |-> PreSize(pre[n])]
<1>1. Len(pre) \in Nat /\ DOMAIN pre = 1 .. Len(pre) /\ \A n \in 1 .. Len(pre) : pre[n] \in Written
  BY LenProperties
<1>2. \A ins \in Written : Len(ins.args) \in Nat
  BY LenProperties DEF Written
<1>3. \A n \in 1 .. Len(pre) : PreSize(pre[n]) \in Nat
  BY <1>1, <1>2, PreSizeIs
<1>4. Numbers(s, Len(pre))
  BY <1>1, <1>3 DEF Numbers
<1>5. LineSize(main) \in Nat
  BY <1>2, PreSizeIs
<1> HIDE DEF s
<1>6. SumTo(s, Len(pre)) \in Nat
  BY <1>1, <1>4, SumNat
<1>7. LineSize(main) + SumTo(s, Len(pre)) \in Nat
  BY <1>5, <1>6
<1> QED
  BY <1>4, <1>7 DEF Reserved, s

-----------------------------------------------------------------------------
\* Layout.

CacheOK(c) ==
  /\ {"first", "last", "prev", "data", "count", "map"} \subseteq DOMAIN c
  /\ Sequence(c.data) /\ ToSet(c.data) \subseteq Modules /\ c.count \in 0 .. Len(c.data)

RowOK(line, row) ==
  /\ {"pre", "main", "size", "ptr"} \subseteq DOMAIN row
  /\ row.pre \in Seq(Before(line)) /\ MainOK(line, row.main)
  /\ row.size = Reserved(row.pre, row.main)

\* One of the first k lines is a use of the module and loads it.
LoadedBy(m, k) ==
  \E c \in 1 .. k : /\ c \in DOMAIN laid /\ lines[c].mod = m
                    /\ \E n \in DOMAIN laid[c].pre : laid[c].pre[n] = Load(m)

\* Where the line k begins.
Address(k) == (EntryPoint + (SumTo(Sizes, k - 1) % Span)) % Span

\* A line that uses a module finds it loaded.
Provided(k) == lines[k].mod # "" => LoadedBy(lines[k].mod, k)

LaidLen ==
  Len(laid) = IF ~Slotted THEN 0 ELSE IF phase \in {"layout", "overflow"} THEN i - 1 ELSE Len(lines)

LayoutInv ==
  /\ Sequence(laid) /\ LaidLen
  /\ \A k \in DOMAIN laid :
       /\ RowOK(lines[k], laid[k]) /\ laid[k].ptr = Address(k)
       /\ Provided(k)
  /\ size = SumTo(Sizes, Len(laid)) % Span
  /\ isLoaded \in Flags /\ \A m \in Loadable : isLoaded[m] => LoadedBy(m, Len(laid))
  /\ CacheOK(cache)
  /\ Slotted /\ phase \in {"layout", "overflow"} => i <= Len(lines) + 1

LEMMA InsertIs ==
  ASSUME NEW c, CacheOK(c), NEW m \in Modules
  PROVE  CacheOK(Insert(c, Capacity, m))
<1> DEFINE e == IF Evicts(c, Capacity) THEN Evict(c) ELSE c
           n == Len(e.data) + 1
           p == [j \in 1 .. n |-> IF j = e.first THEN n ELSE IF j = n THEN 0 ELSE e.prev[j]]
           l == IF e.first = 0 THEN n ELSE e.last
           new == Insert(c, Capacity, m)
<1>1. /\ DOMAIN e = DOMAIN c /\ e.data = c.data /\ e.count \in 0 .. Len(e.data)
  <2>1. CASE Evicts(c, Capacity)
    <3>1. Len(c.data) \in Nat
      BY SequenceIs DEF CacheOK
    <3> DEFINE less == IF c.count > 0 THEN c.count - 1 ELSE c.count
               fst == c.prev[c.last]
    <3>2. less \in 0 .. Len(c.data)
      BY <3>1 DEF CacheOK
    <3>3. e = [c EXCEPT !.first = fst, !.count = less]
      BY <2>1 DEF Evict
    <3> HIDE DEF less, fst, e
    <3>4. DOMAIN e = DOMAIN c /\ e.data = c.data /\ e.count = less
      BY <3>3 DEF CacheOK
    <3> QED
      BY <3>2, <3>4
  <2>2. CASE ~Evicts(c, Capacity)
    BY <2>2 DEF CacheOK
  <2> QED
    BY <2>1, <2>2
<1>2. new = [e EXCEPT !.prev = p, !.last = l, !.first = n, !.data = Append(e.data, m), !.count = e.count + 1]
  BY DEF Insert
<1> HIDE DEF e, p, l, new
<1>3. /\ {"first", "last", "prev", "data", "count", "map"} \subseteq DOMAIN new
      /\ new.data = Append(e.data, m) /\ new.count = e.count + 1
  <2> HIDE DEF n
  <2> QED
    BY <1>1, <1>2 DEF CacheOK
<1>4. /\ Sequence(new.data) /\ Len(new.data) = Len(e.data) + 1 /\ Len(e.data) \in Nat
      /\ ToSet(new.data) \subseteq Modules
  <2>1. Sequence(e.data) /\ ToSet(e.data) \subseteq Modules
    BY <1>1 DEF CacheOK
  <2> DEFINE d == e.data
             s == Append(d, m)
  <2>2. /\ Sequence(s) /\ Len(s) = Len(d) + 1 /\ Len(d) \in Nat
        /\ DOMAIN s = DOMAIN d \cup {Len(d) + 1}
        /\ \A k \in DOMAIN d : s[k] = d[k]
        /\ s[Len(d) + 1] = m
    BY <2>1, AppendIs
  <2> HIDE DEF s
  <2>3. ToSet(s) \subseteq Modules
    BY <2>1, <2>2 DEF ToSet
  <2> QED
    BY <1>3, <2>2, <2>3 DEF s
<1> QED
  BY <1>1, <1>3, <1>4 DEF CacheOK, new

LEMMA ClearIs ==
  ASSUME NEW c, CacheOK(c)
  PROVE  CacheOK(Clear(c))
BY DEF CacheOK, Clear

LEMMA BeforeIs ==
  ASSUME ParseInv, SlotInv, Slotted, NEW k \in Lines
  PROVE  Before(lines[k]) \subseteq Written
<1>1. lines[k].mod # "" => Load(lines[k].mod) \in Written
  BY LoadIs DEF Modules
<1> QED
  BY <1>1 DEF Before, Unloads

LEMMA RowIs ==
  ASSUME GivenOK, ParseInv, SlotInv, Slotted, NEW k \in Lines, NEW row, RowOK(lines[k], row)
  PROVE  row.pre \in Seq(Written) /\ row.main \in Written /\ row.size \in Nat
<1>1. row.pre \in Seq(Written)
  BY BeforeIs, SeqWider DEF RowOK
<1>2. row.main \in Written
  BY WrittenIs DEF RowOK, MainOK
<1>3. row.size \in Nat
  BY <1>1, <1>2, ReservedIs, GivenIs DEF RowOK
<1> QED
  BY <1>1, <1>2, <1>3

\* Lines that are laid out are lines of the program.
LEMMA LaidIs ==
  ASSUME GivenOK, ParseInv, SlotInv, LayoutInv
  PROVE  /\ DOMAIN laid = 1 .. Len(laid) /\ Len(laid) \in Nat /\ Len(laid) <= Len(lines)
         /\ DOMAIN laid \subseteq Lines /\ (DOMAIN laid # {} => Slotted)
         /\ DOMAIN Sizes = DOMAIN laid /\ Numbers(Sizes, Len(laid))
         /\ \A k \in DOMAIN laid : Sizes[k] = laid[k].size /\ laid[k].size \in Nat
         /\ Lines = 1 .. Len(lines) /\ Len(lines) \in Nat
<1>1. DOMAIN laid = 1 .. Len(laid) /\ Len(laid) \in Nat
  BY SequenceIs DEF LayoutInv
<1>2. Lines = 1 .. Len(lines) /\ Len(lines) \in Nat
  BY SequenceIs DEF ParseInv, Lines
<1>2a. Len(laid) = IF ~Slotted THEN 0 ELSE IF phase \in {"layout", "overflow"} THEN i - 1 ELSE Len(lines)
  BY DEF LayoutInv, LaidLen
<1>3. DOMAIN laid # {} => Slotted
  <2> SUFFICES ASSUME ~Slotted PROVE DOMAIN laid = {}
    OBVIOUS
  <2>1. Len(laid) = 0
    BY <1>2a
  <2> QED
    BY <1>1, <2>1
<1>4. Len(laid) <= Len(lines)
  <2>1. i \in Nat
    <3>1. Len(text) \in Nat
      BY GivenIs, SequenceIs
    <3> QED
      BY <3>1 DEF ParseInv
  <2>2. Slotted /\ phase \in {"layout", "overflow"} => i <= Len(lines) + 1
    BY DEF LayoutInv
  <2> QED
    BY <1>1, <1>2, <1>2a, <2>1, <2>2
<1>5. DOMAIN laid \subseteq Lines
  BY <1>1, <1>2, <1>4
<1>6. DOMAIN Sizes = DOMAIN laid /\ \A k \in DOMAIN laid : Sizes[k] = laid[k].size /\ laid[k].size \in Nat
  <2>1. ASSUME NEW k \in DOMAIN laid PROVE laid[k].size \in Nat
    BY <1>3, <1>5, RowIs DEF LayoutInv
  <2> QED
    BY <2>1 DEF Sizes
<1>7. Numbers(Sizes, Len(laid))
  BY <1>1, <1>6 DEF Numbers
<1> QED
  BY <1>1, <1>2, <1>3, <1>4, <1>5, <1>6, <1>7

LEMMA ModAdd ==
  ASSUME NEW n \in Nat \ {0}, NEW a \in Nat, NEW b \in Nat
  PROVE  ((a % n) + b) % n = (a + b) % n
<1> DEFINE q == a \div n
           r == a % n
           p == (r + b) \div n
           s == (r + b) % n
<1>1. q \in Nat /\ r \in 0 .. n - 1 /\ a = q * n + r
  OBVIOUS
<1> HIDE DEF q, r
<1>2. r + b \in Nat
  BY <1>1
<1>3. p \in Nat /\ s \in 0 .. n - 1 /\ r + b = p * n + s
  BY <1>2
<1> HIDE DEF p, s
<1>4. a + b = (q + p) * n + s
  <2>1. (q + p) * n = q * n + p * n /\ q * n \in Nat /\ p * n \in Nat
    BY <1>1, <1>3
  <2> QED
    BY <1>1, <1>3, <2>1
<1>5. ((q + p) * n + s) % n = s
  <2>1. q + p \in Nat
    BY <1>1, <1>3
  <2> QED
    BY <1>3, <2>1, DivisionIs
<1> QED
  BY <1>4, <1>5 DEF s, r

\* What depends on the slots alone stays with them.
LEMMA SlotsSame ==
  ASSUME UNCHANGED slots
  PROVE  /\ \A m : Load(m)' = Load(m)
         /\ \A line : Before(line)' = Before(line)
         /\ \A line, main : MainOK(line, main) => MainOK(line, main)'
<1>1. regSlot' = regSlot /\ constSlot' = constSlot /\ outRegs' = outRegs /\ outConsts' = outConsts
  BY DEF slots
<1>2. \A m : Load(m)' = Load(m)
  BY <1>1 DEF Load
<1>3. \A line : Before(line)' = Before(line)
  BY <1>2 DEF Before
<1>4. \A line : ModuleArgs(line)' = ModuleArgs(line)
  BY <1>1 DEF ModuleArgs
<1>5. ASSUME NEW line, NEW main, MainOK(line, main)
      PROVE  MainOK(line, main)'
  <2> DEFINE args == ModuleArgs(line)
  <2>1. args' = args
    BY <1>4
  <2>2. ASSUME NEW j \in DOMAIN line.args
        PROVE  LET a == main.args[j + Len(args')]
               IN  /\ line.args[j].kind = "reg" => a.type = "REGISTER" /\ outRegs'[a.val + 1] = line.args[j].text
                   /\ a.type = "CONSTANT" => outConsts'[a.val + 1] = line.args[j].text
    BY <1>1, <1>5, <2>1 DEF MainOK
  <2>3. /\ Emittable(main)
        /\ Len(main.args) = Len(args') + Len(line.args)
        /\ line.mod = "" => main.op = line.op \/ main.op \in Forwards \cup Backs
        /\ line.mod # "" => main.op = "MOD_OP" /\ main.args[1] = Arg("CONSTANT", constSlot'[InQuotes(line.mod)])
    BY <1>1, <1>5, <2>1 DEF MainOK
  <2> QED
    BY <2>2, <2>3 DEF MainOK
<1> QED
  BY <1>2, <1>3, <1>5

LEMMA AlignSame ==
  ASSUME align' = align
  PROVE  \A pre, main : Reserved(pre, main)' = Reserved(pre, main)
<1>1. \A b : Nops(b)' = Nops(b)
  BY DEF Nops
<1>2. \A ins : PreSize(ins)' = PreSize(ins) /\ LineSize(ins)' = LineSize(ins)
  BY <1>1 DEF PreSize, LineSize
<1> QED
  BY <1>2 DEF Reserved

LEMMA RowSame ==
  ASSUME UNCHANGED <<slots, align>>, NEW line, NEW row, RowOK(line, row)
  PROVE  RowOK(line, row)'
BY SlotsSame, AlignSame DEF RowOK

\* What has been laid out stays as it is when a line is added.
LEMMA LaidGrows ==
  ASSUME GivenOK, ParseInv, SlotInv, LayoutInv, NEW row, laid' = Append(laid, row), UNCHANGED <<slots, lines>>,
         row.size \in Nat, NEW n, n = Len(laid)
  PROVE  /\ Sequence(laid') /\ Len(laid') = n + 1 /\ DOMAIN laid' = DOMAIN laid \cup {n + 1}
         /\ laid'[n + 1] = row /\ n + 1 \notin DOMAIN laid
         /\ \A k \in DOMAIN laid : laid'[k] = laid[k] /\ Address(k)' = Address(k)
         /\ SumTo(Sizes', n + 1) = SumTo(Sizes, n) + row.size /\ SumTo(Sizes, n) \in Nat
         /\ Address(n + 1)' = Address(n + 1)
         /\ \A m : \A k \in 0 .. n : LoadedBy(m, k) => LoadedBy(m, k)' /\ LoadedBy(m, n + 1)'
<1>1. /\ Sequence(laid') /\ Len(laid') = n + 1 /\ n \in Nat /\ DOMAIN laid = 1 .. n
      /\ DOMAIN laid' = DOMAIN laid \cup {n + 1}
      /\ \A k \in DOMAIN laid : laid'[k] = laid[k] /\ k # n + 1
      /\ laid'[n + 1] = row
  <2>1. Sequence(laid)
    BY DEF LayoutInv
  <2> QED
    BY <2>1, AppendIs, LaidIs
<1>2. \A k \in 1 .. n : Sizes[k] = laid[k].size /\ laid[k].size \in Nat
  BY <1>1, LaidIs
<1>3. /\ \A k \in 1 .. n : Sizes'[k] = Sizes[k] /\ Sizes[k] \in Nat
      /\ Sizes'[n + 1] = row.size
  BY <1>1, <1>2 DEF Sizes
<1> DEFINE old == Sizes
           new == Sizes'
<1>4. Numbers(old, n) /\ Numbers(new, n) /\ Numbers(new, n + 1)
  <2>1. \A k \in 1 .. n + 1 : k \in 1 .. n \/ k = n + 1
    BY <1>1
  <2> QED
    BY <1>3, <2>1 DEF Numbers
<1> HIDE DEF old, new
<1>5. ASSUME NEW k \in 0 .. n PROVE SumTo(new, k) = SumTo(old, k) /\ SumTo(old, k) \in Nat
  <2>1. k \in Nat /\ k <= n
    BY <1>1
  <2>2. Numbers(new, k) /\ Numbers(old, k)
    BY <1>1, <1>4, <2>1, NumbersLess
  <2>3. \A j \in 1 .. k : new[j] = old[j]
    BY <1>3, <2>1, <1>1 DEF new, old
  <2> QED
    BY <2>1, <2>2, <2>3, SumSame, SumNat
<1>6. SumTo(Sizes', n + 1) = SumTo(Sizes, n) + row.size /\ SumTo(Sizes, n) \in Nat
  <2>1. SumTo(new, n + 1) = SumTo(new, n) + new[n + 1]
    BY <1>1, <1>4, SumNext
  <2>2. n \in 0 .. n
    BY <1>1
  <2> QED
    BY <1>3, <1>5, <2>1, <2>2 DEF new, old
<1>7. ASSUME NEW k \in 1 .. n + 1 PROVE Address(k)' = Address(k)
  <2>1. k - 1 \in 0 .. n
    BY <1>1
  <2>2. SumTo(new, k - 1) = SumTo(old, k - 1)
    BY <1>5, <2>1
  <2> QED
    BY <2>2 DEF Address, new, old
<1>8. ASSUME NEW m, NEW k \in 0 .. n, LoadedBy(m, k) PROVE LoadedBy(m, k)' /\ LoadedBy(m, n + 1)'
  <2>1. PICK c \in 1 .. k : c \in DOMAIN laid /\ lines[c].mod = m /\ \E j \in DOMAIN laid[c].pre : laid[c].pre[j] = Load(m)
    BY <1>8 DEF LoadedBy
  <2>2. PICK j \in DOMAIN laid[c].pre : laid[c].pre[j] = Load(m)
    BY <2>1
  <2>3. Load(m)' = Load(m) /\ lines' = lines
    BY SlotsSame
  <2>4. c \in DOMAIN laid' /\ laid'[c] = laid[c] /\ c \in 1 .. n + 1
    BY <1>1, <2>1
  <2>5. lines'[c].mod = m /\ j \in DOMAIN laid'[c].pre /\ laid'[c].pre[j] = Load(m)'
    BY <2>1, <2>2, <2>3, <2>4
  <2>6. LoadedBy(m, k)'
    BY <2>1, <2>4, <2>5 DEF LoadedBy
  <2>7. LoadedBy(m, n + 1)'
    BY <2>4, <2>5 DEF LoadedBy
  <2> QED
    BY <2>6, <2>7
<1>9. \A k \in DOMAIN laid : Address(k)' = Address(k)
  BY <1>1, <1>7
<1>10. n + 1 \in 1 .. n + 1 /\ n + 1 \notin DOMAIN laid
  BY <1>1
<1>11. Address(n + 1)' = Address(n + 1)
  BY <1>7, <1>10
<1> QED
  BY <1>1, <1>6, <1>8, <1>9, <1>10, <1>11

LEMMA MainLen ==
  ASSUME ParseInv, SlotInv, Slotted, NEW k \in Lines
  PROVE  Len(Main(lines[k]).args) \in Nat
<1> DEFINE line == lines[k]
           rest == [j \in DOMAIN line.args |-> Assembled(line, line.args[j])]
<1>1. Main(line).args = ModuleArgs(line) \o rest
  BY DEF Main
<1>2. ModuleArgs(line) \in Seq(ArgType)
  BY ModuleArgsIs
<1>3. rest \in Seq(ArgType)
  <2>1. DOMAIN line.args = 1 .. Len(line.args) /\ Len(line.args) \in Nat
    BY SequenceIs DEF ParseInv, LineOK, Lines
  <2>2. \A j \in DOMAIN line.args : Assembled(line, line.args[j]) \in ArgType
    BY AssembledIs
  <2>3. rest \in [1 .. Len(line.args) -> ArgType]
    BY <2>1, <2>2
  <2> QED
    BY <2>1, <2>3, SeqDef
<1> HIDE DEF rest
<1>4. Main(line).args \in Seq(ArgType)
  BY <1>1, <1>2, <1>3, ConcatIs
<1> QED
  BY <1>4, LenProperties

LEMMA ThreeFields ==
  ASSUME NEW a, NEW b, NEW c, NEW r, r = [pre |-> a, flags |-> b, cache |-> c]
  PROVE  r.pre = a /\ r.flags = b /\ r.cache = c
OBVIOUS

UsesOf(line, flags, c) ==
  IF line.mod = "" THEN [pre |-> <<>>, flags |-> flags, cache |-> c] ELSE UseModule(line.mod, flags, c)

\* A line that is used: what is put before it, the tags and the cache after it.
LEMMA UsesIs ==
  ASSUME ParseInv, SlotInv, Slotted, NEW k \in Lines, NEW line, line = lines[k],
         NEW flags \in Flags, NEW c, CacheOK(c), NEW use, use = UsesOf(line, flags, c)
  PROVE  Used(use, line, flags) /\ CacheOK(use.cache)
<1>1. CASE line.mod = ""
  <2>1. use = [pre |-> <<>>, flags |-> flags, cache |-> c]
    BY <1>1, Zenon DEF UsesOf
  <2>2. use.pre = <<>> /\ use.flags = flags /\ use.cache = c
    BY <2>1, ThreeFields
  <2>3. use.pre \in Seq(Before(line))
    BY <2>2, EmptySeq
  <2> QED
    BY <1>1, <2>2, <2>3 DEF Used
<1>2. CASE line.mod # ""
  <2> DEFINE m == line.mod
  <2>1. use = UseModule(m, flags, c) /\ m # "" /\ m = lines[k].mod
    BY <1>2, Zenon DEF UsesOf
  <2>2. m \in Modules /\ m \in Loadable
    BY <1>2 DEF Modules, ParseInv, LineOK, OpOK, Lines
  <2> HIDE DEF m
  <2>3. /\ Used(UseModule(m, flags, c), lines[k], flags)
        /\ UseModule(m, flags, c).cache = c \/ UseModule(m, flags, c).cache = Insert(c, Capacity, m)
    BY <2>1, UseModuleIs
  <2>4. CacheOK(use.cache)
    BY <2>1, <2>2, <2>3, InsertIs
  <2> QED
    BY <2>1, <2>3, <2>4
<1> QED
  BY <1>1, <1>2

\* The step that lays out the line behind the first n.
Adds(n, line, row) ==
  /\ n = Len(laid) /\ n + 1 \in Lines /\ line = lines[n + 1] /\ Slotted
  /\ RowOK(line, row) /\ row.ptr = (EntryPoint + size) % Span
  /\ laid' = Append(laid, row) /\ size' = (size + row.size) % Span
  /\ isLoaded' \in Flags /\ \A o \in Loadable : isLoaded'[o] => isLoaded[o] \/ (o = line.mod /\ line.mod # "")
  /\ line.mod # "" => line.mod \in Loadable /\ (isLoaded[line.mod] \/ \E j \in DOMAIN row.pre : row.pre[j] = Load(line.mod))
  /\ CacheOK(cache')
Within == Slotted /\ phase \in {"layout", "overflow"} => i <= Len(lines) + 1

LEMMA UpTo ==
  ASSUME NEW n \in Nat
  PROVE  n \in 0 .. n /\ n + 1 \in 1 .. n + 1 /\ (n + 1) - 1 = n
OBVIOUS

LEMMA RowAdded ==
  ASSUME GivenOK, ParseInv, SlotInv, LayoutInv, NEW n, NEW line, NEW row, Adds(n, line, row),
         UNCHANGED <<slots, lines>>, UNCHANGED <<slots, align>>, LaidLen', Within'
  PROVE  LayoutInv'
<1>1. n \in Nat /\ DOMAIN laid = 1 .. n
  BY LaidIs DEF Adds
<1>2. row.size \in Nat
  BY RowIs DEF Adds
<1>3. lines' = lines
  OBVIOUS
<1>4. /\ Sequence(laid') /\ Len(laid') = n + 1 /\ DOMAIN laid' = DOMAIN laid \cup {n + 1}
      /\ laid'[n + 1] = row /\ n + 1 \notin DOMAIN laid
      /\ \A k \in DOMAIN laid : laid'[k] = laid[k] /\ Address(k)' = Address(k)
      /\ SumTo(Sizes', n + 1) = SumTo(Sizes, n) + row.size /\ SumTo(Sizes, n) \in Nat
      /\ Address(n + 1)' = Address(n + 1)
      /\ \A m : \A k \in 0 .. n : LoadedBy(m, k) => LoadedBy(m, k)' /\ LoadedBy(m, n + 1)'
  BY <1>2, LaidGrows DEF Adds
<1>5. size = SumTo(Sizes, n) % Span /\ \A m \in Loadable : isLoaded[m] => LoadedBy(m, n)
  BY DEF LayoutInv, Adds
<1>6. n \in 0 .. n /\ n + 1 \in 1 .. n + 1 /\ (n + 1) - 1 = n
  BY <1>1, UpTo
<1>7. ASSUME NEW k \in DOMAIN laid
      PROVE  /\ RowOK(lines[k], laid[k])' /\ laid'[k].ptr = Address(k)'
             /\ Provided(k)'
  <2>1. RowOK(lines[k], laid[k]) /\ laid[k].ptr = Address(k) /\ Provided(k)
    BY DEF LayoutInv
  <2>2. lines'[k] = lines[k] /\ laid'[k] = laid[k]
    BY <1>3, <1>4
  <2>3. k \in 0 .. n
    BY <1>1
  <2>4. RowOK(lines[k], laid[k])'
    BY <2>1, <2>2, RowSame
  <2>5. Provided(k)'
    <3>1. ASSUME lines[k].mod # "" PROVE LoadedBy(lines[k].mod, k)'
      BY <1>4, <2>1, <2>3, <3>1 DEF Provided
    <3> QED
      BY <2>2, <3>1 DEF Provided
  <2> QED
    BY <1>4, <2>1, <2>2, <2>4, <2>5
<1>8. ASSUME line.mod # "" PROVE LoadedBy(line.mod, n + 1)'
  <2>1. CASE isLoaded[line.mod]
    <3>1. LoadedBy(line.mod, n)
      BY <1>5, <1>8, <2>1 DEF Adds
    <3> QED
      BY <1>4, <1>6, <3>1
  <2>2. CASE \E j \in DOMAIN row.pre : row.pre[j] = Load(line.mod)
    <3>2. n + 1 \in DOMAIN laid' /\ lines'[n + 1].mod = line.mod /\ laid'[n + 1].pre = row.pre
      BY <1>3, <1>4 DEF Adds
    <3>3. Load(line.mod)' = Load(line.mod)
      BY SlotsSame
    <3>4. \E j \in DOMAIN laid'[n + 1].pre : laid'[n + 1].pre[j] = Load(line.mod)'
      BY <2>2, <3>2, <3>3
    <3> QED
      BY <1>6, <3>2, <3>4 DEF LoadedBy
  <2> QED
    BY <1>8, <2>1, <2>2 DEF Adds
<1>9. /\ RowOK(lines[n + 1], laid[n + 1])' /\ laid'[n + 1].ptr = Address(n + 1)'
      /\ Provided(n + 1)'
  <2>1. lines'[n + 1] = line /\ laid'[n + 1] = row
    BY <1>3, <1>4 DEF Adds
  <2>2. RowOK(line, row)'
    BY RowSame DEF Adds
  <2>4. row.ptr = Address(n + 1)
    BY <1>5, <1>6 DEF Address, Adds
  <2>5. Provided(n + 1)'
    BY <1>8, <2>1 DEF Provided
  <2> QED
    BY <1>4, <2>1, <2>2, <2>4, <2>5
<1>10. size' = SumTo(Sizes', n + 1) % Span
  <2> DEFINE s == SumTo(Sizes, n)
             b == row.size
  <2>1. s \in Nat /\ b \in Nat /\ Span \in Nat \ {0}
    BY <1>2, <1>4, SpanIs
  <2> HIDE DEF s, b
  <2>2. ((s % Span) + b) % Span = (s + b) % Span
    BY <2>1, ModAdd
  <2>3. size = s % Span /\ size' = (size + b) % Span /\ SumTo(Sizes', n + 1) = s + b
    BY <1>4, <1>5 DEF s, b, Adds
  <2> QED
    BY <2>2, <2>3
<1>11. ASSUME NEW m \in Loadable, isLoaded'[m] PROVE LoadedBy(m, n + 1)'
  <2>1. CASE isLoaded[m]
    BY <1>4, <1>5, <1>6, <2>1
  <2>2. CASE m = line.mod /\ line.mod # ""
    BY <1>8, <2>2
  <2> QED
    BY <1>11, <2>1, <2>2 DEF Adds
<1>12. CacheOK(cache)'
  <2>1. Modules' = Modules
    BY <1>3 DEF Modules, Lines
  <2> QED
    BY <2>1 DEF CacheOK, Adds
<1>13. \A k \in DOMAIN laid' : /\ RowOK(lines[k], laid[k])' /\ laid'[k].ptr = Address(k)'
                               /\ Provided(k)'
  BY <1>4, <1>7, <1>9
<1> QED
  BY <1>4, <1>10, <1>11, <1>12, <1>13 DEF LayoutInv, Adds, Within

LEMMA LayoutKeeps ==
  ASSUME GivenOK, ParseInv, SlotInv, LayoutInv, Layout
  PROVE  LayoutInv'
<1> DEFINE line == lines[i]
           all == line.mod = "" /\ line.op = "MOD_UNLOAD_ALL"
           flags == IF all THEN [m \in Loadable |-> isLoaded[m] /\ ~Cached(cache, m)] ELSE isLoaded
           c == IF all THEN Clear(cache) ELSE cache
           use == IF line.mod = "" THEN [pre |-> <<>>, flags |-> flags, cache |-> c]
                  ELSE UseModule(line.mod, flags, c)
           main == Main(line)
           bytes == Reserved(use.pre, main)
           start == (EntryPoint + size) % Span
           row == [pre |-> use.pre, main |-> main, size |-> bytes, ptr |-> start]
           n == Len(laid)
<1>1. /\ phase = "layout" /\ i \in Lines /\ UNCHANGED <<given, parsed, slots>>
      /\ \/ Len(main.args) > MaxArgs /\ phase' = "overflow" /\ UNCHANGED <<i, layout>>
         \/ /\ ~(Len(main.args) > MaxArgs)
            /\ isLoaded' = use.flags /\ cache' = use.cache
            /\ laid' = Append(laid, row) /\ size' = (size + bytes) % Span
            /\ i' = i + 1 /\ phase' = phase
  BY DEF Layout
<1>2. Slotted /\ Slotted' /\ (Slotted' <=> Slotted)
  BY <1>1 DEF SlotInv, Slotted, slots
<1>3. n = i - 1 /\ i <= Len(lines) /\ i \in Nat /\ n \in Nat /\ i = n + 1 /\ DOMAIN laid = 1 .. n
  <2>1. Lines = 1 .. Len(lines) /\ Len(lines) \in Nat /\ DOMAIN laid = 1 .. n
    BY LaidIs
  <2>2. n = i - 1
    BY <1>1, <1>2 DEF LayoutInv, LaidLen
  <2> HIDE DEF n
  <2>3. i \in 1 .. Len(lines)
    BY <1>1, <2>1
  <2> QED
    BY <2>1, <2>2, <2>3
<1>4. ASSUME Len(main.args) > MaxArgs, phase' = "overflow", UNCHANGED <<i, layout>>
      PROVE  LayoutInv'
  <2>1. \A m, k : LoadedBy(m, k) => LoadedBy(m, k)'
    BY <1>1, <1>4, SlotsSame DEF LoadedBy, parsed, layout
  <2>2. \A k : Address(k)' = Address(k)
    BY <1>4 DEF Address, Sizes, layout
  <2>3. \A k \in DOMAIN laid : RowOK(lines[k], laid[k])'
    BY <1>1, <1>4, RowSame DEF LayoutInv, parsed, layout, given
  <2>4. (CacheOK(cache) => CacheOK(cache)') /\ SumTo(Sizes, Len(laid))' = SumTo(Sizes, Len(laid))
    BY <1>1, <1>4 DEF CacheOK, Modules, Lines, parsed, layout, Sizes
  <2>5. LaidLen'
    BY <1>1, <1>2, <1>4 DEF LayoutInv, LaidLen, layout
  <2>6. \A k \in DOMAIN laid : Provided(k)'
    BY <1>1, <2>1 DEF LayoutInv, Provided, parsed
  <2>7. \A m \in Loadable : isLoaded'[m] => LoadedBy(m, Len(laid))'
    BY <1>4, <2>1 DEF LayoutInv, layout
  <2>8. UNCHANGED <<laid, size, isLoaded, cache, lines, i>>
    BY <1>1, <1>4 DEF parsed, layout
  <2>9. \A k \in DOMAIN laid' : RowOK(lines[k], laid[k])' /\ (laid[k].ptr = Address(k))' /\ Provided(k)'
    BY <2>2, <2>3, <2>6, <2>8 DEF LayoutInv
  <2>10. (Slotted /\ phase \in {"layout", "overflow"} => i <= Len(lines) + 1)'
    BY <1>1, <1>2, <2>8 DEF LayoutInv
  <2> QED
    BY <2>4, <2>5, <2>7, <2>8, <2>9, <2>10 DEF LayoutInv
<1>5. ASSUME ~(Len(main.args) > MaxArgs), isLoaded' = use.flags, cache' = use.cache,
             laid' = Append(laid, row), size' = (size + bytes) % Span, i' = i + 1, phase' = phase
      PROVE  LayoutInv'
  <2>1. MainOK(line, main)
    <3>1. Len(main.args) <= MaxArgs
      <4> DEFINE len == Len(main.args)
      <4>1. len \in Nat
        BY <1>1, <1>2, MainLen
      <4>2. ~(len > MaxArgs) /\ MaxArgs \in Nat
        BY <1>5, OpcodesOK
      <4> HIDE DEF len
      <4>3. len <= MaxArgs
        BY <4>1, <4>2
      <4> QED
        BY <4>3 DEF len
    <3> QED
      BY <1>1, <1>2, <3>1, MainIs
  <2>2. flags \in Flags /\ \A o \in Loadable : flags[o] => isLoaded[o]
    BY DEF LayoutInv, Flags
  <2>3. CacheOK(c)
    BY ClearIs DEF LayoutInv
  <2> DEFINE ln == lines[i]
             num == Len(laid)
  <2>4. use = UsesOf(ln, flags, c)
    BY DEF UsesOf
  <2> HIDE DEF flags, c, use, ln
  <2>5. ln = lines[i]
    BY DEF ln
  <2>6. Used(use, ln, flags) /\ CacheOK(use.cache)
    BY <1>1, <1>2, <2>2, <2>3, <2>4, <2>5, UsesIs
  <2>7. row.pre = use.pre /\ row.main = main /\ row.size = bytes /\ row.ptr = start /\ DOMAIN row = {"pre", "main", "size", "ptr"}
    <3> HIDE DEF main, bytes, start
    <3> QED
      OBVIOUS
  <2> HIDE DEF row
  <2>8. RowOK(ln, row)
    BY <2>1, <2>5, <2>6, <2>7 DEF RowOK, Used
  <2>9. num + 1 = i /\ i \in Lines /\ ln = lines[num + 1]
    BY <1>1, <1>3, <2>5
  <2> HIDE DEF num
  <2>10. num = Len(laid)
    BY DEF num
  <2>11. Adds(num, ln, row)
    <3> HIDE DEF main, bytes, n
    <3>1. \A o \in Loadable : isLoaded'[o] => isLoaded[o] \/ (o = ln.mod /\ ln.mod # "")
      BY <1>5, <2>2, <2>6 DEF Used
    <3>2. ln.mod # "" => ln.mod \in Loadable /\ (isLoaded[ln.mod] \/ \E j \in DOMAIN row.pre : row.pre[j] = Load(ln.mod))
      BY <2>2, <2>6, <2>7 DEF Used
    <3>3. row.ptr = (EntryPoint + size) % Span
      BY <2>7
    <3>4. laid' = Append(laid, row) /\ size' = (size + row.size) % Span /\ CacheOK(cache') /\ isLoaded' \in Flags
      BY <1>5, <2>6, <2>7 DEF Used
    <3> QED
      BY <1>2, <2>8, <2>9, <2>10, <3>1, <3>2, <3>3, <3>4 DEF Adds
  <2>12. UNCHANGED <<slots, lines>> /\ UNCHANGED <<slots, align>> /\ lines' = lines
    BY <1>1 DEF parsed, given
  <2>13. Len(laid') = i
    <3>1. row.size \in Nat
      BY <1>1, <1>2, <2>5, <2>8, RowIs
    <3>2. Len(laid') = num + 1
      BY <1>5, <2>10, <2>12, <3>1, LaidGrows
    <3> QED
      BY <2>9, <3>2
  <2>14. LaidLen' /\ Within'
    <3> HIDE DEF main, bytes, n
    <3>1. Len(lines) \in Nat
      BY LaidIs
    <3>2. i' - 1 = i /\ i' <= Len(lines') + 1
      BY <1>3, <1>5, <2>12, <3>1
    <3> QED
      BY <1>1, <1>2, <1>5, <2>13, <3>2 DEF LaidLen, Within
  <2> QED
    BY <2>11, <2>12, <2>14, RowAdded
<1> QED
  BY <1>1, <1>4, <1>5

-----------------------------------------------------------------------------
\* Labels.

LEMMA MaxIn ==
  ASSUME NEW n \in Nat, NEW S \in SUBSET (0 .. n), S # {}
  PROVE  Max(S) \in S
<1> DEFINE U == {b \in Nat : \A y \in S : y <= b}
<1>1. n \in U
  OBVIOUS
<1>2. PICK m \in U : \A b \in U : m <= b
  <2>1. U \in SUBSET Nat /\ U # {}
    BY <1>1
  <2> HIDE DEF U
  <2> QED
    BY <2>1, Shared!LeastElement
<1>3. m \in Nat /\ \A y \in S : y <= m
  BY <1>2
<1>4. m \in S
  <2> SUFFICES ASSUME m \notin S PROVE FALSE
    OBVIOUS
  <2>1. PICK z \in S : TRUE
    OBVIOUS
  <2>2. \A y \in S : y \in Nat /\ y <= m /\ y # m
    BY <1>3
  <2>3. m - 1 \in Nat /\ \A y \in S : y <= m - 1
    BY <1>3, <2>1, <2>2
  <2>4. m - 1 \in U
    BY <2>3
  <2> HIDE DEF U
  <2>5. m <= m - 1
    BY <1>2, <2>4
  <2> QED
    BY <1>3, <2>5
<1>5. \E x \in S : \A y \in S : x >= y
  <2>1. \A y \in S : y \in Nat /\ m >= y
    BY <1>3
  <2> QED
    BY <1>4, <2>1
<1> QED
  BY <1>5 DEF Max

LEMMA LabelIs ==
  ASSUME ParseInv, NEW k \in Lines, LabelArgs(lines[k]) # {}, NEW j, j = Max(LabelArgs(lines[k]))
  PROVE  j \in DOMAIN lines[k].args /\ lines[k].args[j].kind = "label" /\ j \in 1 .. Len(lines[k].args)
<1> DEFINE args == lines[k].args
           S == LabelArgs(lines[k])
<1>1. DOMAIN args = 1 .. Len(args) /\ Len(args) \in Nat
  BY SequenceIs DEF ParseInv, LineOK, Lines
<1>2. S \subseteq DOMAIN args /\ \A x \in S : args[x].kind = "label"
  BY DEF LabelArgs
<1> HIDE DEF args, S
<1>3. S \in SUBSET (0 .. Len(args))
  BY <1>1, <1>2
<1>4. j \in S
  BY <1>1, <1>3, MaxIn DEF S
<1> QED
  BY <1>1, <1>2, <1>4 DEF args

LEMMA ExceptIs ==
  ASSUME NEW A, NEW s \in Seq(A), NEW j, NEW x \in A
  PROVE  [s EXCEPT ![j] = x] \in Seq(A) /\ Len([s EXCEPT ![j] = x]) = Len(s)
<1>1. s \in [1 .. Len(s) -> A] /\ Len(s) \in Nat
  BY LenProperties
<1>2. [s EXCEPT ![j] = x] \in [1 .. Len(s) -> A]
  BY <1>1
<1>3. [s EXCEPT ![j] = x] \in Seq(A)
  BY <1>1, <1>2, SeqDef
<1> QED
  BY <1>1, <1>2, <1>3, LenProperties

Put(op, args, j, val) == [op |-> op, args |-> [args EXCEPT ![j] = Arg("WORD", val)]]

LEMMA TwoFields ==
  ASSUME NEW a, NEW b, NEW r, r = [op |-> a, args |-> b]
  PROVE  r.op = a /\ r.args = b /\ r = [op |-> r.op, args |-> r.args]
OBVIOUS

Labelled(line, j) ==
  /\ line.mod = "" /\ Len(ModuleArgs(line)) = 0
  /\ DOMAIN line.args = 1 .. Len(line.args) /\ Len(line.args) \in Nat
  /\ j \in DOMAIN line.args /\ line.args[j].kind = "label"
Becomes(op, line) == Offers(Builtins, op) /\ (op = line.op \/ op \in Forwards \cup Backs)

\* A word in place of what a label has left keeps what else a line is.
LEMMA WordPut ==
  ASSUME NEW line, NEW j, Labelled(line, j), NEW main, MainOK(line, main),
         NEW val \in Nat, NEW op, Becomes(op, line), NEW new, new = Put(op, main.args, j, val)
  PROVE  MainOK(line, new) /\ Len(new.args) = Len(main.args)
<1> DEFINE args == main.args
           w == Arg("WORD", val)
           put == [args EXCEPT ![j] = w]
<1>1. args \in Seq(ArgType) /\ Len(args) <= MaxArgs
  BY DEF MainOK, Emittable
<1>2. Len(args) = Len(line.args) /\ DOMAIN args = 1 .. Len(args)
  <2> DEFINE a == Len(args)
             b == Len(line.args)
             m == Len(ModuleArgs(line))
  <2>1. a = m + b
    BY DEF MainOK
  <2>2. m = 0 /\ b \in Nat
    BY DEF Labelled
  <2>3. DOMAIN args = 1 .. Len(args)
    BY <1>1, LenProperties
  <2> HIDE DEF a, b, m
  <2>4. a = b
    BY <2>1, <2>2
  <2> QED
    BY <2>3, <2>4 DEF a, b
<1> HIDE DEF args
<1>3. w \in ArgType /\ w.type = "WORD"
  BY ArgIs
<1> HIDE DEF w
<1>4. put \in Seq(ArgType) /\ Len(put) = Len(args)
  BY <1>1, <1>3, ExceptIs
<1>5. put[j] = w /\ \A n \in DOMAIN line.args : n # j => put[n] = args[n]
  BY <1>2 DEF Labelled
<1>6. new = [op |-> op, args |-> put]
  BY DEF args, Put, w
<1> HIDE DEF put
<1>7. new.op = op /\ new.args = put /\ new = [op |-> new.op, args |-> new.args]
  BY <1>6, TwoFields
<1>8. Emittable(new)
  BY <1>1, <1>4, <1>7 DEF Emittable, Becomes
<1>9. ASSUME NEW n \in DOMAIN line.args
      PROVE  LET a == new.args[n + Len(ModuleArgs(line))]
             IN  /\ line.args[n].kind = "reg" => a.type = "REGISTER" /\ outRegs[a.val + 1] = line.args[n].text
                 /\ a.type = "CONSTANT" => outConsts[a.val + 1] = line.args[n].text
  <2>1. n + Len(ModuleArgs(line)) = n
    <3> DEFINE m == Len(ModuleArgs(line))
               b == Len(line.args)
    <3>2. m = 0 /\ n \in 1 .. b /\ b \in Nat
      BY DEF Labelled
    <3> HIDE DEF m, b
    <3>1. n \in Nat
      BY <3>2
    <3>3. n + m = n
      BY <3>1, <3>2
    <3> QED
      BY <3>3 DEF m
  <2>2. CASE n = j
    <3>1. new.args[n] = w
      BY <1>5, <1>7, <2>2
    <3>2. line.args[n].kind # "reg"
      BY <2>2 DEF Labelled
    <3> QED
      BY <1>3, <2>1, <3>1, <3>2
  <2>3. CASE n # j
    <3>1. new.args[n] = args[n]
      BY <1>5, <1>7, <2>3
    <3>2. /\ line.args[n].kind = "reg" => args[n].type = "REGISTER" /\ outRegs[args[n].val + 1] = line.args[n].text
          /\ args[n].type = "CONSTANT" => outConsts[args[n].val + 1] = line.args[n].text
      BY <2>1 DEF MainOK, args
    <3> QED
      BY <2>1, <3>1, <3>2
  <2> QED
    BY <2>2, <2>3
<1> QED
  <2>1. Len(new.args) = Len(args)
    BY <1>4, <1>7
  <2>2. Len(args) = Len(ModuleArgs(line)) + Len(line.args)
    BY DEF MainOK, args
  <2>3. line.mod = "" /\ (new.op = line.op \/ new.op \in Forwards \cup Backs)
    BY <1>7 DEF Labelled, Becomes
  <2> QED
    BY <1>8, <1>9, <2>1, <2>2, <2>3 DEF MainOK, args

\* A place in the program, and how far one line is from another.
LEMMA AddressIs ==
  ASSUME GivenOK, ParseInv, SlotInv, LayoutInv, NEW k \in DOMAIN laid
  PROVE  Address(k) \in 0 .. Span - 1
<1> DEFINE s == SumTo(Sizes, k - 1)
<1>1. k - 1 \in Nat /\ k - 1 <= Len(laid) /\ Len(laid) \in Nat
  BY LaidIs
<1>2. s \in Nat
  BY <1>1, LaidIs, NumbersLess, SumNat
<1> HIDE DEF s
<1>3. s % Span \in Nat
  BY <1>2, SpanIs
<1>4. (EntryPoint + (s % Span)) % Span \in 0 .. Span - 1
  BY <1>3, SpanIs
<1> QED
  BY <1>4 DEF Address, s

LEMMA DistanceIs ==
  ASSUME GivenOK, ParseInv, SlotInv, LayoutInv, NEW from \in DOMAIN laid, NEW to \in DOMAIN laid, ~Misled(from, to)
  PROVE  Distance(from, to) \in Nat
<1> DEFINE low  == IF lines[from].num < lines[to].num THEN from ELSE to
           high == IF lines[from].num < lines[to].num THEN to ELSE from
           a == lines[from].num
           b == lines[to].num
<1>1. DOMAIN laid = 1 .. Len(laid) /\ Len(laid) \in Nat /\ Numbers(Sizes, Len(laid)) /\ DOMAIN laid \subseteq Lines
  BY LaidIs
<1>2. a \in Nat /\ b \in Nat
  BY <1>1 DEF ParseInv, Lines
<1>3. ~((a < b /\ from > to) \/ (a > b /\ from < to))
  BY DEF Misled
<1>4. a # b => low <= high
  <2>1. low = (IF a < b THEN from ELSE to) /\ high = (IF a < b THEN to ELSE from)
    OBVIOUS
  <2> HIDE DEF a, b, low, high
  <2> QED
    BY <1>1, <1>2, <1>3, <2>1
<1>5. low \in 1 .. Len(laid) /\ high \in 1 .. Len(laid)
  BY <1>1
<1>6. Distance(from, to) = IF a = b THEN 0 ELSE SumTo(Sizes, high - 1) - SumTo(Sizes, low - 1)
  BY DEF Distance
<1> HIDE DEF a, b, low, high
<1>7. CASE a # b
  <2>1. high - 1 \in Nat /\ low - 1 \in Nat /\ low - 1 <= high - 1 /\ high - 1 <= Len(laid)
    BY <1>1, <1>4, <1>5, <1>7
  <2> DEFINE h == SumTo(Sizes, high - 1)
             l == SumTo(Sizes, low - 1)
             n == Len(laid)
             hh == high - 1
             ll == low - 1
  <2>2. /\ n \in Nat /\ Numbers(Sizes, n) /\ hh \in Nat /\ ll \in Nat /\ ll <= hh /\ hh <= n
        /\ h = SumTo(Sizes, hh) /\ l = SumTo(Sizes, ll)
    BY <1>1, <2>1
  <2> HIDE DEF h, l, n, hh, ll
  <2>3. l \in Nat /\ h \in Nat /\ l <= h
    BY <2>2, SumGrows
  <2>4. h - l \in Nat
    BY <2>3
  <2> QED
    BY <1>6, <1>7, <2>4 DEF h, l
<1>8. CASE a = b
  BY <1>6, <1>8
<1> QED
  BY <1>7, <1>8

\* A step that leaves the lines where they are laid out.
Rest ==
  /\ UNCHANGED <<slots, lines>> /\ UNCHANGED <<slots, align>> /\ UNCHANGED <<size, isLoaded, cache>>
Rows ==
  /\ Sequence(laid') /\ Len(laid') = Len(laid) /\ DOMAIN laid' = DOMAIN laid
  /\ \A k \in DOMAIN laid : laid'[k].pre = laid[k].pre /\ laid'[k].size = laid[k].size /\ laid'[k].ptr = laid[k].ptr

LEMMA RowsKept ==
  ASSUME LayoutInv, Rest, Rows, \A k \in DOMAIN laid : RowOK(lines[k], laid[k])', LaidLen', Within'
  PROVE  LayoutInv'
<1>1. lines' = lines /\ (\A m : Load(m)' = Load(m)) /\ UNCHANGED <<size, isLoaded, cache>>
  <2>1. UNCHANGED slots /\ lines' = lines
    BY DEF Rest
  <2> QED
    BY <2>1, SlotsSame DEF Rest
<1>2. Sizes' = Sizes
  BY DEF Rows, Sizes
<1>3. \A k : Address(k)' = Address(k)
  BY <1>2 DEF Address
<1>4. ASSUME NEW m, NEW k, LoadedBy(m, k) PROVE LoadedBy(m, k)'
  <2>1. PICK c \in 1 .. k : c \in DOMAIN laid /\ lines[c].mod = m /\ \E j \in DOMAIN laid[c].pre : laid[c].pre[j] = Load(m)
    BY <1>4 DEF LoadedBy
  <2>2. c \in DOMAIN laid' /\ laid'[c].pre = laid[c].pre /\ lines'[c].mod = m /\ Load(m)' = Load(m)
    BY <1>1, <2>1 DEF Rows
  <2> QED
    BY <2>1, <2>2 DEF LoadedBy
<1>5. \A k \in DOMAIN laid' : RowOK(lines[k], laid[k])' /\ (laid[k].ptr = Address(k))' /\ Provided(k)'
  <2> SUFFICES ASSUME NEW k \in DOMAIN laid'
               PROVE  RowOK(lines[k], laid[k])' /\ (laid[k].ptr = Address(k))' /\ Provided(k)'
    OBVIOUS
  <2>1. k \in DOMAIN laid
    BY DEF Rows
  <2>2. laid[k].ptr = Address(k) /\ Provided(k)
    BY <2>1 DEF LayoutInv
  <2>3. Provided(k)'
    BY <1>1, <1>4, <2>2 DEF Provided
  <2> QED
    BY <1>3, <2>1, <2>2, <2>3 DEF Rows
<1>6. \A m \in Loadable : isLoaded'[m] => LoadedBy(m, Len(laid))'
  BY <1>1, <1>4 DEF LayoutInv, Rows
<1>7. CacheOK(cache)'
  <2>1. Modules' = Modules
    BY <1>1 DEF Modules, Lines
  <2> QED
    BY <1>1, <2>1 DEF CacheOK, LayoutInv
<1>8. Sequence(laid') /\ size' = SumTo(Sizes', Len(laid')) % Span /\ isLoaded' \in Flags
  BY <1>1, <1>2 DEF LayoutInv, Rows
<1> QED
  BY <1>5, <1>6, <1>7, <1>8 DEF LayoutInv, Within

LEMMA LaidSame ==
  ASSUME LayoutInv, Rest, laid' = laid, LaidLen', Within'
  PROVE  LayoutInv'
<1>1. Rows
  BY DEF Rows, LayoutInv
<1>2. ASSUME NEW k \in DOMAIN laid PROVE RowOK(lines[k], laid[k])'
  <2>1. RowOK(lines[k], laid[k])
    BY DEF LayoutInv
  <2>2. RowOK(lines[k], laid[k])'
    <3>1. UNCHANGED <<slots, align>> /\ lines' = lines
      BY DEF Rest
    <3> QED
      BY <2>1, <3>1, RowSame
  <2> QED
    BY <2>2
<1> QED
  BY <1>1, <1>2, RowsKept

LEMMA RowExcept ==
  ASSUME NEW row, {"pre", "main", "size", "ptr"} \subseteq DOMAIN row, NEW new, NEW out, out = [row EXCEPT !.main = new]
  PROVE  /\ DOMAIN out = DOMAIN row /\ out.main = new
         /\ out.pre = row.pre /\ out.size = row.size /\ out.ptr = row.ptr
OBVIOUS

\* The instruction of a line is replaced by one of the same length.
LEMMA MainReplaced ==
  ASSUME GivenOK, ParseInv, SlotInv, LayoutInv, Rest, NEW k \in DOMAIN laid, NEW new, MainOK(lines[k], new),
         Len(new.args) = Len(laid[k].main.args), laid' = [laid EXCEPT ![k].main = new], LaidLen', Within'
  PROVE  LayoutInv'
<1> DEFINE out == [laid[k] EXCEPT !.main = new]
<1>1. RowOK(lines[k], laid[k])
  BY DEF LayoutInv
<1>2. /\ DOMAIN out = DOMAIN laid[k] /\ out.main = new
      /\ out.pre = laid[k].pre /\ out.size = laid[k].size /\ out.ptr = laid[k].ptr
  BY <1>1, RowExcept DEF RowOK
<1>3. laid' = [laid EXCEPT ![k] = out]
  OBVIOUS
<1> HIDE DEF out
<1>4. DOMAIN laid' = DOMAIN laid /\ laid'[k] = out /\ \A n \in DOMAIN laid : n # k => laid'[n] = laid[n]
  BY <1>3
<1>5. Rows
  <2>1. DOMAIN laid = 1 .. Len(laid) /\ Len(laid) \in Nat /\ laid = [j \in 1 .. Len(laid) |-> laid[j]]
    BY SequenceIs DEF LayoutInv
  <2>2. laid' = [j \in 1 .. Len(laid) |-> laid'[j]]
    BY <1>3, <2>1
  <2>3. Sequence(laid') /\ Len(laid') = Len(laid)
    BY <2>1, <2>2, MapIs
  <2> QED
    BY <1>2, <1>4, <2>3 DEF Rows
<1>6. Reserved(out.pre, new) = Reserved(laid[k].pre, laid[k].main)
  <2>1. LineSize(new) = LineSize(laid[k].main)
    BY DEF LineSize
  <2> QED
    BY <1>2, <2>1 DEF Reserved
<1>7. RowOK(lines[k], out)
  BY <1>1, <1>2, <1>6 DEF RowOK
<1>8. \A n \in DOMAIN laid : RowOK(lines[n], laid'[n])
  BY <1>4, <1>7 DEF LayoutInv
<1>9. ASSUME NEW n \in DOMAIN laid PROVE RowOK(lines[n], laid[n])'
  <2>1. RowOK(lines[n], laid'[n])
    BY <1>8
  <2>2. UNCHANGED <<slots, align>> /\ lines' = lines
    BY DEF Rest
  <2> QED
    BY <2>1, <2>2, RowSame
<1> QED
  BY <1>5, <1>9, RowsKept

LEMMA ResolveKeeps ==
  ASSUME GivenOK, ParseInv, SlotInv, LayoutInv, Resolve
  PROVE  LayoutInv'
<1> DEFINE line == lines[i]
           j == Max(LabelArgs(line))
           label == line.args[j].text
           to == labels[label]
           main == laid[i].main
<1>1. /\ phase = "resolve" /\ i \in Lines /\ Rest
      /\ phase' \in {"resolve", "failed", "crash"} /\ (i' = i \/ i' = i + 1)
      /\ \/ laid' = laid
         \/ /\ LabelArgs(line) # {} /\ label \in DOMAIN labels /\ line.mod = ""
            /\ line.op = "THREAD_START" /\ laid' = [laid EXCEPT ![i].main = ThreadStart(i, to)]
         \/ /\ LabelArgs(line) # {} /\ label \in DOMAIN labels /\ line.mod = ""
            /\ line.op \in Jumps /\ ~Misled(i, to) /\ laid' = [laid EXCEPT ![i].main = Jump(i, to)]
  BY DEF Resolve, Rest, slots, parsed, given
<1>2. Slotted /\ Slotted' /\ UNCHANGED slots
  <2>1. Slotted
    BY <1>1 DEF SlotInv
  <2> QED
    BY <1>1, <2>1 DEF Slotted, slots, Rest
<1>3. Len(laid) = Len(lines) /\ i \in DOMAIN laid /\ DOMAIN laid = Lines
  <2>1. Len(laid) = Len(lines)
    BY <1>1, <1>2 DEF LayoutInv, LaidLen
  <2> QED
    BY <1>1, <2>1, LaidIs
<1>4. ASSUME Len(laid') = Len(laid) PROVE LaidLen' /\ Within'
  <2>1. lines' = lines /\ phase' \notin {"layout", "overflow"}
    BY <1>1 DEF Rest
  <2> QED
    BY <1>2, <1>3, <1>4, <2>1 DEF LaidLen, Within
<1>5. CASE laid' = laid
  BY <1>1, <1>4, <1>5, LaidSame
<1>6. ASSUME NEW val \in Nat, NEW op, Becomes(op, line), LabelArgs(line) # {}, line.mod = "",
             NEW put, put = Put(op, main.args, j, val), laid' = [laid EXCEPT ![i].main = put]
      PROVE  LayoutInv'
  <2> DEFINE ln == lines[i]
             at1 == Max(LabelArgs(lines[i]))
             old == laid[i].main
  <2>1. Labelled(ln, at1)
    <3>1. at1 \in DOMAIN ln.args /\ ln.args[at1].kind = "label"
      BY <1>1, <1>6, LabelIs
    <3>2. Sequence(ln.args)
      BY <1>1 DEF ParseInv, LineOK, Lines
    <3>3. Len(ModuleArgs(ln)) = 0
      BY <1>1, <1>2, <1>6, ModuleArgsIs
    <3>4. ln.mod = ""
      BY <1>6
    <3>5. DOMAIN ln.args = 1 .. Len(ln.args) /\ Len(ln.args) \in Nat
      BY <3>2, SequenceIs
    <3> QED
      BY <3>1, <3>3, <3>4, <3>5 DEF Labelled
  <2>2. MainOK(ln, old)
    BY <1>3 DEF LayoutInv, RowOK
  <2>3. Becomes(op, ln) /\ put = Put(op, old.args, at1, val)
    BY <1>6
  <2> HIDE DEF ln, at1, old
  <2>4. MainOK(ln, put) /\ Len(put.args) = Len(old.args)
    BY <2>1, <2>2, <2>3, WordPut
  <2>5. MainOK(lines[i], put) /\ Len(put.args) = Len(laid[i].main.args)
    BY <2>4 DEF ln, old
  <2>6. LaidLen' /\ Within'
    <3>1. DOMAIN laid = 1 .. Len(laid) /\ Len(laid) \in Nat /\ laid = [n \in 1 .. Len(laid) |-> laid[n]]
      BY SequenceIs DEF LayoutInv
    <3>2. laid' = [n \in 1 .. Len(laid) |-> laid'[n]]
      BY <1>6, <3>1
    <3>3. Len(laid') = Len(laid)
      BY <3>1, <3>2, MapIs
    <3> QED
      BY <1>4, <3>3
  <2>7. laid' = [laid EXCEPT ![i].main = put]
    BY <1>6
  <2> QED
    BY <1>1, <1>3, <2>5, <2>6, <2>7, MainReplaced
<1>7. CASE label \in DOMAIN labels /\ LabelArgs(line) # {} /\ line.mod = ""
  <2>1. to \in DOMAIN laid
    BY <1>3, <1>7 DEF ParseInv, Lines
  <2>2. MainOK(line, main) /\ main = [op |-> main.op, args |-> main.args]
    BY <1>3 DEF LayoutInv, RowOK, MainOK, Emittable
  <2>3. CASE line.op = "THREAD_START" /\ laid' = [laid EXCEPT ![i].main = ThreadStart(i, to)]
    <3>1. Becomes(main.op, line)
      BY <1>7, <2>2 DEF MainOK, Emittable, Becomes
    <3>2. laid[to].ptr \in Nat
      <4>1. laid[to].ptr = Address(to)
        BY <2>1 DEF LayoutInv
      <4>2. Address(to) \in 0 .. Span - 1
        BY <2>1, AddressIs
      <4> QED
        BY <4>1, <4>2, SpanIs
    <3>3. ThreadStart(i, to) = Put(main.op, main.args, j, laid[to].ptr)
      BY <2>2 DEF ThreadStart, Put
    <3> QED
      BY <1>6, <1>7, <2>3, <3>1, <3>2, <3>3
  <2>4. CASE line.op \in Jumps /\ ~Misled(i, to) /\ laid' = [laid EXCEPT ![i].main = Jump(i, to)]
    <3> DEFINE op == IF lines[i].num > lines[to].num THEN Back[lines[i].op] ELSE Forward[lines[i].op]
    <3>1. op \in Forwards \cup Backs
      BY <2>4 DEF Forwards, Backs
    <3>2. Becomes(op, line)
      BY <3>1, Offered DEF Becomes
    <3>3. Distance(i, to) \in Nat
      BY <1>3, <2>1, <2>4, DistanceIs
    <3>4. Jump(i, to) = Put(op, main.args, j, Distance(i, to))
      BY DEF Jump, Put
    <3> HIDE DEF op
    <3> QED
      BY <1>6, <1>7, <2>4, <3>2, <3>3, <3>4
  <2> QED
    BY <1>1, <1>5, <2>3, <2>4
<1> QED
  BY <1>1, <1>5, <1>7

LEMMA Nothing == <<>> \in Seq({}) /\ Sequence(<<>>) /\ Len(<<>>) = 0 /\ DOMAIN <<>> = {}
<1>1. <<>> \in Seq({}) /\ Len(<<>>) = 0 /\ DOMAIN <<>> = {}
  BY EmptySeq
<1>2. Sequence(<<>>)
  BY <1>1, IsSequence
<1> QED
  BY <1>1, <1>2

\* As long as nothing is laid out.
Bare ==
  /\ laid = <<>> /\ size = 0 /\ CacheOK(cache)
  /\ isLoaded \in Flags /\ \A m \in Loadable : ~isLoaded[m]
  /\ Slotted => phase = "layout" /\ i = 1

LEMMA BareIs ==
  ASSUME Bare, Sequence(lines)
  PROVE  LayoutInv
<1>1. laid = <<>> /\ Len(laid) = 0 /\ Sequence(laid) /\ DOMAIN laid = {}
  BY Nothing DEF Bare
<1>2. LaidLen
  BY <1>1 DEF Bare, LaidLen
<1>3. size = SumTo(Sizes, Len(laid)) % Span
  <2>1. SumTo(Sizes, Len(laid)) = 0
    BY <1>1, SumZero
  <2>2. 0 % Span = 0
    BY SpanIs
  <2> QED
    BY <2>1, <2>2 DEF Bare
<1>4. Slotted /\ phase \in {"layout", "overflow"} => i <= Len(lines) + 1
  <2>1. Len(lines) \in Nat
    BY SequenceIs
  <2> QED
    BY <2>1 DEF Bare
<1>5. isLoaded \in Flags /\ \A m \in Loadable : isLoaded[m] => LoadedBy(m, Len(laid))
  BY DEF Bare
<1>6. \A k \in DOMAIN laid : RowOK(lines[k], laid[k]) /\ laid[k].ptr = Address(k) /\ Provided(k)
  BY <1>1
<1> QED
  BY <1>1, <1>2, <1>3, <1>4, <1>5, <1>6 DEF LayoutInv, Bare

LEMMA IsBare ==
  ASSUME SlotInv, LayoutInv, ~Slotted
  PROVE  laid = <<>> /\ size = 0 /\ CacheOK(cache) /\ isLoaded \in Flags /\ \A m \in Loadable : ~isLoaded[m]
<1>1. laid = <<>> /\ Len(laid) = 0
  BY Nothing DEF SlotInv
<1>2. size = 0
  <2>1. SumTo(Sizes, Len(laid)) = 0
    BY <1>1, SumZero
  <2>2. 0 % Span = 0
    BY SpanIs
  <2> QED
    BY <2>1, <2>2 DEF LayoutInv
<1>3. \A m : ~LoadedBy(m, Len(laid))
  <2>1. DOMAIN laid = {}
    BY <1>1, Nothing
  <2> QED
    BY <2>1 DEF LoadedBy
<1> QED
  BY <1>1, <1>2, <1>3 DEF LayoutInv

LEMMA CacheWider ==
  ASSUME CacheOK(cache), Modules \subseteq Modules', cache' = cache
  PROVE  CacheOK(cache)'
BY DEF CacheOK

LEMMA LayoutInit == Init => LayoutInv
<1> SUFFICES ASSUME Init PROVE LayoutInv
  OBVIOUS
<1>1. lines = <<>> /\ laid = <<>> /\ size = 0 /\ regSlot = <<>> /\ isLoaded = [m \in Loadable |-> FALSE] /\ cache = Fresh
  BY DEF Init
<1>2. CacheOK(Fresh)
  <2> DEFINE e == <<>>
  <2>1. Sequence(e) /\ Len(e) = 0 /\ DOMAIN e = {}
    BY Nothing
  <2>2. /\ {"first", "last", "prev", "data", "count", "map"} \subseteq DOMAIN Fresh
        /\ Fresh.data = e /\ Fresh.count = 0
    BY DEF Fresh
  <2> HIDE DEF e
  <2>3. ToSet(e) \subseteq Modules
    BY <2>1 DEF ToSet
  <2> QED
    BY <2>1, <2>2, <2>3 DEF CacheOK
<1>3. ~Slotted
  BY <1>1, Nothing DEF Slotted
<1>4. isLoaded \in Flags /\ \A m \in Loadable : ~isLoaded[m]
  BY <1>1 DEF Flags
<1>5. Sequence(lines)
  BY <1>1, Nothing
<1>6. Bare
  BY <1>1, <1>2, <1>3, <1>4 DEF Bare
<1> QED
  BY <1>5, <1>6, BareIs

LEMMA LayoutNext ==
  ASSUME GivenOK, ParseInv, SlotInv, LayoutInv, [Next \/ Stopped]_vars, ParseInv', SlotInv'
  PROVE  LayoutInv'
<1>1. CASE ParseLine \/ ParseEnds \/ Flatten
  <2>1. /\ phase \in {"parse", "flatten"} /\ UNCHANGED layout
        /\ Slotted' => phase' = "layout" /\ i' = 1
    <3>1. CASE ParseLine \/ ParseEnds
      <4>1. phase = "parse" /\ UNCHANGED <<layout, regSlot>>
        BY <3>1 DEF ParseLine, ParseEnds, slots
      <4>2. ~Slotted'
        BY <4>1 DEF SlotInv, Slotted
      <4> QED
        BY <4>1, <4>2
    <3>2. CASE Flatten
      <4>1. phase = "flatten" /\ UNCHANGED layout
        BY <3>2 DEF Flatten
      <4>2. (phase' = "layout" /\ i' = 1) \/ UNCHANGED slots
        BY <3>2 DEF Flatten
      <4>3. UNCHANGED slots => ~Slotted'
        BY <4>1 DEF SlotInv, Slotted, slots
      <4> QED
        BY <4>1, <4>2, <4>3
    <3> QED
      BY <1>1, <3>1, <3>2
  <2>2. Modules \subseteq Modules'
    <3>1. CASE lines' = lines
      BY <3>1 DEF Modules, Lines
    <3>2. CASE \E x : lines' = Append(lines, x)
      <4>1. PICK x : lines' = Append(lines, x)
        BY <3>2
      <4>2. \A k \in Lines : k \in Lines' /\ lines'[k] = lines[k]
        BY <4>1, AppendIs DEF ParseInv, Lines
      <4>3. \A k \in Lines : k \in Lines' /\ lines'[k].mod = lines[k].mod
        BY <4>2
      <4> QED
        BY <4>3 DEF Modules
    <3>3. lines' = lines \/ \E x : lines' = Append(lines, x)
      BY <1>1 DEF ParseLine, ParseEnds, Flatten, Accept, Refuse, parsed
    <3> QED
      BY <3>1, <3>2, <3>3
  <2>3. ~Slotted
    BY <2>1 DEF SlotInv
  <2>4. laid = <<>> /\ size = 0 /\ CacheOK(cache) /\ isLoaded \in Flags /\ \A m \in Loadable : ~isLoaded[m]
    BY <2>3, IsBare
  <2>5. CacheOK(cache)'
    BY <2>1, <2>2, <2>4, CacheWider DEF layout
  <2>6. Bare'
    BY <2>1, <2>4, <2>5 DEF Bare, layout
  <2>7. Sequence(lines)'
    BY DEF ParseInv
  <2> QED
    BY <2>6, <2>7, BareIs, PTL
<1>2. CASE Layout
  BY <1>2, LayoutKeeps
<1>3. CASE Resolve
  BY <1>3, ResolveKeeps
<1>4. CASE LayoutEnds \/ Write \/ Exec
  <2>1. /\ UNCHANGED <<given, parsed, slots>> /\ UNCHANGED layout
        /\ phase \in {"layout", "resolve", "run"} /\ phase' \notin {"layout", "overflow"}
    <3>1. CASE LayoutEnds
      BY <3>1 DEF LayoutEnds
    <3>2. CASE Write
      BY <3>2 DEF Write
    <3>3. CASE Exec
      BY <3>3, ExecKeeps DEF Outcomes
    <3> QED
      BY <1>4, <3>1, <3>2, <3>3
  <2>2. Rest /\ laid' = laid
    BY <2>1 DEF Rest, given, parsed, slots, layout
  <2>3. Slotted /\ Slotted'
    <3>1. Slotted
      BY <2>1 DEF SlotInv
    <3> QED
      BY <2>1, <3>1 DEF Slotted, slots
  <2>4. Len(laid) = Len(lines)
    <3>1. CASE phase = "layout"
      <4>1. i \notin Lines
        BY <1>4, <3>1, ExecKeeps DEF LayoutEnds, Write
      <4>2. Lines = 1 .. Len(lines) /\ Len(lines) \in Nat
        BY LaidIs
      <4>3. i \in Nat /\ i >= 1
        <5>1. Len(text) \in Nat
          BY GivenIs, SequenceIs
        <5> QED
          BY <5>1 DEF ParseInv
      <4>4. i <= Len(lines) + 1 /\ Len(laid) = i - 1
        BY <2>3, <3>1 DEF LayoutInv, LaidLen
      <4> QED
        BY <4>1, <4>2, <4>3, <4>4
    <3>2. CASE phase # "layout"
      BY <2>1, <2>3, <3>2 DEF LayoutInv, LaidLen
    <3> QED
      BY <3>1, <3>2
  <2>5. LaidLen' /\ Within'
    BY <2>1, <2>2, <2>3, <2>4 DEF LaidLen, Within, Rest
  <2> QED
    BY <2>2, <2>5, LaidSame
<1>5. CASE UNCHANGED vars
  <2>1. Rest /\ laid' = laid /\ (Slotted' <=> Slotted) /\ UNCHANGED <<phase, i, lines>>
    BY <1>5 DEF vars, Rest, given, parsed, slots, layout, Slotted
  <2>2. LaidLen' /\ Within'
    BY <2>1 DEF LayoutInv, LaidLen, Within
  <2> QED
    BY <2>1, <2>2, LaidSame
<1> QED
  BY <1>1, <1>2, <1>3, <1>4, <1>5 DEF Next, Stopped, Exec

-----------------------------------------------------------------------------
\* The slots an instruction names.

LaidOut == GivenOK /\ ParseInv /\ SlotInv /\ LayoutInv

LEMMA LaidOutInit == Init => LaidOut
<1> SUFFICES ASSUME Init PROVE LaidOut
  OBVIOUS
<1> QED
  BY ParseInit, SlotInit, LayoutInit DEF LaidOut

LEMMA LaidOutNext ==
  ASSUME LaidOut, [Next \/ Stopped]_vars
  PROVE  LaidOut'
<1>1. GivenOK' /\ ParseInv'
  BY ParseNext DEF LaidOut
<1>2. SlotInv'
  BY SlotNext DEF LaidOut
<1>3. LayoutInv'
  BY <1>1, <1>2, LayoutNext DEF LaidOut
<1> QED
  BY <1>1, <1>2, <1>3 DEF LaidOut

\* Whatever order the sorts leave, the slot an instruction names holds, in the
\* lists that are emitted, the register or constant the line names.
THEOREM SlotsNameTheirLines == Spec => []NamesResolve
<1>1. LaidOut => NamesResolve
  <2> SUFFICES ASSUME LaidOut, NEW k \in DOMAIN laid PROVE MainOK(lines[k], laid[k].main)
    BY DEF NamesResolve, MainOK
  <2> QED
    BY DEF LaidOut, LayoutInv, RowOK
<1> QED
  BY <1>1, LaidOutInit, LaidOutNext, PTL DEF Spec

-----------------------------------------------------------------------------
\* The stream of instructions.

LEMMA NopIs == [op |-> "NOP", args |-> <<>>] \in Written
<1> DEFINE e == <<>>
           ins == [op |-> "NOP", args |-> e]
<1>1. e \in Seq(ArgType) /\ Len(e) = 0
  BY EmptySeq
<1> HIDE DEF e
<1>2. ins.op = "NOP" /\ ins.args = e /\ ins = [op |-> ins.op, args |-> ins.args]
  BY TwoFields
<1> HIDE DEF ins
<1>3. Emittable(ins)
  <2>1. 0 <= MaxArgs
    BY OpcodesOK
  <2> QED
    BY <1>1, <1>2, <2>1, Offered DEF Emittable
<1>4. ins \in Written
  BY <1>3, WrittenIs
<1> QED
  BY <1>4 DEF ins, e

LEMMA WrittenArgs ==
  ASSUME NEW ins \in Written
  PROVE  Len(ins.args) \in Nat /\ Bytes(Len(ins.args)) \in Nat /\ Bytes(Len(ins.args)) > 0
<1>1. Len(ins.args) \in Nat
  BY LenProperties DEF Written
<1> QED
  BY <1>1, BytesIs

LEMMA PaddedIs ==
  ASSUME align \in Nat, NEW ins \in Written
  PROVE  Padded(ins) \in Seq(Written)
<1> DEFINE b == Bytes(Len(ins.args))
           nop == [op |-> "NOP", args |-> <<>>]
           pad == Padding(b)
           m == Nops(b)
<1>1. m \in Nat
  BY WrittenArgs, NopsIs
<1>2. pad = [n \in 1 .. m |-> nop]
  BY DEF Padding
<1>3. nop \in Written
  BY NopIs
<1> HIDE DEF m, nop, pad
<1>4. pad \in [1 .. m -> Written]
  BY <1>2, <1>3
<1>5. pad \in Seq(Written)
  BY <1>1, <1>4, SeqDef
<1> DEFINE one == <<ins>>
<1>6. one \in Seq(Written)
  BY Single
<1>7. Padded(ins) = one \o pad
  BY DEF Padded, pad
<1> HIDE DEF one
<1> QED
  BY <1>5, <1>6, <1>7, ConcatIs

LEMMA MapSeq ==
  ASSUME NEW A, NEW n \in Nat, NEW f, f = [j \in 1 .. n |-> f[j]], \A j \in 1 .. n : f[j] \in A
  PROVE  f \in Seq(A) /\ Len(f) = n
<1>1. f \in [1 .. n -> A]
  OBVIOUS
<1> QED
  BY <1>1, SeqDef, MapIs

PreParts(l) == [n \in DOMAIN l.pre |-> Padded(l.pre[n])]

LEMMA PrePartsIs ==
  ASSUME align \in Nat, NEW l, l.pre \in Seq(Written)
  PROVE  PreParts(l) \in Seq(Seq(Written)) /\ Len(PreParts(l)) = Len(l.pre)
<1> DEFINE p == PreParts(l)
           n == Len(l.pre)
<1>1. n \in Nat /\ DOMAIN l.pre = 1 .. n /\ \A j \in 1 .. n : l.pre[j] \in Written
  BY LenProperties
<1>2. p = [j \in 1 .. n |-> Padded(l.pre[j])]
  BY <1>1 DEF PreParts
<1> HIDE DEF n, p
<1>3. p = [j \in 1 .. n |-> p[j]] /\ \A j \in 1 .. n : p[j] = Padded(l.pre[j])
  BY <1>2
<1>4. \A j \in 1 .. n : p[j] \in Seq(Written)
  BY <1>1, <1>3, PaddedIs
<1> QED
  BY <1>1, <1>3, <1>4, MapSeq DEF n, p

LEMMA EmittedIs ==
  ASSUME align \in Nat, NEW l, l.pre \in Seq(Written), l.main \in Written
  PROVE  Emitted(l) \in Seq(Written)
<1> DEFINE f == FlattenSeq(PreParts(l))
           p == Padded(l.main)
<1>1. f \in Seq(Written)
  BY PrePartsIs, FlattenIs
<1>2. p \in Seq(Written)
  BY PaddedIs
<1>3. Emitted(l) = f \o p
  BY DEF Emitted, PreParts
<1> HIDE DEF f, p
<1> QED
  BY <1>1, <1>2, <1>3, ConcatIs

\* What each line becomes.
Pieces == [k \in DOMAIN laid |-> Emitted(laid[k])]

LEMMA PiecesAre ==
  ASSUME LaidOut
  PROVE  /\ Pieces \in Seq(Seq(Written)) /\ Len(Pieces) = Len(laid)
         /\ \A k \in DOMAIN laid : Pieces[k] = Emitted(laid[k]) /\ Pieces[k] \in Seq(Written)
<1> DEFINE n == Len(laid)
           p == Pieces
<1>1. n \in Nat /\ DOMAIN laid = 1 .. n
  BY LaidIs DEF LaidOut
<1>2. align \in Nat
  BY GivenIs DEF LaidOut
<1>3. ASSUME NEW k \in DOMAIN laid PROVE Emitted(laid[k]) \in Seq(Written)
  <2>1. k \in Lines /\ Slotted /\ RowOK(lines[k], laid[k])
    BY LaidIs DEF LaidOut, LayoutInv
  <2>2. laid[k].pre \in Seq(Written) /\ laid[k].main \in Written
    BY <2>1, RowIs DEF LaidOut
  <2> QED
    BY <1>2, <2>2, EmittedIs
<1>4. p = [k \in 1 .. n |-> Emitted(laid[k])]
  BY <1>1 DEF Pieces
<1> HIDE DEF n, p
<1>5. p = [k \in 1 .. n |-> p[k]] /\ \A k \in 1 .. n : p[k] = Emitted(laid[k]) /\ p[k] \in Seq(Written)
  BY <1>1, <1>3, <1>4
<1>6. p \in Seq(Seq(Written)) /\ Len(p) = n
  BY <1>1, <1>5, MapSeq
<1> QED
  BY <1>1, <1>5, <1>6 DEF n, p

\* The sizes of the instructions of a stream, in bytes.
Widths(s) == [j \in DOMAIN s |-> Bytes(Len(s[j].args))]

LEMMA WidthsAre ==
  ASSUME NEW s \in Seq(Written)
  PROVE  /\ Numbers(Widths(s), Len(s)) /\ Len(s) \in Nat /\ DOMAIN s = 1 .. Len(s)
         /\ \A j \in 1 .. Len(s) : Widths(s)[j] = Bytes(Len(s[j].args)) /\ Widths(s)[j] \in Nat /\ Widths(s)[j] > 0
         /\ \A n : Start(s, n) = EntryPoint + SumTo(Widths(s), n - 1)
<1>1. Len(s) \in Nat /\ DOMAIN s = 1 .. Len(s) /\ \A j \in 1 .. Len(s) : s[j] \in Written
  BY LenProperties
<1>2. \A j \in 1 .. Len(s) : Widths(s)[j] = Bytes(Len(s[j].args)) /\ Widths(s)[j] \in Nat /\ Widths(s)[j] > 0
  BY <1>1, WrittenArgs DEF Widths
<1>3. Numbers(Widths(s), Len(s))
  BY <1>2 DEF Numbers
<1> QED
  BY <1>1, <1>2, <1>3 DEF Start, Widths

LEMMA StartIs ==
  ASSUME NEW s \in Seq(Written), NEW n \in 1 .. Len(s) + 1
  PROVE  Start(s, n) \in Nat /\ Start(s, n) >= EntryPoint
<1>1. n - 1 \in Nat /\ n - 1 <= Len(s) /\ Len(s) \in Nat
  BY LenProperties
<1>2. SumTo(Widths(s), n - 1) \in Nat
  BY <1>1, WidthsAre, NumbersLess, SumNat
<1> DEFINE x == SumTo(Widths(s), n - 1)
<1>3. x \in Nat /\ Start(s, n) = EntryPoint + x
  BY <1>2, WidthsAre
<1> HIDE DEF x
<1> QED
  BY <1>3, SpanIs

\* Each instruction begins where the one before it ends.
LEMMA StartNext ==
  ASSUME NEW s \in Seq(Written), NEW n \in 1 .. Len(s)
  PROVE  Start(s, n + 1) = Start(s, n) + Bytes(Len(s[n].args)) /\ Start(s, n + 1) > Start(s, n)
<1> DEFINE w == Widths(s)
           m == n - 1
<1>1. Len(s) \in Nat /\ m \in Nat /\ m + 1 = n /\ n <= Len(s) /\ (n + 1) - 1 = n
  BY LenProperties
<1>2. Numbers(w, m + 1)
  BY <1>1, WidthsAre, NumbersLess
<1> HIDE DEF w
<1>3. SumTo(w, m + 1) = SumTo(w, m) + w[m + 1]
  BY <1>1, <1>2, SumNext
<1>4. Start(s, n + 1) = EntryPoint + SumTo(w, n) /\ Start(s, n) = EntryPoint + SumTo(w, m)
  BY <1>1, WidthsAre DEF w
<1>5. w[n] = Bytes(Len(s[n].args)) /\ w[n] \in Nat /\ w[n] > 0
  BY WidthsAre DEF w
<1> DEFINE x == SumTo(w, m)
           y == w[n]
<1>6. x \in Nat
  BY <1>1, <1>2, NumbersLess, SumNat
<1>7. Start(s, n + 1) = EntryPoint + (x + y) /\ Start(s, n) = EntryPoint + x
  BY <1>1, <1>3, <1>4
<1>8. y \in Nat /\ y > 0 /\ y = Bytes(Len(s[n].args))
  BY <1>5
<1> HIDE DEF x, y
<1>9. EntryPoint + (x + y) = (EntryPoint + x) + y /\ EntryPoint + (x + y) > EntryPoint + x
  BY <1>6, <1>8, SpanIs
<1> QED
  BY <1>7, <1>8, <1>9

LEMMA StartGrows ==
  ASSUME NEW s \in Seq(Written), NEW a \in 1 .. Len(s) + 1, NEW b \in 1 .. Len(s) + 1, a < b
  PROVE  Start(s, a) < Start(s, b)
<1> DEFINE w == Widths(s)
           n == Len(s)
           u == b - 1
<1>1. n \in Nat /\ Numbers(w, n)
  BY WidthsAre
<1>2. a \in 1 .. Len(s)
  BY <1>1
<1>3. Start(s, a + 1) > Start(s, a)
  BY <1>2, StartNext
<1>4. Start(s, a + 1) = EntryPoint + SumTo(w, a) /\ Start(s, b) = EntryPoint + SumTo(w, u)
  <2>1. (a + 1) - 1 = a
    BY <1>2
  <2> QED
    BY <2>1, WidthsAre
<1>5. a \in Nat /\ u \in Nat /\ a <= u /\ u <= n
  BY <1>1
<1> HIDE DEF w, n, u
<1>6. SumTo(w, a) \in Nat /\ SumTo(w, u) \in Nat /\ SumTo(w, a) <= SumTo(w, u)
  BY <1>1, <1>5, SumGrows
<1> DEFINE x == SumTo(w, a)
           y == SumTo(w, u)
           p == Start(s, a)
           q == Start(s, b)
<1>7. x \in Nat /\ y \in Nat /\ x <= y /\ q = EntryPoint + y /\ EntryPoint + x > p /\ p \in Nat
  <2>1. p \in Nat
    BY StartIs
  <2> QED
    BY <1>3, <1>4, <1>6, <2>1
<1> HIDE DEF x, y, p, q
<1>8. p < q
  BY <1>7, SpanIs
<1> QED
  BY <1>8 DEF p, q

LEMMA StreamIs ==
  ASSUME LaidOut
  PROVE  Stream \in Seq(Written) /\ Laid(Stream, Pieces, Len(laid)) /\ Len(laid) \in Nat
<1>1. Stream = FlattenSeq(Pieces)
  BY DEF Stream, Pieces
<1> DEFINE p == Pieces
<1>2. p \in Seq(Seq(Written)) /\ Len(p) = Len(laid)
  BY PiecesAre
<1>3. FlattenSeq(p) \in Seq(Written) /\ Laid(FlattenSeq(p), p, Len(p))
  BY <1>2, FlattenIs
<1> HIDE DEF p
<1>4. Len(p) \in Nat
  BY <1>2, LenProperties
<1> QED
  BY <1>1, <1>2, <1>3, <1>4 DEF p

-----------------------------------------------------------------------------
\* Without padding.

LEMMA NopsNone ==
  ASSUME align \in Nat, WordAligned, NEW m \in Nat
  PROVE  Nops(m * WordBytes) = 0
<1>1. CASE align = 0
  BY <1>1 DEF Nops
<1>2. CASE align # 0
  <2> DEFINE a == align
             q == WordBytes \div a
             b == m * WordBytes
  <2>1. a \in Nat \ {0} /\ WordBytes \in Nat /\ WordBytes % a = 0
    BY <1>2, AssemblerOK DEF WordAligned
  <2>2. Nops(b) = (a - (b % a)) % a
    BY <1>2 DEF Nops
  <2> HIDE DEF a
  <2>3. q \in Nat /\ WordBytes = q * a
    BY <2>1
  <2> HIDE DEF q
  <2>4. b = (m * q) * a + 0 /\ m * q \in Nat
    <3>1. m * (q * a) = (m * q) * a /\ m * q \in Nat /\ (m * q) * a \in Nat
      BY <2>1, <2>3
    <3> QED
      BY <2>3, <3>1
  <2> HIDE DEF b
  <2>5. b % a = 0
    <3>1. 0 \in 0 .. a - 1
      BY <2>1
    <3> DEFINE c == m * q
    <3>2. c \in Nat /\ b = c * a + 0
      BY <2>4
    <3> HIDE DEF c
    <3> QED
      BY <2>1, <3>1, <3>2, DivisionIs
  <2>6. (a - 0) % a = 0
    BY <2>1
  <2> QED
    BY <2>2, <2>5, <2>6 DEF b
<1> QED
  BY <1>1, <1>2

LEMMA BytesNone ==
  ASSUME align \in Nat, WordAligned, NEW argc \in Nat
  PROVE  Nops(Bytes(argc)) = 0 /\ Nops((1 + argc) * WordBytes) = 0
<1>1. WordBytes \in Nat
  BY AssemblerOK
<1> DEFINE m == 1 + argc * 2
<1>2. m \in Nat /\ 1 + argc \in Nat
  OBVIOUS
<1>3. Bytes(argc) = m * WordBytes
  <2>1. m * WordBytes = WordBytes + argc * 2 * WordBytes
    BY <1>1
  <2> QED
    BY <2>1 DEF Bytes
<1> HIDE DEF m
<1>4. Nops(m * WordBytes) = 0 /\ Nops((1 + argc) * WordBytes) = 0
  BY <1>2, NopsNone
<1> QED
  BY <1>3, <1>4

LEMMA PaddedNone ==
  ASSUME align \in Nat, WordAligned, NEW ins \in Written
  PROVE  /\ Padded(ins) = <<ins>>
         /\ PreSize(ins) = Bytes(Len(ins.args)) /\ LineSize(ins) = Bytes(Len(ins.args))
<1> DEFINE n == Len(ins.args)
           b == Bytes(n)
           c == (1 + n) * WordBytes
           one == <<ins>>
           pad == Padding(b)
<1>1. n \in Nat /\ b \in Nat
  BY WrittenArgs
<1>2. Nops(b) = 0 /\ Nops(c) = 0
  BY <1>1, BytesNone
<1>3. PreSize(ins) = b + Nops(b) * WordBytes /\ LineSize(ins) = b + Nops(c) * WordBytes
  BY DEF PreSize, LineSize
<1>4. 0 * WordBytes = 0
  BY AssemblerOK
<1>5. pad = <<>>
  <2>1. pad = [k \in 1 .. 0 |-> [op |-> "NOP", args |-> <<>>]]
    BY <1>2 DEF Padding
  <2>2. pad \in [1 .. 0 -> Written]
    BY <2>1
  <2>3. pad \in Seq(Written) /\ Len(pad) = 0
    <3>1. pad \in Seq(Written)
      BY <2>2, SeqDef
    <3>2. DOMAIN pad = 1 .. 0
      BY <2>1
    <3>3. DOMAIN pad = 1 .. Len(pad) /\ Len(pad) \in Nat
      BY <3>1, LenProperties
    <3> HIDE DEF pad
    <3> QED
      BY <3>1, <3>2, <3>3
  <2> HIDE DEF pad
  <2> QED
    BY <2>3, NoElements
<1>6. Padded(ins) = one \o pad
  BY DEF Padded
<1>7. one \in Seq(Written)
  BY Single
<1> HIDE DEF one, pad, b, c
<1>8. one \o pad = one
  BY <1>5, <1>7, ConcatEmptySeq
<1>9. PreSize(ins) = b /\ LineSize(ins) = b
  BY <1>1, <1>2, <1>3, <1>4
<1> QED
  BY <1>6, <1>8, <1>9 DEF one, b

LEMMA SumOnes ==
  ASSUME NEW n \in Nat, NEW s, \A k \in 1 .. n : s[k] = 1
  PROVE  \A k \in 0 .. n : SumTo(s, k) = k
<1>1. Numbers(s, n)
  BY DEF Numbers
<1> DEFINE X == {k \in Nat : k <= n => SumTo(s, k) = k}
<1>2. 0 \in X
  BY SumZero
<1>3. ASSUME NEW k \in Nat, k \in X PROVE k + 1 \in X
  <2> SUFFICES ASSUME k + 1 <= n PROVE SumTo(s, k + 1) = k + 1
    OBVIOUS
  <2>1. Numbers(s, k + 1)
    BY <1>1, NumbersLess
  <2>2. SumTo(s, k + 1) = SumTo(s, k) + s[k + 1]
    BY <2>1, SumNext
  <2> QED
    BY <1>3, <2>2
<1> HIDE DEF X
<1>4. Nat \subseteq X
  BY <1>2, <1>3, Shared!InductionOnNat
<1> QED
  BY <1>4 DEF X

\* A sequence of single elements becomes the sequence of these.
LEMMA FlattenSingles ==
  ASSUME NEW A, NEW s \in Seq(A), NEW ss \in Seq(Seq(A)), Len(ss) = Len(s), \A j \in 1 .. Len(s) : ss[j] = <<s[j]>>
  PROVE  FlattenSeq(ss) = s
<1> DEFINE f == FlattenSeq(ss)
           n == Len(s)
           lens == Lens(ss)
<1>1. n \in Nat /\ s = [j \in 1 .. n |-> s[j]] /\ \A j \in 1 .. n : s[j] \in A
  BY LenProperties
<1>2. f \in Seq(A) /\ Laid(f, ss, n)
  BY FlattenIs
<1>3. \A k \in 1 .. n : Len(ss[k]) = 1 /\ ss[k][1] = s[k] /\ lens[k] = 1
  <2> SUFFICES ASSUME NEW k \in 1 .. n PROVE Len(ss[k]) = 1 /\ ss[k][1] = s[k] /\ lens[k] = 1
    OBVIOUS
  <2>1. ss[k] = <<s[k]>>
    OBVIOUS
  <2>2. Len(ss[k]) = 1 /\ ss[k][1] = s[k]
    BY <1>1, <2>1, Single
  <2>3. lens[k] = Len(ss[k])
    BY LensIs
  <2> QED
    BY <2>2, <2>3
<1> HIDE DEF f, n, lens
<1>4. \A k \in 0 .. n : SumTo(lens, k) = k
  BY <1>1, <1>3, SumOnes
<1>5. Len(f) = n
  <2>1. Len(f) = SumTo(lens, n)
    BY <1>2 DEF Laid, lens
  <2> QED
    BY <1>1, <1>4, <2>1
<1>6. ASSUME NEW k \in 1 .. n PROVE f[k] = s[k]
  <2>1. \A j \in 1 .. Len(ss[k]) : f[SumTo(lens, k - 1) + j] = ss[k][j]
    BY <1>2 DEF Laid, lens
  <2>2. Len(ss[k]) = 1 /\ ss[k][1] = s[k]
    BY <1>3
  <2>3. SumTo(lens, k - 1) = k - 1 /\ (k - 1) + 1 = k
    <3> DEFINE c == k - 1
    <3>1. c \in 0 .. n /\ c + 1 = k
      BY <1>1
    <3> HIDE DEF c
    <3>2. SumTo(lens, c) = c
      BY <1>4, <3>1
    <3> QED
      BY <3>1, <3>2 DEF c
  <2>4. f[SumTo(lens, k - 1) + 1] = ss[k][1]
    BY <2>1, <2>2
  <2> QED
    BY <2>2, <2>3, <2>4
<1>7. f = [j \in 1 .. n |-> f[j]]
  BY <1>2, <1>5, LenProperties
<1>8. [j \in 1 .. n |-> f[j]] = [j \in 1 .. n |-> s[j]]
  BY <1>6
<1> QED
  BY <1>1, <1>7, <1>8 DEF f

LEMMA EmittedNone ==
  ASSUME align \in Nat, WordAligned, NEW l, l.pre \in Seq(Written), l.main \in Written, l.size = Reserved(l.pre, l.main)
  PROVE  /\ Emitted(l) \in Seq(Written) /\ Len(l.pre) \in Nat /\ Len(Emitted(l)) = Len(l.pre) + 1
         /\ \A j \in 1 .. Len(l.pre) : Emitted(l)[j] = l.pre[j]
         /\ Emitted(l)[Len(l.pre) + 1] = l.main
         /\ SumTo(Widths(Emitted(l)), Len(Emitted(l))) = l.size
<1> DEFINE n == Len(l.pre)
           e == Emitted(l)
           pre == l.pre
           one == <<l.main>>
           parts == PreParts(l)
           w == Widths(e)
           sizes == [j \in DOMAIN pre |-> PreSize(pre[j])]
<1>1. n \in Nat /\ DOMAIN pre = 1 .. n /\ \A j \in 1 .. n : pre[j] \in Written
  BY LenProperties
<1>2. FlattenSeq(parts) = pre
  <2>1. parts \in Seq(Seq(Written)) /\ Len(parts) = n
    BY PrePartsIs
  <2>2. \A j \in 1 .. n : parts[j] = <<pre[j]>>
    <3>1. \A j \in 1 .. n : parts[j] = Padded(pre[j])
      BY <1>1 DEF PreParts
    <3> QED
      BY <1>1, <3>1, PaddedNone
  <2> HIDE DEF parts
  <2> QED
    BY <2>1, <2>2, FlattenSingles
<1>3. e = pre \o one
  <2>1. Padded(l.main) = one
    BY PaddedNone
  <2>2. e = FlattenSeq(parts) \o Padded(l.main)
    BY DEF Emitted, PreParts
  <2> HIDE DEF e, parts, one
  <2> QED
    BY <1>2, <2>1, <2>2
<1>4. one \in Seq(Written) /\ Len(one) = 1 /\ one[1] = l.main
  BY Single
<1> HIDE DEF one, e
<1>5. /\ e \in Seq(Written) /\ Len(e) = n + 1 /\ (\A j \in 1 .. n : e[j] = pre[j])
      /\ \A j \in 1 .. Len(one) : e[n + j] = one[j]
  <2>1. pre \in Seq(Written) /\ one \in Seq(Written)
    BY <1>4
  <2>2. /\ pre \o one \in Seq(Written) /\ Len(pre \o one) = Len(pre) + Len(one)
        /\ \A j \in 1 .. Len(pre) : (pre \o one)[j] = pre[j]
        /\ \A j \in 1 .. Len(one) : (pre \o one)[Len(pre) + j] = one[j]
    BY <2>1, ConcatIs
  <2> QED
    BY <1>3, <1>4, <2>2
<1>6. e[n + 1] = l.main
  BY <1>4, <1>5
<1>7. SumTo(w, Len(e)) = l.size
  <2>1. Numbers(w, n + 1) /\ \A j \in 1 .. n + 1 : w[j] = Bytes(Len(e[j].args))
    BY <1>5, WidthsAre
  <2>2. \A j \in 1 .. n : sizes[j] = w[j]
    <3> SUFFICES ASSUME NEW j \in 1 .. n PROVE sizes[j] = w[j]
      OBVIOUS
    <3>1. sizes[j] = PreSize(pre[j])
      BY <1>1
    <3>2. w[j] = Bytes(Len(pre[j].args))
      <4>1. j \in 1 .. n + 1
        BY <1>1
      <4> QED
        BY <1>5, <2>1, <4>1
    <3>3. PreSize(pre[j]) = Bytes(Len(pre[j].args))
      BY <1>1, PaddedNone
    <3> QED
      BY <3>1, <3>2, <3>3
  <2>3. w[n + 1] = LineSize(l.main)
    <3>1. n + 1 \in 1 .. n + 1
      BY <1>1
    <3>2. LineSize(l.main) = Bytes(Len(l.main.args))
      BY PaddedNone
    <3> QED
      BY <1>6, <2>1, <3>1, <3>2
  <2>4. l.size = LineSize(l.main) + SumTo(sizes, n)
    BY DEF Reserved
  <2> HIDE DEF w, sizes
  <2>5. Numbers(w, n)
    BY <1>1, <2>1, NumbersLess
  <2>6. Numbers(sizes, n)
    BY <2>2, <2>5 DEF Numbers
  <2>7. SumTo(sizes, n) = SumTo(w, n) /\ SumTo(w, n) \in Nat
    BY <1>1, <2>2, <2>5, <2>6, SumSame, SumNat
  <2>8. SumTo(w, n + 1) = SumTo(w, n) + w[n + 1]
    BY <1>1, <2>1, SumNext
  <2>9. w[n + 1] \in Nat
    <3>1. n + 1 \in 1 .. n + 1
      BY <1>1
    <3> QED
      BY <2>1, <3>1 DEF Numbers
  <2> DEFINE x == SumTo(w, n)
             y == w[n + 1]
  <2>10. x \in Nat /\ y \in Nat /\ SumTo(w, n + 1) = x + y /\ l.size = y + x
    BY <2>3, <2>4, <2>7, <2>8, <2>9
  <2> HIDE DEF x, y
  <2>11. SumTo(w, n + 1) = l.size
    BY <2>10
  <2> QED
    BY <1>5, <2>11
<1> QED
  BY <1>1, <1>5, <1>6, <1>7 DEF e

LEMMA PiecesNone ==
  ASSUME LaidOut, WordAligned, NEW k \in DOMAIN laid
  PROVE  /\ Pieces[k] \in Seq(Written) /\ Len(laid[k].pre) \in Nat /\ Len(Pieces[k]) = Len(laid[k].pre) + 1
         /\ \A j \in 1 .. Len(laid[k].pre) : Pieces[k][j] = laid[k].pre[j]
         /\ Pieces[k][Len(laid[k].pre) + 1] = laid[k].main
         /\ SumTo(Widths(Pieces[k]), Len(Pieces[k])) = laid[k].size
         /\ laid[k].pre \in Seq(Before(lines[k])) /\ MainOK(lines[k], laid[k].main) /\ k \in Lines
<1> DEFINE l == laid[k]
<1>1. k \in Lines /\ Slotted /\ RowOK(lines[k], l)
  BY LaidIs DEF LaidOut, LayoutInv
<1>2. l.pre \in Seq(Written) /\ l.main \in Written /\ l.size = Reserved(l.pre, l.main)
  BY <1>1, RowIs DEF LaidOut, RowOK
<1>3. align \in Nat
  BY GivenIs DEF LaidOut
<1>4. Pieces[k] = Emitted(l)
  BY PiecesAre
<1>5. l.pre \in Seq(Before(lines[k])) /\ MainOK(lines[k], l.main)
  BY <1>1 DEF RowOK
<1> HIDE DEF l
<1>6. /\ Emitted(l) \in Seq(Written) /\ Len(l.pre) \in Nat /\ Len(Emitted(l)) = Len(l.pre) + 1
      /\ \A j \in 1 .. Len(l.pre) : Emitted(l)[j] = l.pre[j]
      /\ Emitted(l)[Len(l.pre) + 1] = l.main
      /\ SumTo(Widths(Emitted(l)), Len(Emitted(l))) = l.size
  BY <1>2, <1>3, EmittedNone
<1> QED
  BY <1>1, <1>4, <1>5, <1>6 DEF l

\* The place of an instruction of a line in the stream.
Before1(k) == SumTo(Lens(Pieces), k - 1)
Pos(k, j) == Before1(k) + j

LEMMA PosIs ==
  ASSUME LaidOut, NEW k \in DOMAIN laid
  PROVE  /\ Before1(k) \in Nat /\ SumTo(Lens(Pieces), k) = Before1(k) + Len(Pieces[k]) /\ Len(Pieces[k]) \in Nat
         /\ SumTo(Lens(Pieces), k) <= Len(Stream) /\ Len(Stream) \in Nat
         /\ \A j \in 1 .. Len(Pieces[k]) : Stream[Pos(k, j)] = Pieces[k][j] /\ Pos(k, j) \in 1 .. Len(Stream)
<1> DEFINE lens == Lens(Pieces)
           n == Len(laid)
           a == Before1(k)
           b == SumTo(lens, k)
           m == Len(Pieces[k])
           len == Len(Stream)
<1>1. Laid(Stream, Pieces, n) /\ n \in Nat
  BY StreamIs
<1>2. Numbers(lens, n) /\ lens[k] = m /\ m \in Nat
  <2> DEFINE p == Pieces
  <2>1. p \in Seq(Seq(Written)) /\ Len(p) = n
    BY PiecesAre
  <2>2. k \in 1 .. n
    BY LaidIs DEF LaidOut
  <2> HIDE DEF p
  <2>3. Numbers(Lens(p), Len(p)) /\ \A c \in 1 .. Len(p) : Lens(p)[c] = Len(p[c]) /\ Len(p[c]) \in Nat
    BY <2>1, LensIs
  <2> QED
    BY <2>1, <2>2, <2>3 DEF p
<1>3. k \in 1 .. n
  BY LaidIs DEF LaidOut
<1>4. Len(Stream) = SumTo(lens, n) /\ \A j \in 1 .. m : Stream[a + j] = Pieces[k][j]
  BY <1>1, <1>3 DEF Laid, Before1
<1>5. a = SumTo(lens, k - 1)
  BY DEF Before1
<1> HIDE DEF lens, n, a, b, m
<1> DEFINE c == k - 1
<1>6. c \in Nat /\ c + 1 = k /\ k <= n /\ c <= n /\ k \in Nat
  BY <1>1, <1>3
<1> HIDE DEF c
<1>7. SumTo(lens, c + 1) = SumTo(lens, c) + lens[c + 1]
  BY <1>1, <1>2, <1>6, NumbersLess, SumNext
<1>8. SumTo(lens, c) \in Nat /\ SumTo(lens, k) \in Nat /\ SumTo(lens, n) \in Nat /\ SumTo(lens, k) <= SumTo(lens, n)
  <2>1. n <= n
    BY <1>1
  <2> QED
    BY <1>1, <1>2, <1>6, <2>1, SumGrows, NumbersLess, SumNat
<1>9. a = SumTo(lens, c) /\ a \in Nat /\ b = a + m /\ b <= len /\ len \in Nat
  BY <1>2, <1>4, <1>5, <1>6, <1>7, <1>8 DEF b, c
<1> HIDE DEF len
<1>10. \A j \in 1 .. m : a + j \in 1 .. len
  BY <1>2, <1>9
<1> QED
  BY <1>2, <1>4, <1>9, <1>10 DEF lens, n, a, b, m, Pos, len

\* The lines are as long as they were taken to be.
LEMMA LineStarts ==
  ASSUME LaidOut, WordAligned
  PROVE  \A k \in 0 .. Len(laid) : SumTo(Widths(Stream), SumTo(Lens(Pieces), k)) = SumTo(Sizes, k)
<1> DEFINE t == Widths(Stream)
           lens == Lens(Pieces)
           n == Len(laid)
           X == {k \in Nat : k <= n => SumTo(t, SumTo(lens, k)) = SumTo(Sizes, k)}
<1>1. n \in Nat /\ DOMAIN laid = 1 .. n /\ Numbers(Sizes, n) /\ \A k \in DOMAIN laid : Sizes[k] = laid[k].size
  BY LaidIs DEF LaidOut
<1>2. Stream \in Seq(Written) /\ Numbers(t, Len(Stream)) /\ \A j \in 1 .. Len(Stream) : t[j] = Bytes(Len(Stream[j].args))
  BY StreamIs, WidthsAre
<1>3. 0 \in X
  BY SumZero
<1>4. ASSUME NEW k \in Nat, k \in X PROVE k + 1 \in X
  <2> SUFFICES ASSUME k + 1 <= n PROVE SumTo(t, SumTo(lens, k + 1)) = SumTo(Sizes, k + 1)
    OBVIOUS
  <2> DEFINE c == k + 1
             a == Before1(c)
             u == Widths(Pieces[c])
             m == Len(Pieces[c])
  <2>1. c \in DOMAIN laid /\ c - 1 = k /\ k <= n
    BY <1>1
  <2>2. a = SumTo(lens, k)
    BY <2>1 DEF Before1
  <2>3. /\ a \in Nat /\ m \in Nat /\ SumTo(lens, c) = a + m /\ a + m <= Len(Stream) /\ Len(Stream) \in Nat
        /\ \A j \in 1 .. m : Stream[Pos(c, j)] = Pieces[c][j] /\ Pos(c, j) \in 1 .. Len(Stream)
    BY <2>1, PosIs
  <2>4. Pieces[c] \in Seq(Written) /\ SumTo(u, m) = laid[c].size
    BY <2>1, PiecesNone
  <2>5. \A j \in 1 .. m : u[j] = Bytes(Len(Pieces[c][j].args))
    BY <2>4, WidthsAre
  <2>6. \A j \in 1 .. m : Pos(c, j) = a + j
    BY DEF Pos
  <2>7. SumTo(t, a) = SumTo(Sizes, k)
    BY <1>4, <2>1, <2>2
  <2> HIDE DEF t, lens, a, u, m, c
  <2>8. \A j \in 1 .. m : t[a + j] = u[j]
    BY <1>2, <2>3, <2>5, <2>6
  <2>9. Numbers(t, a + m)
    BY <1>2, <2>3, NumbersLess
  <2>10. SumTo(t, a + m) = SumTo(t, a) + SumTo(u, m)
    <3>1. a \in Nat /\ m \in Nat
      BY <2>3
    <3> QED
      BY <2>8, <2>9, <3>1, SumShift
  <2>11. SumTo(Sizes, k + 1) = SumTo(Sizes, k) + Sizes[k + 1]
    <3>1. Numbers(Sizes, k + 1)
      BY <1>1, NumbersLess
    <3> QED
      BY <3>1, SumNext
  <2>12. Sizes[k + 1] = laid[c].size
    BY <1>1, <2>1 DEF c
  <2> QED
    BY <2>3, <2>4, <2>7, <2>10, <2>11, <2>12 DEF c
<1> HIDE DEF X
<1>5. Nat \subseteq X
  BY <1>3, <1>4, Shared!InductionOnNat
<1> QED
  BY <1>1, <1>5 DEF X

LEMMA StreamStarts ==
  ASSUME LaidOut, WordAligned
  PROVE  /\ Start(Stream, Len(Stream) + 1) = EntryPoint + Total /\ Total \in Nat
         /\ \A k \in DOMAIN laid : /\ Start(Stream, Pos(k, 1)) = EntryPoint + SumTo(Sizes, k - 1)
                                   /\ SumTo(Sizes, k - 1) \in Nat /\ SumTo(Sizes, k - 1) <= Total
<1> DEFINE n == Len(laid)
           len == Len(Stream)
<1>1. n \in Nat /\ DOMAIN laid = 1 .. n /\ Numbers(Sizes, n) /\ n \in 0 .. n
  BY LaidIs DEF LaidOut
<1>2. Stream \in Seq(Written) /\ len = SumTo(Lens(Pieces), n) /\ len \in Nat
  BY StreamIs, LenProperties DEF Laid
<1>3. (len + 1) - 1 = len
  BY <1>2
<1>4. Start(Stream, len + 1) = EntryPoint + SumTo(Widths(Stream), len)
  BY <1>2, <1>3, WidthsAre
<1>5. SumTo(Widths(Stream), len) = SumTo(Sizes, n)
  BY <1>1, <1>2, LineStarts
<1>6. Total = SumTo(Sizes, n) /\ Total \in Nat
  BY <1>1, SumNat DEF Total
<1>7. ASSUME NEW k \in DOMAIN laid
      PROVE  /\ Start(Stream, Pos(k, 1)) = EntryPoint + SumTo(Sizes, k - 1)
             /\ SumTo(Sizes, k - 1) \in Nat /\ SumTo(Sizes, k - 1) <= Total
  <2> DEFINE c == k - 1
  <2>1. c \in 0 .. n /\ c \in Nat /\ c <= n /\ n <= n
    BY <1>1
  <2>2. Before1(k) = SumTo(Lens(Pieces), c) /\ Before1(k) \in Nat
    BY PosIs DEF Before1
  <2>3. Pos(k, 1) - 1 = Before1(k)
    <3> DEFINE b == Before1(k)
    <3>1. b \in Nat /\ Pos(k, 1) = b + 1
      BY <2>2 DEF Pos
    <3> HIDE DEF b
    <3>2. (b + 1) - 1 = b
      BY <3>1
    <3> QED
      BY <3>1, <3>2 DEF b
  <2> HIDE DEF c, n
  <2>4. Start(Stream, Pos(k, 1)) = EntryPoint + SumTo(Widths(Stream), SumTo(Lens(Pieces), c))
    BY <1>2, <2>2, <2>3, WidthsAre
  <2>5. SumTo(Widths(Stream), SumTo(Lens(Pieces), c)) = SumTo(Sizes, c)
    BY <2>1, LineStarts DEF n
  <2>6. SumTo(Sizes, c) \in Nat /\ SumTo(Sizes, c) <= SumTo(Sizes, n)
    BY <1>1, <2>1, SumGrows
  <2> QED
    BY <1>6, <2>4, <2>5, <2>6 DEF c
<1> QED
  BY <1>4, <1>5, <1>6, <1>7

-----------------------------------------------------------------------------
\* The program in memory.

CodeIs ==
  /\ DOMAIN code = {Start(Stream, n) : n \in DOMAIN Stream}
  /\ \A n \in DOMAIN Stream : code[Start(Stream, n)] = Encoded(Stream[n])
  /\ EntryPoint + size < Span /\ Start(Stream, Len(Stream) + 1) <= EntryPoint + size

Overran == EntryPoint + size < Span /\ EntryPoint + size < Start(Stream, Len(Stream) + 1)

CodeInv ==
  /\ code = <<>> \/ CodeIs
  /\ phase \in {"parse", "flatten", "layout", "resolve"} => code = <<>> /\ loaded = {} /\ PC = EntryPoint
  /\ phase = "overrun" => Overran

LEMMA WriteKeeps ==
  ASSUME LaidOut, CodeInv, Write
  PROVE  CodeInv'
<1> DEFINE stream == Stream
           starts == [n \in 1 .. Len(stream) + 1 |-> Start(stream, n)]
           end == starts[Len(stream) + 1]
           new == [a \in {starts[n] : n \in DOMAIN stream} |->
                     Encoded(stream[CHOOSE n \in DOMAIN stream : starts[n] = a])]
<1>1. /\ phase = "resolve" /\ UNCHANGED <<given, parsed, slots, layout, PC, loaded, bypassed>>
      /\ \/ phase' = "failed" /\ code' = code
         \/ EntryPoint + size < Span /\ end > EntryPoint + size /\ phase' = "overrun" /\ code' = code
         \/ /\ EntryPoint + size < Span /\ end <= EntryPoint + size
            /\ phase' = "run" /\ code' = new
  <2>1. /\ phase = "resolve" /\ UNCHANGED <<given, parsed, slots, layout, PC, loaded, bypassed>>
        /\ IF EntryPoint + size >= Span THEN phase' = "failed" /\ UNCHANGED code
           ELSE IF end > EntryPoint + size THEN phase' = "overrun" /\ UNCHANGED code
           ELSE phase' = "run" /\ code' = new
    BY DEF Write
  <2>2. size \in Nat /\ end \in Nat
    <3>1. Stream \in Seq(Written) /\ Len(Stream) + 1 \in 1 .. Len(Stream) + 1
      BY StreamIs, LenProperties
    <3>2. Start(Stream, Len(Stream) + 1) \in Nat
      BY <3>1, StartIs
    <3>3. end = Start(Stream, Len(Stream) + 1)
      BY <3>1
    <3>4. size \in Nat
      <4>1. size = Total % Span /\ Total \in Nat
        BY LaidIs, SumNat DEF LaidOut, LayoutInv, Total
      <4> QED
        BY <4>1, SpanIs
    <3> QED
      BY <3>2, <3>3, <3>4
  <2> HIDE DEF end, new
  <2> QED
    BY <2>1, <2>2, SpanIs
<1>2. Stream' = Stream /\ \A s, n : Start(s, n)' = Start(s, n)
  BY <1>1 DEF Stream, Emitted, Padded, Padding, Nops, layout, given, Start
<1>3. stream \in Seq(Written) /\ DOMAIN stream = 1 .. Len(stream) /\ Len(stream) \in Nat
  BY StreamIs, LenProperties
<1> HIDE DEF stream
<1>4. end = Start(stream, Len(stream) + 1)
  BY <1>3
<1>5. /\ DOMAIN new = {Start(stream, n) : n \in DOMAIN stream}
      /\ \A n \in DOMAIN stream : new[Start(stream, n)] = Encoded(stream[n])
  <2>1. \A n \in DOMAIN stream : starts[n] = Start(stream, n)
    BY <1>3
  <2>2. \A a, b \in DOMAIN stream : starts[a] = starts[b] => a = b
    <3> SUFFICES ASSUME NEW a \in DOMAIN stream, NEW b \in DOMAIN stream, Start(stream, a) = Start(stream, b)
                 PROVE  a = b
      BY <2>1
    <3>1. a \in 1 .. Len(stream) + 1 /\ b \in 1 .. Len(stream) + 1
      BY <1>3
    <3>2. a < b => Start(stream, a) < Start(stream, b)
      BY <1>3, <3>1, StartGrows
    <3>3. b < a => Start(stream, b) < Start(stream, a)
      BY <1>3, <3>1, StartGrows
    <3>4. Start(stream, a) \in Nat /\ Start(stream, b) \in Nat
      BY <1>3, <3>1, StartIs
    <3> QED
      BY <1>3, <3>1, <3>2, <3>3, <3>4
  <2> HIDE DEF starts
  <2>3. \A n \in DOMAIN stream : (CHOOSE k \in DOMAIN stream : starts[k] = starts[n]) = n
    BY <2>2
  <2>4. \A n \in DOMAIN stream : new[starts[n]] = Encoded(stream[n])
    BY <2>3
  <2> QED
    BY <2>1, <2>4
<1>6. CASE phase' = "failed" /\ code' = code
  BY <1>1, <1>6 DEF CodeInv
<1> HIDE DEF end, new, starts
<1>7. CASE EntryPoint + size < Span /\ end > EntryPoint + size /\ phase' = "overrun" /\ code' = code
  <2>1. Overran'
    <3>1. size' = size
      BY <1>1 DEF layout
    <3>2. EntryPoint + size < end
      <4> DEFINE x == EntryPoint + size
      <4>1. end > x
        BY <1>7
      <4> HIDE DEF x
      <4>2. x < end
        BY <4>1
      <4> QED
        BY <4>2 DEF x
    <3> QED
      BY <1>2, <1>4, <1>7, <3>1, <3>2 DEF Overran, stream
  <2>2. code' = <<>>
    BY <1>1, <1>7 DEF CodeInv
  <2> QED
    BY <1>7, <2>1, <2>2 DEF CodeInv
<1>8. CASE EntryPoint + size < Span /\ end <= EntryPoint + size /\ phase' = "run" /\ code' = new
  <2>1. size' = size
    BY <1>1 DEF layout
  <2>2. CodeIs'
    BY <1>2, <1>4, <1>5, <1>8, <2>1 DEF CodeIs, stream
  <2> QED
    BY <1>8, <2>2 DEF CodeInv
<1> QED
  BY <1>1, <1>6, <1>7, <1>8

LEMMA CodeSame ==
  ASSUME LaidOut, CodeInv, UNCHANGED <<align, laid, size, code>>,
         phase' \in {"parse", "flatten", "layout", "resolve"} => code' = <<>> /\ loaded' = {} /\ PC' = EntryPoint,
         phase' = "overrun" => phase = "overrun"
  PROVE  CodeInv'
<1>1. Stream' = Stream /\ \A s, n : Start(s, n)' = Start(s, n)
  BY DEF Stream, Emitted, Padded, Padding, Nops, Start
<1>2. CodeIs => CodeIs'
  BY <1>1 DEF CodeIs
<1>3. Overran => Overran'
  BY <1>1 DEF Overran
<1> QED
  BY <1>2, <1>3 DEF CodeInv

LEMMA CodeEmpty ==
  ASSUME code' = <<>>, phase' # "overrun", loaded' = {}, PC' = EntryPoint
  PROVE  CodeInv'
BY DEF CodeInv

LEMMA CodeInit == Init => CodeInv
BY DEF Init, CodeInv

LEMMA CodeNext ==
  ASSUME LaidOut, CodeInv, [Next \/ Stopped]_vars
  PROVE  CodeInv'
<1>1. CASE ParseLine \/ ParseEnds \/ Flatten \/ Layout \/ LayoutEnds \/ Resolve
  <2>1. phase \in {"parse", "flatten", "layout", "resolve"} /\ UNCHANGED <<code, loaded, PC>>
    BY <1>1 DEF ParseLine, ParseEnds, Flatten, Layout, LayoutEnds, Resolve, machine
  <2>2. phase' # "overrun"
    <3>1. CASE ParseLine
      <4>1. Parsed(text[i]).end \in Ends
        BY ParsedEnds
      <4> QED
        BY <3>1, <4>1 DEF ParseLine, Accept, Refuse, Ends
    <3>2. CASE ParseEnds \/ Flatten \/ Layout \/ LayoutEnds \/ Resolve
      BY <3>2 DEF ParseEnds, Flatten, Layout, LayoutEnds, Resolve
    <3> QED
      BY <1>1, <3>1, <3>2
  <2>3. code' = <<>> /\ loaded' = {} /\ PC' = EntryPoint
    BY <2>1 DEF CodeInv
  <2> QED
    BY <2>2, <2>3, CodeEmpty
<1>2. CASE Write
  BY <1>2, WriteKeeps
<1>3. CASE Exec
  <2>1. phase = "run" /\ (phase' = phase \/ phase' \in Outcomes) /\ UNCHANGED <<given, i, parsed, slots, layout, code>>
    BY <1>3, ExecKeeps
  <2>2. UNCHANGED <<align, laid, size, code>> /\ phase' \notin {"parse", "flatten", "layout", "resolve", "overrun"}
    BY <2>1 DEF given, layout, Outcomes
  <2> QED
    BY <2>2, CodeSame
<1>4. CASE UNCHANGED vars
  <2>1. UNCHANGED <<align, laid, size, code, phase, loaded, PC>>
    BY <1>4 DEF vars, given, layout, machine
  <2> QED
    BY <2>1, CodeSame DEF CodeInv
<1> QED
  BY <1>1, <1>2, <1>3, <1>4 DEF Next, Stopped, Exec

\* The instruction the thread is at.
LEMMA AtPC ==
  ASSUME LaidOut, CodeInv, PC \in DOMAIN code
  PROVE  \E n \in 1 .. Len(Stream) :
           /\ PC = Start(Stream, n) /\ Ins = Stream[n] /\ Ins \in Written /\ code[PC] = Encoded(Ins)
           /\ Following = Start(Stream, n + 1)
<1>1. CodeIs
  <2>1. code # <<>>
    BY Nothing
  <2> QED
    BY <2>1 DEF CodeInv
<1>2. PICK n \in DOMAIN Stream : PC = Start(Stream, n) /\ code[PC] = Encoded(Stream[n])
  BY <1>1 DEF CodeIs
<1>3. Stream \in Seq(Written) /\ n \in 1 .. Len(Stream) /\ Stream[n] \in Written
  BY StreamIs, LenProperties
<1>4. Ins = Stream[n]
  <2>1. Emittable(Stream[n])
    BY <1>3, WrittenIs
  <2> QED
    BY <1>2, <2>1, DecodedIs DEF Ins
<1>5. Start(Stream, n + 1) = Start(Stream, n) + Bytes(Len(Stream[n].args))
  BY <1>3, StartNext
<1>6. Following = PC + Bytes(Len(Ins.args))
  BY DEF Following
<1> QED
  BY <1>2, <1>3, <1>4, <1>5, <1>6
-----------------------------------------------------------------------------
\* Where labels were computed is where instructions are written.

LEMMA ModIs ==
  ASSUME NEW n \in Nat \ {0}, NEW a \in Nat
  PROVE  a % n \in 0 .. n - 1 /\ (a < n => a % n = a) /\ (a <= a % n => a < n)
OBVIOUS

\* A program that was written fits, so nothing wrapped around.
LEMMA Fits ==
  ASSUME LaidOut, WordAligned, CodeIs
  PROVE  Total < Span
<1>1. Start(Stream, Len(Stream) + 1) = EntryPoint + Total /\ Total \in Nat
  BY StreamStarts
<1>2. size = Total % Span
  BY DEF LaidOut, LayoutInv, Total
<1>3. EntryPoint + Total <= EntryPoint + size
  BY <1>1 DEF CodeIs
<1> DEFINE t == Total
           r == t % Span
<1>4. t \in Nat /\ r \in 0 .. Span - 1 /\ EntryPoint + t <= EntryPoint + r
  BY <1>1, <1>2, <1>3, SpanIs, ModIs
<1> HIDE DEF t, r
<1>5. t <= r /\ r < Span
  BY <1>4, SpanIs
<1>6. t < Span
  BY <1>4, <1>5, SpanIs
<1> QED
  BY <1>6 DEF t

LEMMA PtrIs ==
  ASSUME LaidOut, WordAligned, Total < Span, EntryPoint + size < Span
  PROVE  /\ size = Total /\ Start(Stream, Len(Stream) + 1) = EntryPoint + size
         /\ \A k \in DOMAIN laid : laid[k].ptr = Start(Stream, Pos(k, 1))
<1>1. Start(Stream, Len(Stream) + 1) = EntryPoint + Total /\ Total \in Nat
  BY StreamStarts
<1>2. size = Total % Span
  BY DEF LaidOut, LayoutInv, Total
<1>3. size = Total
  <2> DEFINE t == Total
  <2>1. t \in Nat /\ t < Span
    BY <1>1
  <2> HIDE DEF t
  <2>2. t % Span = t
    BY <2>1, SpanIs
  <2> QED
    BY <1>2, <2>2 DEF t
<1>4. ASSUME NEW k \in DOMAIN laid
      PROVE  laid[k].ptr = Start(Stream, Pos(k, 1))
  <2> DEFINE s == SumTo(Sizes, k - 1)
  <2>1. Start(Stream, Pos(k, 1)) = EntryPoint + s /\ s \in Nat /\ s <= Total
    BY StreamStarts
  <2>2. laid[k].ptr = (EntryPoint + (s % Span)) % Span
    BY DEF LaidOut, LayoutInv, Address
  <2>3. EntryPoint + Total < Span
    BY <1>3
  <2> DEFINE t == Total
  <2>4. s <= t /\ t \in Nat /\ EntryPoint + t < Span
    BY <1>1, <2>1, <2>3
  <2> HIDE DEF s, t
  <2>5. s % Span = s
    BY <2>1, <2>4, SpanIs
  <2>6. (EntryPoint + s) % Span = EntryPoint + s
    BY <2>1, <2>4, SpanIs
  <2> QED
    BY <2>1, <2>2, <2>5, <2>6
<1> QED
  BY <1>1, <1>3, <1>4

LEMMA LayoutExactHere == LaidOut /\ CodeInv => LayoutExact
<1> SUFFICES ASSUME LaidOut, CodeInv, WordAligned, Total < Span
             PROVE  /\ phase # "overrun"
                    /\ code # <<>> =>
                         /\ Start(Stream, Len(Stream) + 1) = EntryPoint + size
                         /\ \A k \in DOMAIN laid : laid[k].ptr \in DOMAIN code /\ Decoded(code[laid[k].ptr]) = Emitted(laid[k])[1]
  BY DEF LayoutExact
<1>1. phase # "overrun"
  <2> SUFFICES ASSUME Overran PROVE FALSE
    BY DEF CodeInv
  <2>1. Start(Stream, Len(Stream) + 1) = EntryPoint + size
    BY PtrIs DEF Overran
  <2>2. size \in Nat
    <3>1. size = Total /\ Total \in Nat
      BY PtrIs, StreamStarts DEF Overran
    <3> QED
      BY <3>1
  <2> QED
    BY <2>1, <2>2, SpanIs DEF Overran
<1>2. ASSUME CodeIs, NEW k \in DOMAIN laid
      PROVE  laid[k].ptr \in DOMAIN code /\ Decoded(code[laid[k].ptr]) = Emitted(laid[k])[1]
  <2> DEFINE n == Pos(k, 1)
  <2>1. laid[k].ptr = Start(Stream, n)
    BY <1>2, PtrIs DEF CodeIs
  <2>2. 1 \in 1 .. Len(Pieces[k])
    BY PiecesNone
  <2>3. Stream[n] = Pieces[k][1] /\ n \in 1 .. Len(Stream)
    BY <2>2, PosIs
  <2>4. Pieces[k][1] = Emitted(laid[k])[1]
    BY DEF Pieces
  <2> HIDE DEF n
  <2>5. n \in DOMAIN Stream /\ Stream[n] \in Written
    BY <2>3, StreamIs, WidthsAre
  <2>6. Decoded(Encoded(Stream[n])) = Stream[n]
    BY <2>5, WrittenIs, DecodedIs
  <2> QED
    BY <1>2, <2>1, <2>3, <2>4, <2>5, <2>6 DEF CodeIs
<1> QED
  BY <1>1, <1>2, PtrIs DEF CodeInv, CodeIs

\* Where labels were computed (emit, asm.c:1438-1563) is where instructions are
\* written (1642-1705), unless padding is asked for or the program is larger than
\* a word can count: the buffer that layout sized never overruns.
THEOREM WrittenWhereLaidOut == Spec => []LayoutExact
<1>1. Init => LaidOut /\ CodeInv
  BY LaidOutInit, CodeInit
<1>2. LaidOut /\ CodeInv /\ [Next \/ Stopped]_vars => (LaidOut /\ CodeInv)'
  BY LaidOutNext, CodeNext
<1> QED
  BY <1>1, <1>2, LayoutExactHere, PTL DEF Spec

-----------------------------------------------------------------------------
\* Types.

\* A jump and the start of a thread have the argument they are read from.
LEMMA HasArgs ==
  ASSUME LaidOut, CodeInv, PC \in DOMAIN code, Legal
  PROVE  /\ Ins.args \in Seq(ArgType) /\ Len(Ins.args) \in Nat
         /\ Ins.op \in Forwards \cup Backs \cup {"THREAD_START"} => Len(Ins.args) >= 1
<1>1. Ins \in Written /\ code[PC] = Encoded(Ins)
  BY AtPC
<1> DEFINE op == Builtins.codes[Code(Encoded(Ins).word)]
<1>2. Emittable(Ins)
  BY <1>1, WrittenIs
<1>3. Argc(Encoded(Ins).word) = Len(Ins.args) /\ op \in ToSet(BuiltinOps) /\ op.name = Ins.op
  BY <1>2, DecodedIs
<1>4. Accepts(op, Len(Ins.args))
  BY <1>1, <1>3 DEF Legal
<1>5. Ins.args \in Seq(ArgType) /\ Len(Ins.args) \in Nat
  <2>1. Ins.args \in Seq(ArgType)
    BY <1>2 DEF Emittable
  <2> QED
    BY <2>1
<1>6. PICK n \in DOMAIN BuiltinOps : op = BuiltinOps[n]
  BY <1>3 DEF ToSet
<1>7. op.min \in Nat
  BY <1>3, OpcodeIs, BuiltinsOK
<1> HIDE DEF op
<1>8. Ins.op \in Forwards \cup Backs \cup {"THREAD_START"} => op.min >= 1
  BY <1>3, <1>6, EmittedOK
<1>9. op.min <= Len(Ins.args)
  BY <1>4 DEF Accepts
<1> QED
  BY <1>5, <1>7, <1>8, <1>9

LEMMA HasArg ==
  ASSUME NEW s \in Seq(ArgType), NEW n \in 1 .. Len(s)
  PROVE  s[n].val \in Nat /\ s[n].type \in {"REGISTER", "CONSTANT", "WORD", "NONE"}
<1>1. s[n] \in ArgType
  OBVIOUS
<1> QED
  BY <1>1 DEF ArgType

LEMMA FollowingIs ==
  ASSUME LaidOut, CodeInv, PC \in DOMAIN code
  PROVE  Following \in Nat /\ PC \in Nat /\ PC < Following
<1>1. PICK n \in 1 .. Len(Stream) : PC = Start(Stream, n) /\ Following = Start(Stream, n + 1)
  BY AtPC
<1>2. Stream \in Seq(Written) /\ Len(Stream) \in Nat
  BY StreamIs
<1>3. n \in 1 .. Len(Stream) + 1 /\ n + 1 \in 1 .. Len(Stream) + 1
  BY <1>2
<1>4. Start(Stream, n) \in Nat /\ Start(Stream, n + 1) \in Nat
  BY <1>2, <1>3, StartIs
<1>5. Start(Stream, n) < Start(Stream, n + 1)
  BY <1>2, StartNext, <1>4
<1> QED
  BY <1>1, <1>4, <1>5

\* The thread stays among the addresses, and the step is one of the machine.
MoveInv == PC \in Nat /\ bypassed \in BOOLEAN

LEMMA GoesTo ==
  ASSUME MoveInv, NEW to \in Nat, Goes(to)
  PROVE  MoveInv'
BY DEF MoveInv, Goes

LEMMA Stays ==
  ASSUME MoveInv, UNCHANGED <<PC, bypassed>>
  PROVE  MoveInv'
BY DEF MoveInv

LEMMA JumpLands ==
  ASSUME NEW a \in Nat, NEW b \in Nat
  PROVE  (a + b) % Span \in Nat /\ (a - b) % Span \in Nat
BY SpanIs

LEMMA ExecMoves ==
  ASSUME LaidOut, CodeInv, MoveInv, Exec
  PROVE  MoveInv'
<1>1. ASSUME NEW ops, Ready(ops)
      PROVE  /\ PC \in DOMAIN code /\ Legal /\ Ins.op \in ops
             /\ Following \in Nat /\ Ins.args \in Seq(ArgType) /\ Len(Ins.args) \in Nat
             /\ Ins.op \in Forwards \cup Backs \cup {"THREAD_START"} => Len(Ins.args) >= 1
  <2>1. PC \in DOMAIN code /\ Legal /\ Ins.op \in ops
    BY <1>1 DEF Ready
  <2> QED
    BY <2>1, HasArgs, FollowingIs
<1>2. CASE ExecJump
  <2> DEFINE offset == Ins.args[1].val
  <2>1. Ready(Forwards \cup Backs)
    BY <1>2 DEF ExecJump
  <2>2. offset \in Nat /\ Following \in Nat
    <3>1. Ins.args \in Seq(ArgType) /\ Len(Ins.args) \in Nat /\ Len(Ins.args) >= 1 /\ Following \in Nat
      BY <1>1, <2>1
    <3>2. 1 \in 1 .. Len(Ins.args)
      BY <3>1
    <3> QED
      BY <3>1, <3>2, HasArg
  <2>3. PICK taken \in BOOLEAN :
          Goes(IF ~taken \/ offset = 0 THEN Following
               ELSE IF Ins.op \in Forwards THEN (PC + offset) % Span ELSE (PC - offset) % Span)
    BY <1>2 DEF ExecJump
  <2> HIDE DEF offset
  <2>4. (PC + offset) % Span \in Nat /\ (PC - offset) % Span \in Nat
    BY <2>2, JumpLands DEF MoveInv
  <2> QED
    BY <2>2, <2>3, <2>4, GoesTo
<1>3. CASE ExecComputed
  <2>1. PICK to \in 0 .. Span - 1 : Goes(to)
    BY <1>3 DEF ExecComputed
  <2>2. to \in Nat
    BY SpanIs
  <2> QED
    BY <2>1, <2>2, GoesTo
<1>4. CASE ExecThreadStart
  <2> DEFINE j == IF Len(Ins.args) = 1 THEN 1 ELSE 2
             start == Ins.args[j]
  <2>1. Ready({"THREAD_START"})
    BY <1>4 DEF ExecThreadStart
  <2>2. j \in 1 .. Len(Ins.args) /\ Following \in Nat /\ Ins.args \in Seq(ArgType)
    <3>1. Following \in Nat /\ Ins.args \in Seq(ArgType) /\ Len(Ins.args) \in Nat /\ Len(Ins.args) >= 1
      BY <1>1, <2>1
    <3> DEFINE n == Len(Ins.args)
    <3>2. n \in Nat /\ n >= 1 /\ j = IF n = 1 THEN 1 ELSE 2
      BY <3>1
    <3> HIDE DEF n, j
    <3>3. j \in 1 .. n
      BY <3>2
    <3> QED
      BY <3>1, <3>3 DEF n
  <2>3. start.val \in Nat
    BY <2>2, HasArg
  <2>4. (\E to \in {Following, start.val} : Goes(to)) \/ Faults
    BY <1>4 DEF ExecThreadStart
  <2> HIDE DEF start
  <2> QED
    BY <2>2, <2>3, <2>4, GoesTo, Stays DEF Faults
<1>5. CASE ExecModLoad
  <2>1. Ready({"MOD_LOAD"}) /\ (Goes(Following) \/ Faults)
    BY <1>5 DEF ExecModLoad
  <2> QED
    BY <1>1, <2>1, GoesTo, Stays DEF Faults
<1>6. CASE ExecModUnload
  <2>1. Ready({"MOD_UNLOAD"}) /\ (Goes(Following) \/ Faults \/ (bypassed' = TRUE /\ PC' = Following))
    BY <1>6 DEF ExecModUnload
  <2>2. Following \in Nat
    BY <1>1, <2>1
  <2> QED
    BY <2>1, <2>2, GoesTo, Stays DEF Faults, MoveInv
<1>7. CASE ExecModOp
  <2>1. Ready({"MOD_OP"}) /\ (Goes(Following) \/ Faults \/ UNCHANGED <<PC, bypassed>>)
    BY <1>7 DEF ExecModOp
  <2> QED
    BY <1>1, <2>1, GoesTo, Stays DEF Faults
<1>8. CASE ExecModUnloadAll
  <2>1. Ready({"MOD_UNLOAD_ALL"}) /\ bypassed' = TRUE /\ PC' = Following
    BY <1>8 DEF ExecModUnloadAll
  <2>2. Following \in Nat
    BY <1>1, <2>1
  <2> QED
    BY <2>1, <2>2 DEF MoveInv
<1>9. CASE ExecOther
  <2>1. PC \in DOMAIN code /\ Goes(Following)
    BY <1>9 DEF ExecOther
  <2> QED
    BY <2>1, FollowingIs, GoesTo
<1>10. CASE ExecIllegal \/ ExecEnds
  BY <1>10, Stays DEF ExecIllegal, ExecEnds, machine
<1> QED
  BY <1>2, <1>3, <1>4, <1>5, <1>6, <1>7, <1>8, <1>9, <1>10 DEF Exec

Phases == Over \cup {"parse", "flatten", "layout", "resolve", "run"}
Typed1 == LaidOut /\ CodeInv /\ MoveInv /\ phase \in Phases

LEMMA PhaseNext ==
  ASSUME phase \in Phases, [Next \/ Stopped]_vars
  PROVE  phase' \in Phases
<1>1. CASE ParseLine
  <2> DEFINE line == Parsed(text[i])
  <2>1. line.end \in Ends
    BY ParsedEnds
  <2>2. phase' = phase \/ (line.end \notin {"line", "refused"} /\ phase' = line.end)
    BY <1>1 DEF ParseLine, Accept, Refuse
  <2> HIDE DEF line
  <2> QED
    BY <2>1, <2>2 DEF Ends, Phases, Over, Undefined
<1>2. CASE ParseEnds \/ Flatten
  <2>1. phase' \in {"rejected", "flatten", "failed", "layout"}
    BY <1>2 DEF ParseEnds, Flatten
  <2> QED
    BY <2>1 DEF Phases, Over
<1>3. CASE Layout \/ LayoutEnds \/ Resolve \/ Write \/ Exec
  <2>1. phase' \in {"layout", "overflow", "resolve", "failed", "crash", "overrun", "run"} \cup Outcomes
    BY <1>3, LaterKeeps
  <2> QED
    BY <2>1 DEF Phases, Over, Undefined, Outcomes
<1>4. CASE UNCHANGED vars
  BY <1>4 DEF vars
<1> QED
  BY <1>1, <1>2, <1>3, <1>4 DEF Next, Stopped, Exec

LEMMA MoveNext ==
  ASSUME LaidOut, CodeInv, MoveInv, [Next \/ Stopped]_vars
  PROVE  MoveInv'
<1>1. CASE Exec
  BY <1>1, ExecMoves
<1>2. CASE ParseLine \/ ParseEnds \/ Flatten \/ Layout \/ LayoutEnds \/ Resolve \/ Write \/ UNCHANGED vars
  <2>1. UNCHANGED <<PC, bypassed>>
    BY <1>2 DEF ParseLine, ParseEnds, Flatten, Layout, LayoutEnds, Resolve, Write, vars, machine
  <2> QED
    BY <2>1, Stays
<1> QED
  BY <1>1, <1>2 DEF Next, Stopped, Exec

LEMMA SizeIs ==
  ASSUME LaidOut
  PROVE  size \in 0 .. Span - 1
<1>1. Len(laid) \in Nat /\ Numbers(Sizes, Len(laid))
  BY LaidIs DEF LaidOut
<1> DEFINE s == SumTo(Sizes, Len(laid))
<1>2. s \in Nat
  BY <1>1, SumNat
<1>3. size = s % Span
  BY DEF LaidOut, LayoutInv
<1> HIDE DEF s
<1> QED
  BY <1>2, <1>3, SpanIs

LEMMA WordsAre ==
  ASSUME LaidOut, CodeInv, NEW a \in DOMAIN code
  PROVE  a \in 0 .. Span - 1 /\ code[a].word \in 0 .. (MaxArgs + 1) * CodeSpan - 1 /\ Decoded(code[a]) \in Instr
<1>1. CodeIs
  <2>1. code # <<>>
    BY Nothing
  <2> QED
    BY <2>1 DEF CodeInv
<1>2. PICK n \in DOMAIN Stream : a = Start(Stream, n) /\ code[a] = Encoded(Stream[n])
  BY <1>1 DEF CodeIs
<1>3. Stream \in Seq(Written) /\ n \in 1 .. Len(Stream) /\ Len(Stream) \in Nat /\ Stream[n] \in Written
  BY StreamIs, LenProperties
<1>4. Start(Stream, n) < Start(Stream, Len(Stream) + 1) /\ Start(Stream, n) \in Nat /\ Start(Stream, Len(Stream) + 1) \in Nat
  <2>1. n \in 1 .. Len(Stream) + 1 /\ Len(Stream) + 1 \in 1 .. Len(Stream) + 1 /\ n < Len(Stream) + 1
    BY <1>3
  <2> QED
    BY <1>3, <2>1, StartGrows, StartIs
<1>5. EntryPoint + size < Span /\ Start(Stream, Len(Stream) + 1) <= EntryPoint + size /\ size \in Nat
  BY <1>1, SizeIs, SpanIs DEF CodeIs
<1>6. a \in 0 .. Span - 1
  BY <1>2, <1>4, <1>5, SpanIs
<1>7. Emittable(Stream[n])
  BY <1>3, WrittenIs
<1> QED
  BY <1>2, <1>6, <1>7, DecodedIs

LEMMA TypedIs == Typed1 => TypeOK
<1> SUFFICES ASSUME Typed1 PROVE TypeOK
  OBVIOUS
<1>1. /\ phase \in Over \cup {"parse", "flatten", "layout", "resolve", "run"}
      /\ PC \in Nat /\ bypassed \in BOOLEAN
  BY DEF Typed1, Phases, MoveInv
<1>2. /\ i \in 1 .. Len(text) + 1 /\ fatal \in BOOLEAN /\ Len(lines) <= Len(text)
      /\ \A l \in DOMAIN labels : labels[l] \in Lines
      /\ IsABag(regs) /\ IsABag(consts)
  BY DEF Typed1, LaidOut, ParseInv, Bag, Lines
<1>3. /\ \A r \in DOMAIN regSlot : regSlot[r] \in Slots(regs)
      /\ \A c \in DOMAIN constSlot : constSlot[c] \in Slots(consts)
  <2>1. SlotInv
    BY DEF Typed1, LaidOut
  <2>2. CASE Slotted
    BY <2>1, <2>2 DEF SlotInv
  <2>3. CASE ~Slotted
    BY <2>1, <2>3, Nothing DEF SlotInv
  <2> QED
    BY <2>2, <2>3
<1>4. isLoaded \in [Loadable -> BOOLEAN] /\ cache.count \in 0 .. Len(cache.data) /\ ToSet(cache.data) \subseteq Modules
  BY DEF Typed1, LaidOut, LayoutInv, CacheOK, Flags
<1>5. size \in 0 .. Span - 1
  BY SizeIs DEF Typed1
<1>6. Len(laid) = IF phase \in {"parse", "flatten", "rejected"} \/ regSlot = <<>> THEN 0
                  ELSE IF phase \in {"layout", "overflow"} THEN i - 1 ELSE Len(lines)
  <2>1. SlotInv /\ LaidLen
    BY DEF Typed1, LaidOut, LayoutInv
  <2>2. Slotted <=> ~(phase \in {"parse", "flatten", "rejected"} \/ regSlot = <<>>)
    BY <2>1, Nothing DEF SlotInv, Slotted
  <2> QED
    BY <2>1, <2>2 DEF LaidLen
<1>7. \A a \in DOMAIN code : a \in 0 .. Span - 1 /\ code[a].word \in 0 .. (MaxArgs + 1) * CodeSpan - 1 /\ Decoded(code[a]) \in Instr
  BY WordsAre DEF Typed1
<1> QED
  BY <1>1, <1>2, <1>3, <1>4, <1>5, <1>6, <1>7 DEF TypeOK

\* Type correctness of the assembler and of a thread in what it emits: slots are
\* below the counts of their lists, a line is laid out when its turn comes, and
\* every word the machine fetches decodes to an instruction (emit, asm.c:1281-1730;
\* srsvm_opcode_load_instruction).
THEOREM AssemblerTyped == Spec => []TypeOK
<1>1. Init => Typed1
  <2> SUFFICES ASSUME Init PROVE Typed1
    OBVIOUS
  <2>1. phase \in Phases /\ MoveInv
    BY SpanIs DEF Init, Phases, MoveInv
  <2> QED
    BY <2>1, LaidOutInit, CodeInit DEF Typed1
<1>2. Typed1 /\ [Next \/ Stopped]_vars => Typed1'
  BY LaidOutNext, CodeNext, MoveNext, PhaseNext DEF Typed1
<1> QED
  BY <1>1, <1>2, TypedIs, PTL DEF Spec

-----------------------------------------------------------------------------
\* A module opcode finds its module loaded.

LEMMA StartOrder ==
  ASSUME LaidOut, NEW a \in 1 .. Len(Stream), NEW b \in 1 .. Len(Stream), Start(Stream, a) < Start(Stream, b)
  PROVE  a < b
<1>1. Stream \in Seq(Written) /\ Len(Stream) \in Nat
  BY StreamIs
<1>2. a \in 1 .. Len(Stream) + 1 /\ b \in 1 .. Len(Stream) + 1
  BY <1>1
<1>3. b < a => Start(Stream, b) < Start(Stream, a)
  BY <1>1, <1>2, StartGrows
<1>4. Start(Stream, a) \in Nat /\ Start(Stream, b) \in Nat
  BY <1>1, <1>2, StartIs
<1> QED
  BY <1>1, <1>2, <1>3, <1>4

LEMMA OrderStart ==
  ASSUME LaidOut, NEW a \in 1 .. Len(Stream) + 1, NEW b \in 1 .. Len(Stream) + 1, a <= b
  PROVE  Start(Stream, a) \in Nat /\ Start(Stream, b) \in Nat /\ Start(Stream, a) <= Start(Stream, b)
<1>1. Stream \in Seq(Written) /\ Len(Stream) \in Nat
  BY StreamIs
<1>2. Start(Stream, a) \in Nat /\ Start(Stream, b) \in Nat
  BY <1>1, StartIs
<1>3. a < b => Start(Stream, a) < Start(Stream, b)
  BY <1>1, StartGrows
<1>4. a = b => Start(Stream, a) = Start(Stream, b)
  OBVIOUS
<1>5. a < b \/ a = b
  BY <1>1
<1> QED
  BY <1>2, <1>3, <1>4, <1>5

\* Every instruction of the stream belongs to a line, and lines follow each other.
LEMMA PlaceOf ==
  ASSUME LaidOut, NEW n \in 1 .. Len(Stream)
  PROVE  \E k \in DOMAIN laid : \E j \in 1 .. Len(Pieces[k]) : n = Pos(k, j) /\ Stream[n] = Pieces[k][j]
<1>1. Stream \in Seq(Written) /\ Len(Stream) = SumTo(Lens(Pieces), Len(laid)) /\ Len(laid) \in Nat
  BY StreamIs DEF Laid
<1>2. Len(Pieces) = Len(laid) /\ Pieces \in Seq(Seq(Written))
  BY PiecesAre
<1>3. Numbers(Lens(Pieces), Len(laid))
  BY <1>2, LensIs
<1>4. PICK k \in 1 .. Len(laid) : \E j \in 1 .. Lens(Pieces)[k] : n = SumTo(Lens(Pieces), k - 1) + j
  <2>1. n \in 1 .. SumTo(Lens(Pieces), Len(laid)) /\ Len(laid) \in Nat
    BY <1>1
  <2> QED
    BY <1>3, <2>1, PartOf
<1>5. PICK j \in 1 .. Lens(Pieces)[k] : n = Pos(k, j)
  BY <1>4 DEF Pos, Before1
<1>6. k \in DOMAIN laid /\ j \in 1 .. Len(Pieces[k])
  <2>1. Lens(Pieces)[k] = Len(Pieces[k])
    BY <1>2, <1>4, LensIs
  <2>2. k \in DOMAIN laid
    BY <1>4, LaidIs DEF LaidOut
  <2> QED
    BY <1>5, <2>1, <2>2
<1> QED
  BY <1>5, <1>6, PosIs

LEMMA PosOrder ==
  ASSUME LaidOut, NEW c \in DOMAIN laid, NEW k \in DOMAIN laid, NEW a \in 1 .. Len(Pieces[c]), NEW b \in 1 .. Len(Pieces[k]),
         c < k \/ (c = k /\ a < b)
  PROVE  Pos(c, a) < Pos(k, b)
<1>1. /\ Before1(c) \in Nat /\ SumTo(Lens(Pieces), c) = Before1(c) + Len(Pieces[c]) /\ Len(Pieces[c]) \in Nat
      /\ Before1(k) \in Nat /\ Len(Pieces[k]) \in Nat
  BY PosIs
<1>2. CASE c < k
  <2>1. Len(Pieces) = Len(laid) /\ Pieces \in Seq(Seq(Written)) /\ DOMAIN laid = 1 .. Len(laid) /\ Len(laid) \in Nat
    BY PiecesAre, LaidIs DEF LaidOut
  <2>2. Numbers(Lens(Pieces), Len(laid))
    BY <2>1, LensIs
  <2>3. c \in Nat /\ k - 1 \in Nat /\ c <= k - 1 /\ k - 1 <= Len(laid)
    BY <1>2, <2>1
  <2>4. SumTo(Lens(Pieces), c) <= SumTo(Lens(Pieces), k - 1)
    BY <2>1, <2>2, <2>3, SumGrows
  <2> DEFINE s == SumTo(Lens(Pieces), c)
             p == Before1(c)
             q == Before1(k)
             m == Len(Pieces[c])
             n == Len(Pieces[k])
  <2>5. s <= q /\ s = p + m /\ p \in Nat /\ q \in Nat /\ m \in Nat /\ n \in Nat /\ a \in 1 .. m /\ b \in 1 .. n
    BY <1>1, <2>4 DEF Before1
  <2> HIDE DEF s, p, q, m, n
  <2>6. p + a < q + b
    BY <2>5
  <2> QED
    BY <2>6 DEF Pos, p, q
<1>3. CASE c = k /\ a < b
  <2> DEFINE p == Before1(c)
             m == Len(Pieces[c])
  <2>1. p \in Nat /\ p = Before1(k) /\ m \in Nat /\ a \in 1 .. m /\ b \in 1 .. m
    BY <1>1, <1>3
  <2> HIDE DEF p, m
  <2>2. p + a < p + b
    BY <1>3, <2>1
  <2> QED
    BY <2>1, <2>2 DEF Pos, p
<1> QED
  BY <1>2, <1>3

\* The loads of modules that lie behind the thread have been executed, and until
\* the table was full each has found a slot.
LoadAt(k, j) == j \in DOMAIN laid[k].pre /\ lines[k].mod # "" /\ laid[k].pre[j] = Load(lines[k].mod)
Passed(pc, has) ==
  \A k \in DOMAIN laid : \A j \in DOMAIN laid[k].pre :
    LoadAt(k, j) /\ Start(Stream, Pos(k, j)) < pc => InQuotes(lines[k].mod) \in has
RunInv ==
  WordAligned /\ ~bypassed /\ ~Full =>
    /\ code # <<>> => Passed(PC, loaded)
    /\ phase = "missing" => \E k \in Lines : lines[k].op = "MOD_OP"

LEMMA PassedSame ==
  ASSUME UNCHANGED <<given, i, parsed, slots, layout, code>>
  PROVE  Passed(PC', loaded') => Passed(PC, loaded)'
<1>1. UNCHANGED <<align, laid, slots, lines>>
  BY DEF given, layout, parsed
<1>2. Stream' = Stream /\ (\A s, n : Start(s, n)' = Start(s, n)) /\ Pieces' = Pieces
  BY <1>1 DEF Stream, Emitted, Padded, Padding, Nops, Start, Pieces
<1>3. \A k, j : Pos(k, j)' = Pos(k, j)
  BY <1>2 DEF Pos, Before1
<1>4. \A m : Load(m)' = Load(m)
  BY <1>1, SlotsSame
<1>5. \A k, j : LoadAt(k, j)' = LoadAt(k, j)
  BY <1>1, <1>4 DEF LoadAt
<1> QED
  BY <1>1, <1>2, <1>3, <1>5 DEF Passed

\* Where a load is: before its line, in the stream.
LEMMA LoadPlace ==
  ASSUME LaidOut, WordAligned, NEW k \in DOMAIN laid, NEW j \in DOMAIN laid[k].pre
  PROVE  /\ j \in 1 .. Len(Pieces[k]) /\ Pos(k, j) \in 1 .. Len(Stream) /\ Stream[Pos(k, j)] = laid[k].pre[j]
         /\ j \in 1 .. Len(laid[k].pre) /\ Len(laid[k].pre) \in Nat
         /\ laid[k].pre[j].op \in {"MOD_LOAD", "MOD_UNLOAD"}
<1>1. /\ Len(Pieces[k]) = Len(laid[k].pre) + 1 /\ laid[k].pre \in Seq(Before(lines[k])) /\ Len(laid[k].pre) \in Nat
      /\ k \in Lines
  BY PiecesNone
<1>2. j \in 1 .. Len(laid[k].pre) /\ laid[k].pre[j] \in Before(lines[k])
  BY <1>1, LenProperties
<1>3. j \in 1 .. Len(Pieces[k])
  BY <1>1, <1>2
<1>4. laid[k].pre[j] = Pieces[k][j]
  BY <1>2, PiecesNone
<1>5. laid[k].pre[j].op \in {"MOD_LOAD", "MOD_UNLOAD"}
  <2> DEFINE x == laid[k].pre[j]
             m == lines[k].mod
  <2>1. x \in Unloads \cup (IF m = "" THEN {} ELSE {Load(m)})
    BY <1>2 DEF Before
  <2> HIDE DEF x, m
  <2>2. x \in Unloads \/ x = Load(m)
    BY <2>1
  <2>3. x \in Unloads => x.op = "MOD_UNLOAD"
    BY DEF Unloads
  <2>4. Load(m).op = "MOD_LOAD"
    BY DEF Load
  <2>5. x.op \in {"MOD_LOAD", "MOD_UNLOAD"}
    BY <2>2, <2>3, <2>4
  <2> QED
    BY <2>5 DEF x
<1> QED
  BY <1>1, <1>2, <1>3, <1>4, <1>5, PosIs

LEMMA LoadedModules ==
  ASSUME LaidOut, NEW k \in DOMAIN laid, lines[k].mod # ""
  PROVE  lines[k].mod \in Modules /\ lines[k].mod \in Loadable /\ k \in Lines /\ Slotted
<1>1. k \in Lines /\ Slotted
  BY LaidIs DEF LaidOut
<1>2. OpOK(lines[k].mod, lines[k].op)
  BY <1>1 DEF LaidOut, ParseInv, LineOK, Lines
<1> QED
  BY <1>1, <1>2 DEF OpOK, Modules

\* A constant with the name of a module stands for that module.
LEMMA NamedIs ==
  ASSUME LaidOut, NEW k \in DOMAIN laid, lines[k].mod # "", NEW m, m = lines[k].mod
  PROVE  /\ Named(Arg("CONSTANT", constSlot[InQuotes(m)])) = {InQuotes(m)}
         /\ ~Unnamed(Arg("CONSTANT", constSlot[InQuotes(m)]))
         /\ Load(m).op = "MOD_LOAD" /\ Load(m).args[1] = Arg("REGISTER", regSlot[ModRegister])
         /\ Load(m).args[2] = Arg("CONSTANT", constSlot[InQuotes(m)])
<1>1. m \in Modules /\ m \in Loadable /\ Slotted
  BY LoadedModules
<1>2. /\ Load(m).op = "MOD_LOAD" /\ Load(m).args[1] = Arg("REGISTER", regSlot[ModRegister])
      /\ Load(m).args[2] = Arg("CONSTANT", constSlot[InQuotes(m)])
      /\ constSlot[InQuotes(m)] \in Nat /\ outConsts[constSlot[InQuotes(m)] + 1] = InQuotes(m)
  BY <1>1, LoadIs DEF LaidOut
<1> DEFINE a == Arg("CONSTANT", constSlot[InQuotes(m)])
           names == {InQuotes(o) : o \in Loadable}
<1>3. a.type = "CONSTANT" /\ a.val = constSlot[InQuotes(m)]
  BY <1>2, ArgIs
<1> HIDE DEF a
<1>4. outConsts[a.val + 1] = InQuotes(m)
  BY <1>2, <1>3
<1>5. InQuotes(m) \in names
  BY <1>1
<1>6. Named(a) = {outConsts[a.val + 1]} \cap names
  BY <1>3 DEF Named
<1> HIDE DEF names
<1>7. Named(a) = {InQuotes(m)}
  BY <1>4, <1>5, <1>6
<1>8. ~Unnamed(a)
  BY <1>3, <1>7 DEF Unnamed
<1> QED
  BY <1>2, <1>7, <1>8 DEF a

\* The thread goes on with the next instruction, having loaded what that loads.
Executed(has) ==
  \A k \in DOMAIN laid : lines[k].mod # "" /\ Ins = Load(lines[k].mod) => InQuotes(lines[k].mod) \in has
LEMMA FollowPasses ==
  ASSUME LaidOut, CodeInv, WordAligned, PC \in DOMAIN code, Passed(PC, loaded), NEW has, loaded \subseteq has, Executed(has)
  PROVE  Passed(Following, has)
<1> SUFFICES ASSUME NEW k \in DOMAIN laid, NEW j \in DOMAIN laid[k].pre, LoadAt(k, j), Start(Stream, Pos(k, j)) < Following
             PROVE  InQuotes(lines[k].mod) \in has
  BY DEF Passed
<1>1. PICK n \in 1 .. Len(Stream) : PC = Start(Stream, n) /\ Ins = Stream[n] /\ Following = Start(Stream, n + 1)
  BY AtPC
<1> DEFINE p == Pos(k, j)
<1>2. p \in 1 .. Len(Stream) /\ Stream[p] = laid[k].pre[j]
  BY LoadPlace
<1>3. Start(Stream, p) < Start(Stream, n + 1)
  BY <1>1
<1> HIDE DEF p
<1>4. Len(Stream) \in Nat /\ Stream \in Seq(Written)
  BY StreamIs
<1>5. p <= n
  <2> SUFFICES ASSUME n + 1 <= p PROVE FALSE
    BY <1>2, <1>4
  <2>1. p \in 1 .. Len(Stream) + 1 /\ n + 1 \in 1 .. Len(Stream) + 1
    BY <1>2, <1>4
  <2>2. Start(Stream, n + 1) <= Start(Stream, p) /\ Start(Stream, n + 1) \in Nat /\ Start(Stream, p) \in Nat
    BY <2>1, OrderStart
  <2> QED
    BY <1>3, <2>2
<1>6. CASE p = n
  BY <1>1, <1>2, <1>6 DEF LoadAt, Executed
<1>7. CASE p < n
  <2>1. n \in 1 .. Len(Stream) + 1 /\ p \in 1 .. Len(Stream) + 1
    BY <1>2, <1>4
  <2>2. Start(Stream, p) < Start(Stream, n)
    BY <1>4, <1>7, <2>1, StartGrows
  <2>3. InQuotes(lines[k].mod) \in loaded
    BY <1>1, <2>2 DEF Passed, p
  <2> QED
    BY <2>3
<1> QED
  BY <1>2, <1>4, <1>5, <1>6, <1>7

\* It goes elsewhere: what lies between belongs to lines it jumps over, as a jump
\* is not among what stands before its line.
LEMMA JumpPasses ==
  ASSUME LaidOut, CodeInv, CodeIs, WordAligned, PC \in DOMAIN code, Passed(PC, loaded), MoveInv,
         Ins.op \notin {"MOD_LOAD", "MOD_UNLOAD"}, NEW to \in Nat, ~JumpsOver(PC, to)
  PROVE  Passed(to, loaded)
<1> SUFFICES ASSUME NEW k \in DOMAIN laid, NEW j \in DOMAIN laid[k].pre, LoadAt(k, j), Start(Stream, Pos(k, j)) < to,
                    ~(Start(Stream, Pos(k, j)) < PC)
             PROVE  FALSE
  BY DEF Passed
<1>1. PICK n \in 1 .. Len(Stream) : PC = Start(Stream, n) /\ Ins = Stream[n]
  BY AtPC
<1>2. /\ j \in 1 .. Len(Pieces[k]) /\ Pos(k, j) \in 1 .. Len(Stream)
      /\ j \in 1 .. Len(laid[k].pre) /\ Len(laid[k].pre) \in Nat
  BY LoadPlace
<1>3. 1 \in 1 .. Len(Pieces[k]) /\ Before1(k) \in Nat
  BY PiecesNone, PosIs
<1>4. Pos(k, 1) \in 1 .. Len(Stream) /\ Pos(k, 1) <= Pos(k, j) /\ Len(Stream) \in Nat
  <2>1. Pos(k, 1) \in 1 .. Len(Stream) /\ Len(Stream) \in Nat
    BY <1>3, PosIs
  <2> DEFINE b == Before1(k)
             m == Len(laid[k].pre)
  <2>2. b \in Nat /\ m \in Nat /\ j \in 1 .. m
    BY <1>2, <1>3
  <2> HIDE DEF b, m
  <2>3. b + 1 <= b + j
    BY <2>2
  <2> QED
    BY <2>1, <2>3 DEF Pos, b
<1> DEFINE p == Pos(k, 1)
           q == Pos(k, j)
<1>5. laid[k].ptr = Start(Stream, p)
  BY Fits, PtrIs DEF CodeIs
<1>6. p \in 1 .. Len(Stream) + 1 /\ q \in 1 .. Len(Stream) + 1 /\ n \in 1 .. Len(Stream) + 1 /\ p <= q
  BY <1>2, <1>4
<1>7. p = Before1(k) + 1 /\ q = Before1(k) + j
  BY DEF Pos
<1> HIDE DEF p, q
<1>8. Start(Stream, p) <= Start(Stream, q) /\ Start(Stream, p) \in Nat /\ Start(Stream, q) \in Nat
  BY <1>6, OrderStart
<1>9. PC \in Nat /\ PC <= Start(Stream, q) /\ Start(Stream, q) < to
  <2>1. PC \in Nat
    BY DEF MoveInv
  <2> QED
    BY <1>8, <2>1 DEF q
<1>10. ~(PC < Start(Stream, p))
  <2>1. lines[k].mod # "" /\ k \in Lines
    BY LoadedModules DEF LoadAt
  <2>2. Start(Stream, p) < to
    BY <1>8, <1>9
  <2> QED
    BY <1>5, <2>1, <2>2 DEF JumpsOver
<1>11. Start(Stream, p) <= Start(Stream, n) /\ Start(Stream, n) <= Start(Stream, q)
  BY <1>1, <1>8, <1>9, <1>10
<1>12. p <= n /\ n <= q
  <2>1. Stream \in Seq(Written) /\ Len(Stream) \in Nat
    BY StreamIs
  <2>2. n < p => Start(Stream, n) < Start(Stream, p)
    BY <1>6, <2>1, StartGrows
  <2>3. q < n => Start(Stream, q) < Start(Stream, n)
    BY <1>6, <2>1, StartGrows
  <2>4. Start(Stream, n) \in Nat
    BY <1>1, <1>9
  <2> QED
    BY <1>6, <1>8, <1>11, <2>1, <2>2, <2>3, <2>4
<1>13. PICK c \in 1 .. j : n = Before1(k) + c
  <2> DEFINE b == Before1(k)
             m == Len(laid[k].pre)
  <2>1. b \in Nat /\ m \in Nat /\ j \in 1 .. m /\ b + 1 <= n /\ n <= b + j /\ n \in Nat
    BY <1>2, <1>3, <1>4, <1>7, <1>12
  <2> HIDE DEF b, m
  <2>2. n - b \in 1 .. j /\ n = b + (n - b)
    BY <2>1
  <2> QED
    BY <2>2 DEF b
<1>14. c \in DOMAIN laid[k].pre
  <2>1. laid[k].pre \in Seq(Before(lines[k]))
    BY PiecesNone
  <2> DEFINE m == Len(laid[k].pre)
  <2>2. DOMAIN laid[k].pre = 1 .. m /\ m \in Nat /\ j \in 1 .. m
    BY <1>2, <2>1, LenProperties
  <2> HIDE DEF m
  <2> QED
    BY <2>2
<1>15. Stream[Pos(k, c)] = laid[k].pre[c] /\ laid[k].pre[c].op \in {"MOD_LOAD", "MOD_UNLOAD"}
  BY <1>14, LoadPlace
<1> QED
  BY <1>1, <1>13, <1>15 DEF Pos

LEMMA GoesPasses ==
  ASSUME LaidOut, CodeInv, WordAligned, PC \in DOMAIN code, Passed(PC, loaded), MoveInv,
         Ins.op \notin {"MOD_LOAD", "MOD_UNLOAD"}, NEW to \in Nat, Goes(to), ~bypassed'
  PROVE  PC' = to /\ Passed(to, loaded)
<1>1. PC' = to /\ (to # Following => ~JumpsOver(PC, to))
  BY DEF Goes
<1>2. CASE to = Following
  <2>1. Executed(loaded)
    <3>1. \A m : Load(m).op = "MOD_LOAD"
      BY DEF Load
    <3> QED
      BY <3>1 DEF Executed
  <2> QED
    BY <1>1, <1>2, <2>1, FollowPasses
<1>3. CASE to # Following
  <2>1. CodeIs
    <3>1. code # <<>>
      BY Nothing
    <3> QED
      BY <3>1 DEF CodeInv
  <2> QED
    BY <1>1, <1>3, <2>1, JumpPasses
<1> QED
  BY <1>2, <1>3

\* A MOD_LOAD that stands before a line loads the module of the line, if there is a slot.
LEMMA LoadPasses ==
  ASSUME LaidOut, CodeInv, WordAligned, Passed(PC, loaded), ExecModLoad, ~Full
  PROVE  Passed(PC', loaded')
<1>1. PC \in DOMAIN code
  BY DEF ExecModLoad, Ready
<1>2. CASE Faults
  BY <1>2 DEF Faults
<1>3. CASE ~Faults
  <2>1. PC' = Following
    BY <1>3 DEF ExecModLoad, Goes
  <2>2. loaded \subseteq loaded'
    BY <1>3 DEF ExecModLoad
  <2>3. ASSUME NEW k \in DOMAIN laid, lines[k].mod # "", Ins = Load(lines[k].mod)
        PROVE  InQuotes(lines[k].mod) \in loaded'
    <3> DEFINE m == lines[k].mod
               a == Arg("CONSTANT", constSlot[InQuotes(m)])
    <3>1. Named(a) = {InQuotes(m)} /\ ~Unnamed(a) /\ Load(m).args[2] = a
      BY <2>3, NamedIs
    <3>2. Ins.args[2] = a
      BY <2>3, <3>1
    <3>3. (\E name \in Named(Ins.args[2]) : loaded' = loaded \cup {name}) \/ Unnamed(Ins.args[2])
      BY <1>3 DEF ExecModLoad
    <3> HIDE DEF a, m
    <3>4. loaded' = loaded \cup {InQuotes(m)}
      BY <3>1, <3>2, <3>3
    <3> QED
      BY <3>4 DEF m
  <2>4. Executed(loaded')
    BY <2>3 DEF Executed
  <2> QED
    BY <1>1, <2>1, <2>2, <2>4, FollowPasses
<1> QED
  BY <1>2, <1>3

\* At a call the load before its line, or before an earlier one, lies behind.
LEMMA NoMiss ==
  ASSUME LaidOut, CodeInv, WordAligned, PC \in DOMAIN code, Passed(PC, loaded), Ins.op = "MOD_OP",
         \A k \in Lines : lines[k].op # "MOD_OP"
  PROVE  ~Misses(Ins.args[1])
<1>1. PICK n \in 1 .. Len(Stream) : PC = Start(Stream, n) /\ Ins = Stream[n]
  BY AtPC
<1>0. PICK k \in DOMAIN laid : \E j \in 1 .. Len(Pieces[k]) : n = Pos(k, j) /\ Stream[n] = Pieces[k][j]
  BY PlaceOf
<1>2. PICK j \in 1 .. Len(Pieces[k]) : n = Pos(k, j) /\ Stream[n] = Pieces[k][j]
  BY <1>0
<1>3. /\ Len(laid[k].pre) \in Nat /\ Len(Pieces[k]) = Len(laid[k].pre) + 1
      /\ \A c \in 1 .. Len(laid[k].pre) : Pieces[k][c] = laid[k].pre[c]
      /\ Pieces[k][Len(laid[k].pre) + 1] = laid[k].main
      /\ laid[k].pre \in Seq(Before(lines[k])) /\ MainOK(lines[k], laid[k].main) /\ k \in Lines
  BY PiecesNone
<1>4. j = Len(laid[k].pre) + 1
  <2> SUFFICES ASSUME j \in 1 .. Len(laid[k].pre) PROVE FALSE
    BY <1>3
  <2>1. j \in DOMAIN laid[k].pre
    BY <1>3, LenProperties
  <2>2. laid[k].pre[j].op \in {"MOD_LOAD", "MOD_UNLOAD"}
    BY <2>1, LoadPlace
  <2> QED
    BY <1>1, <1>2, <1>3, <2>2
<1> DEFINE m == lines[k].mod
           a == Arg("CONSTANT", constSlot[InQuotes(m)])
<1>5. Ins = laid[k].main
  BY <1>1, <1>2, <1>3, <1>4
<1>6. m # "" /\ Ins.args[1] = a
  <2>1. "MOD_OP" \notin Forwards \cup Backs
    BY DEF Forwards, Backs, Forward, Back, Jumps
  <2>2. m = "" => Ins.op = lines[k].op \/ Ins.op \in Forwards \cup Backs
    BY <1>3, <1>5 DEF MainOK
  <2>3. m # ""
    BY <1>3, <2>1, <2>2
  <2> QED
    BY <1>3, <1>5, <2>3 DEF MainOK
<1>7. Named(a) = {InQuotes(m)} /\ Slotted
  BY <1>6, NamedIs, LoadedModules
<1>8. LoadedBy(m, k)
  BY <1>6 DEF LaidOut, LayoutInv, Provided
<1>9. PICK c \in 1 .. k : /\ c \in DOMAIN laid /\ lines[c].mod = m
                          /\ \E b \in DOMAIN laid[c].pre : laid[c].pre[b] = Load(m)
  BY <1>8 DEF LoadedBy
<1>10. PICK b \in DOMAIN laid[c].pre : laid[c].pre[b] = Load(m)
  BY <1>9
<1>11. LoadAt(c, b)
  BY <1>6, <1>9, <1>10 DEF LoadAt
<1>12. Pos(c, b) < n /\ Pos(c, b) \in 1 .. Len(Stream)
  <2>1. b \in 1 .. Len(Pieces[c]) /\ Pos(c, b) \in 1 .. Len(Stream) /\ b \in 1 .. Len(laid[c].pre)
    BY <1>9, LoadPlace
  <2>2. c < k \/ c = k
    <3>1. k \in Nat
      BY LaidIs DEF LaidOut
    <3> QED
      BY <1>9, <3>1
  <2>3. c = k => b < j
    BY <1>3, <1>4, <2>1
  <2> QED
    BY <1>2, <1>9, <2>1, <2>2, <2>3, PosOrder
<1>13. Start(Stream, Pos(c, b)) < PC
  <2>1. Stream \in Seq(Written) /\ Len(Stream) \in Nat
    BY StreamIs
  <2> DEFINE p == Pos(c, b)
  <2>2. p \in 1 .. Len(Stream) /\ p < n
    BY <1>12
  <2> HIDE DEF p
  <2>3. p \in 1 .. Len(Stream) + 1 /\ n \in 1 .. Len(Stream) + 1
    BY <2>1, <2>2
  <2>4. Start(Stream, p) < Start(Stream, n)
    BY <2>1, <2>2, <2>3, StartGrows
  <2> QED
    BY <1>1, <2>4 DEF p
<1>14. InQuotes(m) \in loaded
  BY <1>9, <1>11, <1>13 DEF Passed
<1>15. a.type = "CONSTANT"
  <2>1. m \in Modules
    BY <1>6, LoadedModules
  <2>2. constSlot[InQuotes(m)] \in Nat
    BY <1>7, <2>1, LoadIs DEF LaidOut
  <2> QED
    BY <2>2, ArgIs
<1> HIDE DEF m, a
<1> QED
  BY <1>6, <1>7, <1>14, <1>15 DEF Misses

LEMMA ExecKeepsRun ==
  ASSUME LaidOut, CodeInv, MoveInv, RunInv, Exec
  PROVE  RunInv'
<1>0. /\ UNCHANGED <<given, i, parsed, slots, layout, code>>
      /\ phase = "run" /\ (phase' = phase \/ phase' \in Outcomes)
  BY ExecKeeps
<1>1. WordAligned' = WordAligned /\ Lines' = Lines /\ lines' = lines /\ code' = code
  BY <1>0 DEF given, parsed, WordAligned, Lines
<1> SUFFICES ASSUME WordAligned, ~bypassed', ~Full', code # <<>> \/ phase' = "missing"
             PROVE  /\ code # <<>> => Passed(PC', loaded')
                    /\ phase' = "missing" => \E k \in Lines : lines[k].op = "MOD_OP"
  BY <1>0, <1>1, PassedSame DEF RunInv
<1>16. ~Full
  <2>1. CASE loaded' = loaded
    BY <2>1 DEF Full
  <2>2. CASE ExecModLoad
    <3>1. Full => loaded' = loaded
      BY <2>2 DEF ExecModLoad, Faults
    <3> QED
      BY <3>1 DEF Full
  <2>3. CASE ExecJump \/ ExecComputed \/ ExecThreadStart \/ ExecModOp
    BY <2>1, <2>3 DEF ExecJump, ExecComputed, ExecThreadStart, ExecModOp, Faults
  <2>4. CASE ExecModUnload \/ ExecModUnloadAll
    BY <2>1, <2>4 DEF ExecModUnload, ExecModUnloadAll, Faults
  <2>5. CASE ExecIllegal \/ ExecOther \/ ExecEnds
    BY <2>1, <2>5 DEF ExecIllegal, ExecOther, ExecEnds, machine
  <2> QED
    BY <2>2, <2>3, <2>4, <2>5 DEF Exec
<1>2. ASSUME NEW ops, Ready(ops)
      PROVE  /\ PC \in DOMAIN code /\ code # <<>> /\ Legal /\ Ins.op \in ops
             /\ Following \in Nat /\ Ins.args \in Seq(ArgType) /\ Len(Ins.args) \in Nat
             /\ Ins.op \in Forwards \cup Backs \cup {"THREAD_START"} => Len(Ins.args) >= 1
  <2>1. PC \in DOMAIN code /\ Legal /\ Ins.op \in ops
    BY <1>2 DEF Ready
  <2>2. code # <<>>
    BY <2>1, Nothing
  <2> QED
    BY <2>1, <2>2, HasArgs, FollowingIs
<1>3. ASSUME ~bypassed PROVE code # <<>> => Passed(PC, loaded)
  BY <1>3, <1>16 DEF RunInv
<1>4. ASSUME NEW ops, Ready(ops), ops \cap {"MOD_LOAD", "MOD_UNLOAD"} = {}, NEW to \in Nat, Goes(to), loaded' = loaded
      PROVE  Passed(PC', loaded')
  <2>1. ~bypassed
    BY <1>4 DEF Goes
  <2>2. PC \in DOMAIN code /\ Ins.op \notin {"MOD_LOAD", "MOD_UNLOAD"} /\ Passed(PC, loaded)
    BY <1>2, <1>3, <1>4, <2>1
  <2> QED
    BY <1>4, <2>2, GoesPasses
<1>5. ASSUME PC' = PC, loaded' = loaded, bypassed' = bypassed PROVE code # <<>> => Passed(PC', loaded')
  BY <1>3, <1>5
<1>6. "MOD_LOAD" \notin Forwards \cup Backs \cup Computed /\ "MOD_UNLOAD" \notin Forwards \cup Backs \cup Computed
  BY DEF Forwards, Backs, Forward, Back, Jumps, Computed
<1>7. CASE ExecJump
  <2> DEFINE offset == Ins.args[1].val
  <2>1. Ready(Forwards \cup Backs) /\ phase' = phase /\ loaded' = loaded
    BY <1>7 DEF ExecJump
  <2>2. offset \in Nat /\ Following \in Nat
    <3>1. Ins.args \in Seq(ArgType) /\ Len(Ins.args) \in Nat /\ Len(Ins.args) >= 1 /\ Following \in Nat
      BY <1>2, <2>1
    <3>2. 1 \in 1 .. Len(Ins.args)
      BY <3>1
    <3> QED
      BY <3>1, <3>2, HasArg
  <2>3. PICK taken \in BOOLEAN :
          Goes(IF ~taken \/ offset = 0 THEN Following
               ELSE IF Ins.op \in Forwards THEN (PC + offset) % Span ELSE (PC - offset) % Span)
    BY <1>7 DEF ExecJump
  <2> HIDE DEF offset
  <2>4. (PC + offset) % Span \in Nat /\ (PC - offset) % Span \in Nat
    BY <2>2, JumpLands DEF MoveInv
  <2>5. PICK to \in Nat : Goes(to)
    BY <2>2, <2>3, <2>4
  <2>6. (Forwards \cup Backs) \cap {"MOD_LOAD", "MOD_UNLOAD"} = {}
    BY <1>6
  <2> QED
    BY <1>0, <1>4, <2>1, <2>5, <2>6
<1>8. CASE ExecComputed
  <2>1. Ready(Computed) /\ phase' = phase /\ loaded' = loaded
    BY <1>8 DEF ExecComputed
  <2>2. PICK to \in 0 .. Span - 1 : Goes(to)
    BY <1>8 DEF ExecComputed
  <2>3. to \in Nat /\ Computed \cap {"MOD_LOAD", "MOD_UNLOAD"} = {}
    BY <1>6, SpanIs
  <2> QED
    BY <1>0, <1>4, <2>1, <2>2, <2>3
<1>9. CASE ExecThreadStart
  <2> DEFINE j == IF Len(Ins.args) = 1 THEN 1 ELSE 2
             start == Ins.args[j]
  <2>1. Ready({"THREAD_START"})
    BY <1>9 DEF ExecThreadStart
  <2>2. j \in 1 .. Len(Ins.args) /\ Following \in Nat /\ Ins.args \in Seq(ArgType)
    <3>1. Following \in Nat /\ Ins.args \in Seq(ArgType) /\ Len(Ins.args) \in Nat /\ Len(Ins.args) >= 1
      BY <1>2, <2>1
    <3> DEFINE n == Len(Ins.args)
    <3>2. n \in Nat /\ n >= 1 /\ j = IF n = 1 THEN 1 ELSE 2
      BY <3>1
    <3> HIDE DEF n, j
    <3>3. j \in 1 .. n
      BY <3>2
    <3> QED
      BY <3>1, <3>3 DEF n
  <2>3. start.val \in Nat
    BY <2>2, HasArg
  <2>4. \/ (\E to \in {Following, start.val} : Goes(to)) /\ loaded' = loaded /\ phase' = phase
        \/ Faults
    BY <1>9 DEF ExecThreadStart
  <2> HIDE DEF start
  <2>5. CASE Faults
    BY <1>5, <2>5 DEF Faults
  <2>6. CASE ~Faults
    <3>1. PICK to \in Nat : Goes(to)
      BY <2>2, <2>3, <2>4, <2>6
    <3> QED
      BY <1>0, <1>4, <2>1, <2>4, <2>6, <3>1
  <2> QED
    BY <2>5, <2>6
<1>10. CASE ExecModLoad
  <2>1. /\ Ready({"MOD_LOAD"})
        /\ \/ Goes(Following) /\ phase' = phase
           \/ Faults
    BY <1>10 DEF ExecModLoad
  <2>2. ~bypassed /\ (phase' = phase \/ phase' = "fault")
    <3>1. CASE Goes(Following) /\ phase' = phase
      BY <3>1 DEF Goes
    <3>2. CASE Faults
      BY <3>2 DEF Faults
    <3> QED
      BY <2>1, <3>1, <3>2
  <2>3. code # <<>> => Passed(PC, loaded)
    BY <1>3, <2>2
  <2> QED
    BY <1>0, <1>2, <1>10, <1>16, <2>1, <2>2, <2>3, LoadPasses
<1>11. CASE ExecModUnload
  <2>1. Ready({"MOD_UNLOAD"}) /\ ((Goes(Following) /\ UNCHANGED <<loaded, phase>>) \/ Faults)
    BY <1>11 DEF ExecModUnload
  <2>2. CASE Faults
    BY <1>5, <2>2 DEF Faults
  <2>3. CASE Goes(Following) /\ UNCHANGED <<loaded, phase>>
    <3>1. ~bypassed /\ PC' = Following
      BY <2>3 DEF Goes
    <3>2. PC \in DOMAIN code /\ Passed(PC, loaded) /\ Ins.op = "MOD_UNLOAD"
      BY <1>2, <1>3, <2>1, <3>1
    <3>3. Executed(loaded)
      <4>1. \A m : Load(m).op = "MOD_LOAD"
        BY DEF Load
      <4> QED
        BY <3>2, <4>1 DEF Executed
    <3>4. Passed(Following, loaded)
      BY <3>2, <3>3, FollowPasses
    <3> QED
      BY <1>0, <2>3, <3>1, <3>4
  <2> QED
    BY <2>1, <2>2, <2>3
<1>12. CASE ExecModOp
  <2>1. /\ Ready({"MOD_OP"})
        /\ \/ Goes(Following) /\ UNCHANGED <<loaded, phase>>
           \/ Misses(Ins.args[1]) /\ UNCHANGED <<PC, loaded, bypassed>>
           \/ Faults
    BY <1>12 DEF ExecModOp
  <2>2. CASE Goes(Following) /\ UNCHANGED <<loaded, phase>>
    <3>1. Following \in Nat
      BY <1>2, <2>1
    <3>2. {"MOD_OP"} \cap {"MOD_LOAD", "MOD_UNLOAD"} = {}
      OBVIOUS
    <3> QED
      BY <1>0, <1>4, <2>1, <2>2, <3>1, <3>2
  <2>3. CASE Faults
    BY <1>5, <2>3 DEF Faults
  <2>4. CASE Misses(Ins.args[1]) /\ UNCHANGED <<PC, loaded, bypassed>>
    <3>1. PC \in DOMAIN code /\ Passed(PC, loaded) /\ Ins.op = "MOD_OP"
      BY <1>2, <1>3, <2>1, <2>4
    <3>2. \E k \in Lines : lines[k].op = "MOD_OP"
      BY <2>4, <3>1, NoMiss
    <3> QED
      BY <2>4, <3>1, <3>2
  <2> QED
    BY <2>1, <2>2, <2>3, <2>4
<1>13. CASE ExecModUnloadAll
  BY <1>13 DEF ExecModUnloadAll
<1>14. CASE ExecOther
  <2>1. PC \in DOMAIN code /\ Goes(Following) /\ phase' = phase /\ loaded' = loaded /\ Ins.op \notin {"MOD_LOAD", "MOD_UNLOAD"}
    BY <1>14 DEF ExecOther
  <2>2. ~bypassed /\ Following \in Nat
    BY <2>1, FollowingIs DEF Goes
  <2>3. Passed(PC, loaded)
    BY <1>3, <2>1, <2>2, Nothing
  <2> QED
    BY <1>0, <2>1, <2>2, <2>3, GoesPasses
<1>15. CASE ExecIllegal \/ ExecEnds
  <2>1. UNCHANGED <<PC, loaded, bypassed>> /\ phase' # "missing"
    BY <1>15 DEF ExecIllegal, ExecEnds, machine
  <2> QED
    BY <1>5, <2>1
<1> QED
  BY <1>7, <1>8, <1>9, <1>10, <1>11, <1>12, <1>13, <1>14, <1>15 DEF Exec

LEMMA NonePassed == LaidOut /\ WordAligned /\ PC = EntryPoint => Passed(PC, loaded)
<1> SUFFICES ASSUME LaidOut, WordAligned, PC = EntryPoint, NEW k \in DOMAIN laid, NEW j \in DOMAIN laid[k].pre,
                    Start(Stream, Pos(k, j)) < PC
             PROVE  FALSE
  BY DEF Passed
<1> DEFINE p == Pos(k, j)
<1>1. p \in 1 .. Len(Stream) /\ Stream \in Seq(Written) /\ Len(Stream) \in Nat
  BY LoadPlace, StreamIs
<1>2. Start(Stream, p) < EntryPoint
  OBVIOUS
<1> HIDE DEF p
<1>3. p \in 1 .. Len(Stream) + 1
  BY <1>1
<1>4. Start(Stream, p) \in Nat /\ Start(Stream, p) >= EntryPoint
  BY <1>1, <1>3, StartIs
<1> QED
  BY <1>2, <1>4, SpanIs

LEMMA RunNext ==
  ASSUME LaidOut, CodeInv, MoveInv, RunInv, [Next \/ Stopped]_vars, LaidOut', CodeInv'
  PROVE  RunInv'
<1>1. CASE Exec
  BY <1>1, ExecKeepsRun
<1>2. CASE UNCHANGED vars
  <2>1. UNCHANGED <<given, i, parsed, slots, layout, code>> /\ UNCHANGED <<PC, loaded, bypassed, phase>>
    BY <1>2 DEF vars, machine
  <2>2. WordAligned' = WordAligned /\ Lines' = Lines /\ lines' = lines /\ code' = code
    BY <2>1 DEF given, parsed, WordAligned, Lines
  <2>3. Passed(PC, loaded) => Passed(PC, loaded)'
    BY <2>1, PassedSame
  <2>4. Full' = Full
    BY <2>1 DEF Full
  <2> QED
    BY <2>1, <2>2, <2>3, <2>4 DEF RunInv
<1>3. CASE ParseLine \/ ParseEnds \/ Flatten \/ Layout \/ LayoutEnds \/ Resolve \/ Write
  <2>1. phase' # "missing"
    <3>1. CASE ParseLine
      <4> DEFINE line == Parsed(text[i])
      <4>1. line.end \in Ends
        BY ParsedEnds
      <4>2. phase = "parse" /\ (phase' = phase \/ phase' = line.end)
        BY <3>1 DEF ParseLine, Accept, Refuse
      <4> HIDE DEF line
      <4> QED
        BY <4>1, <4>2 DEF Ends
    <3>2. CASE ParseEnds \/ Flatten
      BY <3>2 DEF ParseEnds, Flatten
    <3>3. CASE Layout \/ LayoutEnds \/ Resolve \/ Write
      BY <3>3 DEF Layout, LayoutEnds, Resolve, Write
    <3> QED
      BY <1>3, <3>1, <3>2, <3>3
  <2>2. code' = <<>> \/ (CodeIs' /\ PC' = EntryPoint)
    <3>1. CASE Write
      <4>1. phase = "resolve" /\ PC' = PC
        BY <3>1 DEF Write
      <4> QED
        BY <4>1 DEF CodeInv
    <3>2. CASE ParseLine \/ ParseEnds \/ Flatten \/ Layout \/ LayoutEnds \/ Resolve
      <4>1. phase \in {"parse", "flatten", "layout", "resolve"} /\ code' = code
        BY <3>2 DEF ParseLine, ParseEnds, Flatten, Layout, LayoutEnds, Resolve, machine
      <4> QED
        BY <4>1 DEF CodeInv
    <3> QED
      BY <1>3, <3>1, <3>2
  <2>3. CASE code' = <<>>
    BY <2>1, <2>3 DEF RunInv
  <2>4. CASE CodeIs' /\ PC' = EntryPoint
    <3>1. ASSUME WordAligned' PROVE Passed(PC, loaded)'
      <4>1. (LaidOut /\ WordAligned /\ PC = EntryPoint => Passed(PC, loaded))'
        BY NonePassed, PTL
      <4> QED
        BY <2>4, <3>1, <4>1
    <3> QED
      BY <2>1, <3>1 DEF RunInv
  <2> QED
    BY <2>2, <2>3, <2>4
<1> QED
  BY <1>1, <1>2, <1>3 DEF Next, Stopped, Exec

\* A module opcode finds its module loaded (builtin_MOD_OP), whatever the cache
\* of the assembler has evicted and wherever threads jump, unless the machine's
\* table is full: behind the thread lie only loads it has executed, each of which
\* found a slot, and a line with a module stands behind the load layout put
\* before it or an earlier one.  That is as long as the thread jumped over no line
\* that uses a module and none unloaded one, and no line is a MOD_OP itself.
THEOREM CalledWhenLoaded == Spec => []LoadedWhenCalled
<1> DEFINE Inv == LaidOut /\ CodeInv /\ MoveInv /\ RunInv
<1>1. Init => Inv
  <2> SUFFICES ASSUME Init PROVE Inv
    OBVIOUS
  <2>1. MoveInv /\ RunInv
    BY SpanIs DEF Init, MoveInv, RunInv
  <2> QED
    BY <2>1, LaidOutInit, CodeInit
<1>2. Inv /\ [Next \/ Stopped]_vars => Inv'
  BY LaidOutNext, CodeNext, MoveNext, RunNext
<1>3. Inv => LoadedWhenCalled
  <2> SUFFICES ASSUME Inv, phase = "missing", WordAligned, \A k \in Lines : lines[k].op # "MOD_OP", ~Full
               PROVE  bypassed
    BY DEF LoadedWhenCalled
  <2> QED
    BY DEF RunInv, MoveInv
<1> QED
  BY <1>1, <1>2, <1>3, PTL DEF Spec

============================================
