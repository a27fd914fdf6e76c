---------------------------- MODULE BasicLemmas -----------------------------
(***************************************************************************)
(* Induction on the naturals for sets, the least-number principle, loops:  *)
(* what running a loop body n times computes, and parts of sequences.      *)
(* Everything is about sets and functions, so that the lemmas can be       *)
(* instantiated.                                                           *)
(***************************************************************************)
EXTENDS Integers, FiniteSetTheorems, SequenceTheorems, TLAPS

(* The interval 0..n has one element more than 1..n: an injection of the   *)
(* bigger one into the smaller one does not exist.                         *)
LEMMA NoShift ==
  ASSUME NEW n \in Nat, NEW f \in [0 .. n -> 1 .. n]
  PROVE  \E x, y \in 0 .. n : x # y /\ f[x] = f[y]
<1>1. IsFiniteSet(0 .. n) /\ Cardinality(0 .. n) = n + 1
  BY FS_Interval
<1>2. IsFiniteSet(1 .. n) /\ Cardinality(1 .. n) = n
  BY FS_Interval
<1>3. Cardinality(1 .. n) < Cardinality(0 .. n)
  BY <1>1, <1>2
<1> QED
  BY <1>1, <1>2, <1>3, FS_PigeonHole

(* Induction: a set that contains 0 and the successor of each natural      *)
(* number in it contains every natural number.  If m were outside, n + 1   *)
(* for n in the set and n for n outside would map 0..m into 1..m, one to   *)
(* one below m.                                                            *)
LEMMA SetInduction ==
  ASSUME NEW P, 0 \in P, \A n \in Nat : n \in P => n + 1 \in P
  PROVE  \A n \in Nat : n \in P
<1> SUFFICES ASSUME NEW m \in Nat, m \notin P
             PROVE  FALSE
  OBVIOUS
<1> DEFINE below(n) == n \in P
           f == [n \in 0 .. m |-> IF below(n) THEN n + 1 ELSE n]
<1>1. f \in [0 .. m -> 1 .. m]
  <2> SUFFICES ASSUME NEW n \in 0 .. m
               PROVE  (IF below(n) THEN n + 1 ELSE n) \in 1 .. m
    OBVIOUS
  <2>1. CASE below(n)
    <3>1. n # m
      BY <2>1
    <3> QED
      BY <2>1, <3>1
  <2>2. CASE ~ below(n)
    <3>1. n # 0
      BY <2>2
    <3> QED
      BY <2>2, <3>1
  <2> QED
    BY <2>1, <2>2
<1>2. PICK x \in 0 .. m, y \in 0 .. m : x # y /\ f[x] = f[y]
  BY <1>1, NoShift
<1>3. f[x] = (IF below(x) THEN x + 1 ELSE x) /\ f[y] = (IF below(y) THEN y + 1 ELSE y)
  OBVIOUS
<1> HIDE DEF f
<1>4. CASE below(x) /\ ~ below(y)
  <2>1. y = x + 1
    BY <1>2, <1>3, <1>4
  <2>2. x + 1 \in P
    BY <1>4
  <2> QED
    BY <1>4, <2>1, <2>2
<1>5. CASE below(y) /\ ~ below(x)
  <2>1. x = y + 1
    BY <1>2, <1>3, <1>5
  <2>2. y + 1 \in P
    BY <1>5
  <2> QED
    BY <1>5, <2>1, <2>2
<1>6. CASE below(x) /\ below(y)
  <2>1. x + 1 = y + 1
    BY <1>2, <1>3, <1>6
  <2> QED
    BY <1>2, <2>1
<1>7. CASE ~ below(x) /\ ~ below(y)
  BY <1>2, <1>3, <1>7
<1> QED
  BY <1>4, <1>5, <1>6, <1>7

(* Every set of natural numbers that is not empty has a least element.     *)
LEMMA LeastElement ==
  ASSUME NEW S \in SUBSET Nat, NEW s \in S
  PROVE  \E m \in S : \A k \in S : m <= k
<1> SUFFICES ASSUME \A m \in S : \E k \in S : k < m
             PROVE  FALSE
  OBVIOUS
<1> DEFINE P == {n \in Nat : \A k \in S : n <= k}
<1>1. 0 \in P
  OBVIOUS
<1>2. ASSUME NEW n \in Nat, n \in P
      PROVE  n + 1 \in P
  <2>1. n \notin S
    BY <1>2
  <2>2. \A k \in S : n <= k /\ n # k
    BY <1>2, <2>1
  <2> QED
    BY <2>2
<1>3. s + 1 \in P
  <2> HIDE DEF P
  <2> QED
    BY <1>1, <1>2, SetInduction
<1> QED
  BY <1>3

-----------------------------------------------------------------------------
(* Running the body F of a loop, again and again, from the state s0.       *)

LoopRuns(S, F, s0, n) ==
  {g \in [0 .. n -> S] : g[0] = s0 /\ \A i \in 1 .. n : g[i] = F[g[i - 1]]}

LEMMA RunsExist ==
  ASSUME NEW S, NEW F \in [S -> S], NEW s0 \in S
  PROVE  \A n \in Nat : LoopRuns(S, F, s0, n) # {}
<1> DEFINE P == {n \in Nat : LoopRuns(S, F, s0, n) # {}}
<1>1. 0 \in P
  <2>1. [i \in 0 .. 0 |-> s0] \in LoopRuns(S, F, s0, 0)
    BY DEF LoopRuns
  <2> QED
    BY <2>1
<1>2. ASSUME NEW n \in Nat, n \in P
      PROVE  n + 1 \in P
  <2>1. PICK g \in LoopRuns(S, F, s0, n) : TRUE
    BY <1>2
  <2> DEFINE h == [i \in 0 .. n + 1 |-> IF i = n + 1 THEN F[g[n]] ELSE g[i]]
  <2>2. g \in [0 .. n -> S] /\ g[0] = s0 /\ \A i \in 1 .. n : g[i] = F[g[i - 1]]
    BY <2>1 DEF LoopRuns
  <2>3. F[g[n]] \in S
    BY <2>2
  <2>4. h \in [0 .. n + 1 -> S] /\ h[0] = s0
    BY <2>2, <2>3
  <2>5. ASSUME NEW i \in 1 .. n + 1
        PROVE  h[i] = F[h[i - 1]]
    <3>1. CASE i = n + 1
      BY <3>1, <2>2
    <3>2. CASE i # n + 1
      BY <3>2, <2>2
    <3> QED
      BY <3>1, <3>2
  <2>6. h \in LoopRuns(S, F, s0, n + 1)
    <3> HIDE DEF h
    <3> QED
      BY <2>4, <2>5 DEF LoopRuns
  <2> QED
    BY <2>6
<1>3. \A n \in Nat : n \in P
  <2> HIDE DEF P
  <2> QED
    BY <1>1, <1>2, SetInduction
<1> QED
  BY <1>3

LEMMA RunsAgree ==
  ASSUME NEW S, NEW F \in [S -> S], NEW s0 \in S
  PROVE  \A i \in Nat : \A n, m \in Nat :
           \A g \in LoopRuns(S, F, s0, n), h \in LoopRuns(S, F, s0, m) :
             i <= n /\ i <= m => g[i] = h[i]
<1> DEFINE Agree(i) == \A n, m \in Nat :
                         \A g \in LoopRuns(S, F, s0, n), h \in LoopRuns(S, F, s0, m) :
                           i <= n /\ i <= m => g[i] = h[i]
           P == {i \in Nat : Agree(i)}
<1>1. 0 \in P
  BY DEF LoopRuns
<1>2. ASSUME NEW i \in Nat, i \in P
      PROVE  i + 1 \in P
  <2> SUFFICES ASSUME NEW n \in Nat, NEW m \in Nat,
                      NEW g \in LoopRuns(S, F, s0, n), NEW h \in LoopRuns(S, F, s0, m),
                      i + 1 <= n, i + 1 <= m
               PROVE  g[i + 1] = h[i + 1]
    OBVIOUS
  <2>1. g[i] = h[i]
    BY <1>2
  <2>2. i + 1 \in 1 .. n /\ i + 1 \in 1 .. m /\ (i + 1) - 1 = i
    OBVIOUS
  <2>3. g[i + 1] = F[g[i]] /\ h[i + 1] = F[h[i]]
    BY <2>2 DEF LoopRuns
  <2> QED
    BY <2>1, <2>3
<1>3. \A i \in Nat : i \in P
  <2> HIDE DEF P
  <2> QED
    BY <1>1, <1>2, SetInduction
<1> QED
  BY <1>3

(* The recursive function that runs F from s0 is well defined: this is the *)
(* definition that the module LruCache gives of a loop.                    *)
LEMMA LoopDefined ==
  ASSUME NEW S, NEW F \in [S -> S], NEW s0 \in S
  PROVE  \E run : run = [i \in Nat |-> IF i = 0 THEN s0 ELSE F[run[i - 1]]]
<1> DEFINE G(i) == CHOOSE g \in LoopRuns(S, F, s0, i) : TRUE
           r == [i \in Nat |-> G(i)[i]]
<1>1. \A i \in Nat : G(i) \in LoopRuns(S, F, s0, i)
  BY RunsExist
<1> HIDE DEF G
<1>2. r[0] = s0
  BY <1>1 DEF LoopRuns
<1>3. ASSUME NEW i \in Nat, i # 0
      PROVE  r[i] = F[r[i - 1]]
  <2>1. i - 1 \in Nat /\ i \in 1 .. i /\ i - 1 <= i
    BY <1>3
  <2>2. G(i)[i] = F[G(i)[i - 1]]
    BY <1>1, <2>1 DEF LoopRuns
  <2>3. G(i)[i - 1] = G(i - 1)[i - 1]
    BY <1>1, <2>1, RunsAgree
  <2> QED
    BY <2>1, <2>2, <2>3
<1>4. r = [i \in Nat |-> IF i = 0 THEN s0 ELSE F[r[i - 1]]]
  <2>1. \A i \in Nat : r[i] = IF i = 0 THEN s0 ELSE F[r[i - 1]]
    BY <1>2, <1>3
  <2>2. r = [i \in Nat |-> r[i]]
    OBVIOUS
  <2> HIDE DEF r
  <2> QED
    BY <2>1, <2>2
<1> QED
  BY <1>4

(* What holds before a loop and is preserved by its body holds throughout. *)
LEMMA LoopInvariant ==
  ASSUME NEW S, NEW F \in [S -> S], NEW s0 \in S, NEW run,
         run = [i \in Nat |-> IF i = 0 THEN s0 ELSE F[run[i - 1]]],
         NEW J \in SUBSET S, s0 \in J, \A s \in J : F[s] \in J
  PROVE  \A i \in Nat : run[i] \in J
<1> DEFINE P == {i \in Nat : run[i] \in J}
<1>1. 0 \in P
  OBVIOUS
<1>2. ASSUME NEW i \in Nat, i \in P
      PROVE  i + 1 \in P
  <2>1. i + 1 \in Nat /\ i + 1 # 0 /\ (i + 1) - 1 = i
    OBVIOUS
  <2>2. run[i + 1] = F[run[i]]
    BY <2>1
  <2> QED
    BY <1>2, <2>2
<1>3. \A i \in Nat : i \in P
  <2> HIDE DEF P
  <2> QED
    BY <1>1, <1>2, SetInduction
<1> QED
  BY <1>3

(* The same for a recursive function whose step depends on its number, as  *)
(* the one of module AsyncCache that runs through a sequence.              *)
StepRun(F, s0, n, run) == run[0] = s0 /\ \A i \in 1 .. n : run[i] = F[i][run[i - 1]]

LEMMA StepsDefined ==
  ASSUME NEW S, NEW n \in Nat, NEW F \in [1 .. n -> [S -> S]], NEW s0 \in S
  PROVE  \E run \in [0 .. n -> S] : StepRun(F, s0, n, run)
<1> DEFINE Good(m, g) == g[0] = s0 /\ \A i \in 1 .. m : g[i] = F[i][g[i - 1]]
           P == {m \in Nat : m <= n => \E g \in [0 .. m -> S] : Good(m, g)}
<1>1. 0 \in P
  <2> DEFINE g == [i \in 0 .. 0 |-> s0]
  <2>1. g \in [0 .. 0 -> S] /\ Good(0, g)
    OBVIOUS
  <2> QED
    BY <2>1
<1>2. ASSUME NEW m \in Nat, m \in P
      PROVE  m + 1 \in P
  <2> SUFFICES ASSUME m + 1 <= n
               PROVE  \E h \in [0 .. m + 1 -> S] : Good(m + 1, h)
    OBVIOUS
  <2>1. PICK g \in [0 .. m -> S] : Good(m, g)
    BY <1>2
  <2> DEFINE e == F[m + 1][g[m]]
             h == [i \in 0 .. m + 1 |-> IF i = m + 1 THEN e ELSE g[i]]
  <2>2. e \in S
    OBVIOUS
  <2> HIDE DEF e
  <2>3. h \in [0 .. m + 1 -> S]
    BY <2>2
  <2>4. h[0] = s0
    BY <2>1
  <2>5. ASSUME NEW i \in 1 .. m + 1
        PROVE  h[i] = F[i][h[i - 1]]
    <3>1. i - 1 \in 0 .. m /\ h[i - 1] = g[i - 1]
      OBVIOUS
    <3>2. CASE i = m + 1
      BY <3>1, <3>2 DEF e
    <3>3. CASE i # m + 1
      <4>1. i \in 1 .. m /\ h[i] = g[i]
        BY <3>3
      <4> QED
        BY <2>1, <3>1, <4>1
    <3> QED
      BY <3>2, <3>3
  <2> HIDE DEF h
  <2> QED
    BY <2>3, <2>4, <2>5
<1>3. \A m \in Nat : m \in P
  <2> HIDE DEF P
  <2> QED
    BY <1>1, <1>2, SetInduction
<1>4. n \in P
  BY <1>3
<1> QED
  BY <1>4 DEF StepRun

-----------------------------------------------------------------------------
(* Sequences, position by position.                                        *)

WithoutAt(s, j) == SubSeq(s, 1, j - 1) \o SubSeq(s, j + 1, Len(s))

LEMMA WithoutAtIs ==
  ASSUME NEW S, NEW s \in Seq(S), NEW j \in 1 .. Len(s)
  PROVE  LET r == WithoutAt(s, j)
         IN  /\ r \in Seq(S) /\ Len(r) = Len(s) - 1
             /\ \A i \in 1 .. Len(s) - 1 : r[i] = IF i < j THEN s[i] ELSE s[i + 1]
<1> DEFINE a == SubSeq(s, 1, j - 1)
           b == SubSeq(s, j + 1, Len(s))
<1>1. Len(s) \in Nat /\ j \in Int /\ j - 1 \in Int /\ j + 1 \in Int /\ 1 <= j /\ j <= Len(s)
  BY LenProperties
<1>2. \A i \in 1 .. Len(s) : s[i] \in S
  BY ElementOfSeq
<1>3. a \in Seq(S) /\ Len(a) = j - 1 /\ \A i \in 1 .. j - 1 : a[i] = s[i]
  <2>1. \A i \in 1 .. j - 1 : s[i] \in S
    BY <1>1, <1>2
  <2>2. /\ a \in Seq(S) /\ Len(a) = IF 1 <= j - 1 THEN j - 1 - 1 + 1 ELSE 0
        /\ \A i \in 1 .. j - 1 - 1 + 1 : a[i] = s[1 + i - 1]
    BY <1>1, <2>1, SubSeqProperties
  <2> HIDE DEF a
  <2> QED
    BY <1>1, <2>2
<1>4. b \in Seq(S) /\ Len(b) = Len(s) - j /\ \A i \in 1 .. Len(s) - j : b[i] = s[j + i]
  <2>1. \A i \in j + 1 .. Len(s) : s[i] \in S
    BY <1>1, <1>2
  <2>2. /\ b \in Seq(S) /\ Len(b) = IF j + 1 <= Len(s) THEN Len(s) - (j + 1) + 1 ELSE 0
        /\ \A i \in 1 .. Len(s) - (j + 1) + 1 : b[i] = s[j + 1 + i - 1]
    BY <1>1, <2>1, SubSeqProperties
  <2> HIDE DEF b
  <2>3. \A i \in 1 .. Len(s) - j : i \in 1 .. Len(s) - (j + 1) + 1 /\ j + 1 + i - 1 = j + i
    BY <1>1
  <2> QED
    BY <1>1, <2>2, <2>3
<1>5. WithoutAt(s, j) = a \o b
  BY DEF WithoutAt
<1> HIDE DEF a, b
<1>6. /\ a \o b \in Seq(S) /\ Len(a \o b) = Len(a) + Len(b)
      /\ \A i \in 1 .. Len(a) + Len(b) : (a \o b)[i] = IF i <= Len(a) THEN a[i] ELSE b[i - Len(a)]
  BY <1>3, <1>4, ConcatProperties
<1>7. ASSUME NEW i \in 1 .. Len(s) - 1
      PROVE  (a \o b)[i] = IF i < j THEN s[i] ELSE s[i + 1]
  <2>1. i \in 1 .. Len(a) + Len(b)
    BY <1>1, <1>3, <1>4
  <2>2. CASE i < j
    BY <1>1, <1>3, <1>6, <2>1, <2>2
  <2>3. CASE ~ (i < j)
    <3>1. i - (j - 1) \in 1 .. Len(s) - j /\ j + (i - (j - 1)) = i + 1
      BY <1>1, <2>3
    <3> QED
      BY <1>1, <1>3, <1>4, <1>6, <2>1, <2>3, <3>1
  <2> QED
    BY <2>2, <2>3
<1> QED
  BY <1>1, <1>3, <1>4, <1>5, <1>6, <1>7

(* An entry in front of a sequence.                                        *)
LEMMA InFrontIs ==
  ASSUME NEW S, NEW s \in Seq(S), NEW e \in S
  PROVE  LET r == <<e>> \o s
         IN  /\ r \in Seq(S) /\ Len(r) = Len(s) + 1
             /\ \A i \in 1 .. Len(s) + 1 : r[i] = IF i = 1 THEN e ELSE s[i - 1]
<1>1. <<e>> \in Seq(S) /\ Len(<<e>>) = 1 /\ <<e>>[1] = e
  OBVIOUS
<1>2. Len(s) \in Nat
  BY LenProperties
<1>3. PICK t : t = <<e>>
  OBVIOUS
<1>4. /\ t \o s \in Seq(S) /\ Len(t \o s) = Len(t) + Len(s)
      /\ \A i \in 1 .. Len(t) + Len(s) : (t \o s)[i] = IF i <= Len(t) THEN t[i] ELSE s[i - Len(t)]
  BY <1>1, <1>3, ConcatProperties
<1>5. Len(t) = 1 /\ t[1] = e
  BY <1>1, <1>3
<1>6. \A i \in 1 .. Len(s) + 1 : (t \o s)[i] = IF i = 1 THEN e ELSE s[i - 1]
  BY <1>2, <1>4, <1>5
<1> QED
  BY <1>2, <1>3, <1>4, <1>5, <1>6

(* Putting an entry in front of a full sequence and cutting the last one   *)
(* off is moving the last one to the front with the new contents.          *)
LEMMA CutLast ==
  ASSUME NEW S, NEW s \in Seq(S), NEW e \in S, Len(s) # 0
  PROVE  SubSeq(<<e>> \o s, 1, Len(s)) = <<e>> \o WithoutAt(s, Len(s))
<1> DEFINE r == <<e>> \o s
           q == WithoutAt(s, Len(s))
           u == <<e>> \o q
           t == SubSeq(r, 1, Len(s))
<1>1. Len(s) \in Nat /\ Len(s) \in Int /\ 1 \in Int /\ Len(s) \in 1 .. Len(s)
  BY LenProperties
<1>2. /\ r \in Seq(S) /\ Len(r) = Len(s) + 1
      /\ \A i \in 1 .. Len(s) + 1 : r[i] = IF i = 1 THEN e ELSE s[i - 1]
  BY InFrontIs
<1>3. /\ q \in Seq(S) /\ Len(q) = Len(s) - 1
      /\ \A i \in 1 .. Len(s) - 1 : q[i] = IF i < Len(s) THEN s[i] ELSE s[i + 1]
  BY <1>1, WithoutAtIs
<1> HIDE DEF r, q
<1>4. /\ u \in Seq(S) /\ Len(u) = Len(q) + 1
      /\ \A i \in 1 .. Len(q) + 1 : u[i] = IF i = 1 THEN e ELSE q[i - 1]
  BY <1>3, InFrontIs
<1>5. \A i \in 1 .. Len(s) : r[i] \in S
  <2>1. \A i \in 1 .. Len(s) : i \in 1 .. Len(r)
    BY <1>1, <1>2
  <2> QED
    BY <1>2, <2>1, ElementOfSeq
<1>6. /\ t \in Seq(S) /\ Len(t) = IF 1 <= Len(s) THEN Len(s) - 1 + 1 ELSE 0
      /\ \A i \in 1 .. Len(s) - 1 + 1 : t[i] = r[1 + i - 1]
  BY <1>1, <1>5, SubSeqProperties
<1> HIDE DEF t, u
<1>7. Len(t) = Len(s) /\ Len(u) = Len(s)
  BY <1>1, <1>3, <1>4, <1>6
<1>8. ASSUME NEW i \in 1 .. Len(t)
      PROVE  t[i] = u[i]
  <2>1. i \in 1 .. Len(s) + 1 /\ i \in 1 .. Len(s) - 1 + 1 /\ i \in 1 .. Len(q) + 1 /\ 1 + i - 1 = i
    BY <1>1, <1>3, <1>7
  <2>2. t[i] = IF i = 1 THEN e ELSE s[i - 1]
    BY <1>2, <1>6, <2>1
  <2>3. i # 1 => i - 1 \in 1 .. Len(s) - 1 /\ i - 1 < Len(s)
    BY <1>1, <1>7
  <2> QED
    BY <1>3, <1>4, <2>1, <2>2, <2>3
<1> QED
  BY <1>4, <1>6, <1>7, <1>8, SeqEqual DEF t, u, r, q

(* The head moves from one sequence to the end of another.                 *)
LEMMA TailOfConcat ==
  ASSUME NEW T, NEW r \in Seq(T), NEW s \in Seq(T), r # <<>>
  PROVE  /\ r \o s # <<>> /\ Head(r \o s) = Head(r)
         /\ Tail(r \o s) = Tail(r) \o s
<1> DEFINE c == r \o s
           q == Tail(r)
           d == q \o s
<1>1. /\ q \in Seq(T) /\ Len(q) = Len(r) - 1
      /\ \A i \in 1 .. Len(q) : q[i] = r[i + 1]
      /\ Len(r) \in Nat \ {0} /\ Len(s) \in Nat
  BY HeadTailProperties, EmptySeq, LenProperties
<1>2. /\ c \in Seq(T) /\ Len(c) = Len(r) + Len(s)
      /\ \A i \in 1 .. Len(r) + Len(s) : c[i] = IF i <= Len(r) THEN r[i] ELSE s[i - Len(r)]
  BY ConcatProperties
<1> HIDE DEF c, q
<1>3. /\ d \in Seq(T) /\ Len(d) = Len(q) + Len(s)
      /\ \A i \in 1 .. Len(q) + Len(s) : d[i] = IF i <= Len(q) THEN q[i] ELSE s[i - Len(q)]
  BY <1>1, ConcatProperties
<1> HIDE DEF d
<1>4. c # <<>>
  <2>1. Len(c) # 0
    BY <1>1, <1>2
  <2> QED
    BY <2>1, EmptySeq
<1>5. Tail(c) \in Seq(T) /\ Len(Tail(c)) = Len(c) - 1 /\ \A i \in 1 .. Len(Tail(c)) : Tail(c)[i] = c[i + 1]
  BY <1>2, <1>4, HeadTailProperties
<1>6. Head(c) = Head(r)
  <2>1. 1 \in 1 .. Len(r) + Len(s) /\ 1 <= Len(r)
    BY <1>1
  <2>2. c[1] = r[1]
    BY <1>2, <2>1
  <2> QED
    BY <1>2, <1>4, <2>2
<1>7. Len(d) = Len(Tail(c))
  BY <1>1, <1>2, <1>3, <1>5
<1>8. ASSUME NEW i \in 1 .. Len(d)
      PROVE  d[i] = Tail(c)[i]
  <2>1. /\ i \in Nat /\ i \in 1 .. Len(q) + Len(s) /\ i \in 1 .. Len(Tail(c))
        /\ i + 1 \in 1 .. Len(r) + Len(s)
    BY <1>1, <1>3, <1>7
  <2>2. Tail(c)[i] = IF i + 1 <= Len(r) THEN r[i + 1] ELSE s[i + 1 - Len(r)]
    BY <1>2, <1>5, <2>1
  <2>3. CASE i + 1 <= Len(r)
    <3>1. i \in 1 .. Len(q) /\ i <= Len(q)
      BY <1>1, <2>1, <2>3
    <3> QED
      BY <1>1, <1>3, <2>1, <2>2, <2>3, <3>1
  <2>4. CASE ~ (i + 1 <= Len(r))
    <3>1. ~ (i <= Len(q)) /\ i - Len(q) = i + 1 - Len(r)
      BY <1>1, <2>1, <2>4
    <3> QED
      BY <1>3, <2>1, <2>2, <2>4, <3>1
  <2> QED
    BY <2>3, <2>4
<1>9. d = Tail(c)
  BY <1>3, <1>5, <1>7, <1>8, SeqEqual
<1> QED
  BY <1>4, <1>6, <1>9 DEF c, d, q

LEMMA HeadMoves ==
  ASSUME NEW T, NEW b \in Seq(T), NEW c \in Seq(T), c # <<>>
  PROVE  Append(b, Head(c)) \o Tail(c) = b \o c
<1> DEFINE q == Tail(c)
           h == Head(c)
<1>1. h = c[1] /\ h \in T /\ q \in Seq(T) /\ q = SubSeq(c, 2, Len(c))
  BY HeadTailProperties, TailIsSubSeq
<1>2. 1 \in 1 .. Len(c) /\ Len(c) \in 1 .. Len(c)
  BY EmptySeq
<1> HIDE DEF q, h
<1>3. PICK t : t = <<h>>
  OBVIOUS
<1>4. t \in Seq(T)
  BY <1>1, <1>3
<1>5. c = t \o q
  BY <1>1, <1>2, <1>3, SubSeqFull, SubSeqRecursiveFirst
<1>6. (b \o t) \o q = b \o (t \o q)
  <2>1. q \in Seq(T)
    BY <1>1
  <2> QED
    BY <1>4, <2>1, ConcatAssociative
<1>7. Append(b, h) = b \o t
  BY <1>1, <1>3, AppendIsConcat
<1> QED
  BY <1>5, <1>6, <1>7 DEF h, q

(* Parts of a sequence: the first m elements, and one more.                *)
LEMMA FirstOnes ==
  ASSUME NEW T, NEW s \in Seq(T), NEW m \in 0 .. Len(s)
  PROVE  /\ SubSeq(s, 1, m) \in Seq(T)
         /\ \A e \in T : SubSeq(Append(s, e), 1, m) = SubSeq(s, 1, m)
         /\ m < Len(s) => SubSeq(s, 1, m + 1) = Append(SubSeq(s, 1, m), s[m + 1])
<1>1. Len(s) \in Nat /\ m \in Nat /\ 1 \in Int /\ m \in Int /\ m - 1 + 1 = m /\ m + 1 - 1 = m /\ m + 1 \in Int
  BY LenProperties
<1>2. \A i \in 1 .. Len(s) : s[i] \in T
  BY ElementOfSeq
<1>3. /\ SubSeq(s, 1, m) \in Seq(T) /\ Len(SubSeq(s, 1, m)) = m
      /\ \A i \in 1 .. m : SubSeq(s, 1, m)[i] = s[i]
  <2>1. \A i \in 1 .. m : s[i] \in T
    BY <1>1, <1>2
  <2>2. /\ SubSeq(s, 1, m) \in Seq(T) /\ Len(SubSeq(s, 1, m)) = IF 1 <= m THEN m - 1 + 1 ELSE 0
        /\ \A i \in 1 .. m - 1 + 1 : SubSeq(s, 1, m)[i] = s[1 + i - 1]
    BY <1>1, <2>1, SubSeqProperties
  <2> QED
    BY <1>1, <2>2
<1>4. ASSUME NEW e \in T
      PROVE  SubSeq(Append(s, e), 1, m) = SubSeq(s, 1, m)
  <2> DEFINE t == Append(s, e)
             u == SubSeq(t, 1, m)
  <2>1. /\ t \in Seq(T) /\ Len(t) = Len(s) + 1
        /\ \A i \in 1 .. Len(s) : t[i] = s[i]
    BY AppendProperties
  <2> HIDE DEF t
  <2>2. \A i \in 1 .. m : t[i] \in T /\ t[i] = s[i]
    BY <1>1, <1>2, <2>1
  <2>3. /\ u \in Seq(T) /\ Len(u) = IF 1 <= m THEN m - 1 + 1 ELSE 0
        /\ \A i \in 1 .. m - 1 + 1 : u[i] = t[1 + i - 1]
    BY <1>1, <2>2, SubSeqProperties
  <2> HIDE DEF u
  <2>4. Len(u) = m /\ \A i \in 1 .. m : u[i] = s[i]
    BY <1>1, <2>2, <2>3
  <2>5. u = SubSeq(s, 1, m)
    BY <1>3, <2>3, <2>4, SeqEqual
  <2> QED
    BY <2>5 DEF u, t
<1>5. ASSUME m < Len(s)
      PROVE  SubSeq(s, 1, m + 1) = Append(SubSeq(s, 1, m), s[m + 1])
  <2>1. 1 \in 1 .. Len(s) /\ m + 1 \in 1 .. Len(s)
    BY <1>1, <1>5
  <2>2. SubSeq(s, 1, m + 1) = SubSeq(s, 1, m) \o <<s[m + 1]>>
    BY <1>1, <2>1, SubSeqRecursiveSecond
  <2>3. Append(SubSeq(s, 1, m), s[m + 1]) = SubSeq(s, 1, m) \o <<s[m + 1]>>
    BY <1>2, <1>3, <2>1, AppendIsConcat
  <2> QED
    BY <2>2, <2>3
<1> QED
  BY <1>3, <1>4, <1>5

-----------------------------------------------------------------------------
(* Sequences of anything.                                                  *)

IsSequence(s) == \E S : s \in Seq(S)

LEMMA SequenceDomain ==
  ASSUME NEW s, IsSequence(s)
  PROVE  Len(s) \in Nat /\ DOMAIN s = 1 .. Len(s) /\ (s # <<>> <=> Len(s) > 0)
<1>1. PICK S : s \in Seq(S)
  BY DEF IsSequence
<1>2. Len(s) \in Nat /\ DOMAIN s = 1 .. Len(s)
  BY <1>1, LenProperties
<1>3. s # <<>> <=> Len(s) > 0
  BY <1>1, <1>2, EmptySeq
<1> QED
  BY <1>2, <1>3

LEMMA SequenceAppend ==
  ASSUME NEW s, IsSequence(s), NEW e
  PROVE  LET r == Append(s, e)
         IN  /\ IsSequence(r) /\ Len(r) = Len(s) + 1 /\ r[Len(r)] = e
             /\ \A i \in 1 .. Len(s) : r[i] = s[i]
<1>1. PICK S : s \in Seq(S)
  BY DEF IsSequence
<1>2. s \in Seq(S \cup {e}) /\ e \in S \cup {e}
  BY <1>1, SeqMonotonic
<1>3. /\ Append(s, e) \in Seq(S \cup {e}) /\ Len(Append(s, e)) = Len(s) + 1
      /\ Append(s, e)[Len(s) + 1] = e
      /\ \A i \in 1 .. Len(s) : Append(s, e)[i] = s[i]
  BY <1>2, AppendProperties
<1> QED
  BY <1>3 DEF IsSequence

LEMMA SequenceWithout ==
  ASSUME NEW s, IsSequence(s), NEW j \in DOMAIN s
  PROVE  LET r == WithoutAt(s, j)
         IN  /\ IsSequence(r) /\ Len(r) = Len(s) - 1
             /\ \A i \in DOMAIN r : \E k \in DOMAIN s : r[i] = s[k]
<1>1. PICK S : s \in Seq(S)
  BY DEF IsSequence
<1>2. Len(s) \in Nat /\ DOMAIN s = 1 .. Len(s)
  BY SequenceDomain
<1> DEFINE r == WithoutAt(s, j)
<1>3. /\ r \in Seq(S) /\ Len(r) = Len(s) - 1
      /\ \A i \in 1 .. Len(s) - 1 : r[i] = IF i < j THEN s[i] ELSE s[i + 1]
  BY <1>1, <1>2, WithoutAtIs
<1> HIDE DEF r
<1>4. DOMAIN r = 1 .. Len(s) - 1
  BY <1>3, LenProperties
<1>5. ASSUME NEW i \in DOMAIN r PROVE \E k \in DOMAIN s : r[i] = s[k]
  BY <1>2, <1>3, <1>4
<1> QED
  BY <1>3, <1>5 DEF IsSequence, r

LEMMA SequenceExcept ==
  ASSUME NEW s, IsSequence(s), NEW j \in DOMAIN s, NEW e
  PROVE  LET r == [s EXCEPT ![j] = e]
         IN  /\ IsSequence(r) /\ Len(r) = Len(s)
             /\ \A i \in DOMAIN s : r[i] = IF i = j THEN e ELSE s[i]
<1>1. PICK S : s \in Seq(S)
  BY DEF IsSequence
<1>2. s \in Seq(S \cup {e}) /\ e \in S \cup {e}
  BY <1>1, SeqMonotonic
<1>3. DOMAIN s = 1 .. Len(s)
  BY SequenceDomain
<1> DEFINE r == [s EXCEPT ![j] = e]
<1>4. r \in Seq(S \cup {e}) /\ Len(r) = Len(s) /\ \A i \in 1 .. Len(s) : r[i] = IF i = j THEN e ELSE s[i]
  BY <1>2, <1>3, ExceptSeq
<1> QED
  BY <1>3, <1>4 DEF IsSequence

LEMMA SequenceConcat ==
  ASSUME NEW s, IsSequence(s), NEW t, IsSequence(t)
  PROVE  LET r == s \o t
         IN  /\ IsSequence(r) /\ Len(r) = Len(s) + Len(t)
             /\ \A i \in 1 .. Len(s) : r[i] = s[i]
             /\ \A i \in 1 .. Len(t) : r[Len(s) + i] = t[i]
<1>1. PICK S : s \in Seq(S)
  BY DEF IsSequence
<1>2. PICK T : t \in Seq(T)
  BY DEF IsSequence
<1>3. s \in Seq(S \cup T) /\ t \in Seq(S \cup T)
  BY <1>1, <1>2, SeqMonotonic
<1> DEFINE r == s \o t
<1>4. /\ r \in Seq(S \cup T) /\ Len(r) = Len(s) + Len(t)
      /\ \A i \in 1 .. Len(s) + Len(t) : r[i] = IF i <= Len(s) THEN s[i] ELSE t[i - Len(s)]
  BY <1>3, ConcatProperties
<1> HIDE DEF r
<1>5. Len(s) \in Nat /\ Len(t) \in Nat
  BY <1>1, <1>2, LenProperties
<1>6. \A i \in 1 .. Len(s) : r[i] = s[i]
  BY <1>4, <1>5
<1>7. ASSUME NEW i \in 1 .. Len(t) PROVE r[Len(s) + i] = t[i]
  <2>1. Len(s) + i \in 1 .. Len(s) + Len(t) /\ ~ (Len(s) + i <= Len(s)) /\ Len(s) + i - Len(s) = i
    BY <1>5
  <2> QED
    BY <1>4, <2>1
<1> QED
  BY <1>4, <1>6, <1>7 DEF IsSequence, r
=============================================================================
