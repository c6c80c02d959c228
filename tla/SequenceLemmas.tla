--------------------------- MODULE SequenceLemmas ---------------------------
(* What the proofs of several components need to know of sequences and sets: *)
(* sequences without repetition, induction over data, division of numbers.   *)
EXTENDS Integers, Sequences, SequencesExt, SequenceTheorems, FiniteSetTheorems,
        WellFoundedInduction, TLAPS

(* Lemmas about sequences without repetition.                                 *)

LEMMA AppendOnce ==
  ASSUME NEW T, NEW s \in Seq(T), NEW x \in T, IsInjective(s), x \notin ToSet(s)
  PROVE  /\ Append(s, x) \in Seq(T)
         /\ IsInjective(Append(s, x))
         /\ ToSet(Append(s, x)) = ToSet(s) \cup {x}
<1> DEFINE u == Append(s, x)
<1>1. /\ u \in Seq(T) /\ Len(u) = Len(s) + 1
      /\ \A i \in 1 .. Len(s) : u[i] = s[i]
      /\ u[Len(s) + 1] = x
  BY AppendProperties
<1>2. DOMAIN u = 1 .. Len(s) + 1 /\ DOMAIN s = 1 .. Len(s) /\ Len(s) \in Nat
  BY <1>1
<1> HIDE DEF u
<1>3. IsInjective(u)
  BY <1>1, <1>2 DEF IsInjective, ToSet
<1>4. ToSet(u) = ToSet(s) \cup {x}
  BY <1>1, <1>2 DEF ToSet
<1> QED
  BY <1>1, <1>3, <1>4 DEF u

LEMMA Appended ==
  ASSUME NEW T, NEW s \in Seq(T), NEW x \in T
  PROVE  Append(s, x) \in Seq(T) /\ ToSet(Append(s, x)) = ToSet(s) \cup {x}
<1> DEFINE u == Append(s, x)
<1>1. /\ u \in Seq(T) /\ Len(u) = Len(s) + 1
      /\ \A i \in 1 .. Len(s) : u[i] = s[i]
      /\ u[Len(s) + 1] = x
  BY AppendProperties
<1>2. DOMAIN u = 1 .. Len(s) + 1 /\ DOMAIN s = 1 .. Len(s) /\ Len(s) \in Nat
  BY <1>1
<1> HIDE DEF u
<1>3. ToSet(u) = ToSet(s) \cup {x}
  BY <1>1, <1>2 DEF ToSet
<1> QED
  BY <1>1, <1>3 DEF u

\* A piece of a sequence.
LEMMA PieceOf ==
  ASSUME NEW T, NEW s \in Seq(T), NEW m \in Nat, NEW n \in Nat, n <= Len(s)
  PROVE  SubSeq(s, m + 1, n) \in Seq(T)
<1>1. m + 1 \in Int /\ \A i \in m + 1 .. n : s[i] \in T
  BY ElementOfSeq
<1> QED
  BY <1>1, SubSeqProperties

LEMMA ConcatOnce ==
  ASSUME NEW T, NEW s \in Seq(T), NEW u \in Seq(T), IsInjective(s), IsInjective(u),
         ToSet(s) \cap ToSet(u) = {}
  PROVE  /\ s \o u \in Seq(T)
         /\ IsInjective(s \o u)
         /\ ToSet(s \o u) = ToSet(s) \cup ToSet(u)
<1> DEFINE v == s \o u
<1>1. /\ v \in Seq(T) /\ Len(v) = Len(s) + Len(u)
      /\ \A i \in 1 .. Len(s) + Len(u) : v[i] = IF i <= Len(s) THEN s[i] ELSE u[i - Len(s)]
  BY ConcatProperties
<1>2. /\ DOMAIN v = 1 .. Len(s) + Len(u) /\ DOMAIN s = 1 .. Len(s) /\ DOMAIN u = 1 .. Len(u)
      /\ Len(s) \in Nat /\ Len(u) \in Nat
  BY <1>1
<1> HIDE DEF v
<1>3. \A i \in DOMAIN v : \/ i \in DOMAIN s /\ v[i] = s[i] /\ v[i] \in ToSet(s)
                          \/ i - Len(s) \in DOMAIN u /\ v[i] = u[i - Len(s)] /\ v[i] \in ToSet(u)
  BY <1>1, <1>2 DEF ToSet
<1>4. IsInjective(v)
  <2> SUFFICES ASSUME NEW i \in DOMAIN v, NEW j \in DOMAIN v, v[i] = v[j] PROVE i = j
    BY DEF IsInjective
  <2>1. CASE i \in DOMAIN s /\ v[i] = s[i] /\ v[i] \in ToSet(s)
    BY <1>2, <1>3, <2>1 DEF IsInjective
  <2>2. CASE i - Len(s) \in DOMAIN u /\ v[i] = u[i - Len(s)] /\ v[i] \in ToSet(u)
    <3>1. j - Len(s) \in DOMAIN u /\ v[j] = u[j - Len(s)]
      BY <1>3, <2>2
    <3>2. i - Len(s) = j - Len(s)
      BY <2>2, <3>1 DEF IsInjective
    <3> QED
      BY <1>2, <3>2
  <2> QED
    BY <1>3, <2>1, <2>2
<1>5. ToSet(s) \subseteq ToSet(v)
  <2> SUFFICES ASSUME NEW j \in DOMAIN s PROVE s[j] \in ToSet(v)
    BY DEF ToSet
  <2>1. j \in DOMAIN v /\ v[j] = s[j]
    BY <1>1, <1>2
  <2> QED
    BY <2>1 DEF ToSet
<1>6. ToSet(u) \subseteq ToSet(v)
  <2> SUFFICES ASSUME NEW j \in DOMAIN u PROVE u[j] \in ToSet(v)
    BY DEF ToSet
  <2>1. j + Len(s) \in DOMAIN v /\ v[j + Len(s)] = u[j]
    BY <1>1, <1>2
  <2> QED
    BY <2>1 DEF ToSet
<1>7. ToSet(v) \subseteq ToSet(s) \cup ToSet(u)
  BY <1>3 DEF ToSet
<1> QED
  BY <1>1, <1>4, <1>5, <1>6, <1>7 DEF v

LEMMA CutOnce ==
  ASSUME NEW T, NEW s \in Seq(T), IsInjective(s), NEW k \in 0 .. Len(s)
  PROVE  LET a == SubSeq(s, 1, k)
             b == SubSeq(s, k + 1, Len(s))
         IN /\ a \in Seq(T) /\ b \in Seq(T)
            /\ IsInjective(a) /\ IsInjective(b)
            /\ ToSet(a) \cap ToSet(b) = {}
            /\ ToSet(a) \cup ToSet(b) = ToSet(s)
<1> DEFINE a == SubSeq(s, 1, k)
           b == SubSeq(s, k + 1, Len(s))
<1>0. Len(s) \in Nat /\ k \in Nat /\ k <= Len(s) /\ DOMAIN s = 1 .. Len(s)
  OBVIOUS
<1>1. \A i \in 1 .. Len(s) : s[i] \in T
  BY ElementOfSeq
<1>2. /\ a \in Seq(T) /\ Len(a) = k
      /\ \A i \in 1 .. k : a[i] = s[i]
  <2>1. /\ SubSeq(s, 1, k) \in Seq(T)
        /\ Len(SubSeq(s, 1, k)) = IF 1 <= k THEN k - 1 + 1 ELSE 0
        /\ \A i \in 1 .. k - 1 + 1 : SubSeq(s, 1, k)[i] = s[1 + i - 1]
    BY <1>0, <1>1, SubSeqProperties
  <2> QED
    BY <1>0, <2>1
<1>3. /\ b \in Seq(T) /\ Len(b) = Len(s) - k
      /\ \A i \in 1 .. Len(s) - k : b[i] = s[k + i]
  <2> DEFINE m == k + 1
             n == Len(s)
  <2>1. m \in Int /\ n \in Int /\ \A i \in m .. n : s[i] \in T
    BY <1>0, <1>1
  <2> HIDE DEF m, n
  <2>2. /\ SubSeq(s, m, n) \in Seq(T)
        /\ Len(SubSeq(s, m, n)) = IF m <= n THEN n - m + 1 ELSE 0
        /\ \A i \in 1 .. n - m + 1 : SubSeq(s, m, n)[i] = s[m + i - 1]
    BY <2>1, SubSeqProperties
  <2> QED
    BY <1>0, <2>2 DEF m, n
<1>4. DOMAIN a = 1 .. k /\ DOMAIN b = 1 .. Len(s) - k
  BY <1>0, <1>2, <1>3
<1> HIDE DEF a, b
<1>5. IsInjective(a)
  BY <1>0, <1>2, <1>4 DEF IsInjective
<1>6. IsInjective(b)
  <2> SUFFICES ASSUME NEW i \in DOMAIN b, NEW j \in DOMAIN b, b[i] = b[j] PROVE i = j
    BY DEF IsInjective
  <2>1. k + i \in DOMAIN s /\ k + j \in DOMAIN s /\ s[k + i] = s[k + j]
    BY <1>0, <1>3, <1>4
  <2>2. k + i = k + j
    BY <2>1 DEF IsInjective
  <2> QED
    BY <1>0, <1>4, <2>2
<1>7. ToSet(a) \cap ToSet(b) = {}
  <2> SUFFICES ASSUME NEW i \in DOMAIN a, NEW j \in DOMAIN b, a[i] = b[j] PROVE FALSE
    BY DEF ToSet
  <2>1. i \in 1 .. k /\ j \in 1 .. Len(s) - k
    BY <1>4
  <2>2. a[i] = s[i] /\ b[j] = s[k + j]
    BY <1>2, <1>3, <2>1
  <2>3. i \in DOMAIN s /\ k + j \in DOMAIN s /\ i # k + j
    BY <1>0, <2>1
  <2> QED
    BY <2>2, <2>3 DEF IsInjective
<1>8. ToSet(a) \subseteq ToSet(s) /\ ToSet(b) \subseteq ToSet(s)
  <2>1. \A i \in DOMAIN a : i \in DOMAIN s /\ a[i] = s[i]
    BY <1>0, <1>2, <1>4
  <2>2. ASSUME NEW i \in DOMAIN b PROVE k + i \in DOMAIN s /\ b[i] = s[k + i]
    BY <1>0, <1>3, <1>4
  <2> QED
    BY <2>1, <2>2 DEF ToSet
<1>9. ToSet(s) \subseteq ToSet(a) \cup ToSet(b)
  <2> SUFFICES ASSUME NEW i \in DOMAIN s PROVE s[i] \in ToSet(a) \cup ToSet(b)
    BY DEF ToSet
  <2>1. CASE i <= k
    <3>1. i \in DOMAIN a /\ a[i] = s[i]
      BY <1>0, <1>2, <1>4, <2>1
    <3> QED
      BY <3>1 DEF ToSet
  <2>2. CASE ~ (i <= k)
    <3>1. i - k \in DOMAIN b /\ b[i - k] = s[i]
      BY <1>0, <1>3, <1>4, <2>2
    <3> QED
      BY <3>1 DEF ToSet
  <2> QED
    BY <2>1, <2>2
<1> QED
  BY <1>2, <1>3, <1>5, <1>6, <1>7, <1>8, <1>9 DEF a, b

\* An arrangement of a finite set has each of its elements once.
LEMMA ArrangedOnce ==
  ASSUME NEW S, IsFiniteSet(S), NEW u \in SetToSeqs(S)
  PROVE  u \in Seq(S) /\ IsInjective(u) /\ ToSet(u) = S
<1> DEFINE n == Cardinality(S)
<1>1. n \in Nat
  BY FS_CardinalityType
<1>2. u \in [1 .. n -> S] /\ IsInjective(u)
  BY DEF SetToSeqs, IsInjective
<1>3. u \in Injection(1 .. n, S)
  BY <1>2 DEF Injection
<1>4. Cardinality(1 .. n) = n
  <2>1. n = 0 \/ 1 <= n
    BY <1>1
  <2> QED
    BY <1>1, <2>1, FS_Interval
<1>5. u \in Surjection(1 .. n, S)
  BY <1>3, <1>4, FS_Injection
<1>6. ToSet(u) = S
  BY <1>2, <1>5 DEF Surjection, ToSet
<1>7. u \in Seq(S)
  BY <1>1, <1>2, SeqDef
<1> QED
  BY <1>2, <1>6, <1>7

\* The places of an element of such a sequence: one.
LEMMA CountOnce ==
  ASSUME NEW s, IsInjective(s), NEW x
  PROVE  Cardinality({i \in DOMAIN s : s[i] = x}) = IF x \in ToSet(s) THEN 1 ELSE 0
<1>1. CASE x \in ToSet(s)
  <2>1. PICK i \in DOMAIN s : s[i] = x
    BY <1>1 DEF ToSet
  <2>2. {j \in DOMAIN s : s[j] = x} = {i}
    BY <2>1 DEF IsInjective
  <2> QED
    BY <1>1, <2>2, FS_Singleton
<1>2. CASE x \notin ToSet(s)
  <2>1. {j \in DOMAIN s : s[j] = x} = {}
    BY <1>2 DEF ToSet
  <2> QED
    BY <1>2, <2>1, FS_EmptySet
<1> QED
  BY <1>1, <1>2

\* A sequence has finitely many elements.
LEMMA ElementsOf ==
  ASSUME NEW T, NEW s \in Seq(T)
  PROVE  IsFiniteSet(ToSet(s)) /\ ToSet(s) \subseteq T
<1>1. Len(s) \in Nat /\ DOMAIN s = 1 .. Len(s) /\ \A i \in DOMAIN s : s[i] \in T
  OBVIOUS
<1>2. s \in Surjection(1 .. Len(s), ToSet(s))
  <2>1. s \in [1 .. Len(s) -> ToSet(s)]
    BY <1>1 DEF ToSet
  <2> QED
    BY <1>1, <2>1 DEF Surjection, ToSet
<1>3. IsFiniteSet(1 .. Len(s))
  BY <1>1, FS_Interval
<1> QED
  BY <1>1, <1>2, <1>3, FS_Surjection DEF ToSet

\* A sequence without repetition is as long as it has elements.
LEMMA LengthOnce ==
  ASSUME NEW T, NEW s \in Seq(T), IsInjective(s)
  PROVE  IsFiniteSet(ToSet(s)) /\ Cardinality(ToSet(s)) = Len(s)
<1>1. Len(s) \in Nat /\ DOMAIN s = 1 .. Len(s)
  OBVIOUS
<1>2. s \in [1 .. Len(s) -> ToSet(s)] /\ \A x \in ToSet(s) : \E i \in 1 .. Len(s) : s[i] = x
  BY <1>1 DEF ToSet
<1>3. s \in Surjection(1 .. Len(s), ToSet(s))
  BY <1>2 DEF Surjection
<1>4. s \in Injection(1 .. Len(s), ToSet(s))
  BY <1>1, <1>2 DEF Injection, IsInjective
<1>5. IsFiniteSet(1 .. Len(s)) /\ Cardinality(1 .. Len(s)) = Len(s)
  <2>1. Len(s) \in Int /\ (IF 1 > Len(s) THEN 0 ELSE Len(s) - 1 + 1) = Len(s)
    BY <1>1
  <2>2. 1 \in Int
    OBVIOUS
  <2> QED
    BY <2>1, <2>2, FS_Interval
<1> QED
  BY <1>3, <1>4, <1>5, FS_Surjection

\* Sets whose members are all equal have one at most.
LEMMA OneAtMost ==
  ASSUME NEW S, \A x, y \in S : x = y
  PROVE  Cardinality(S) <= 1
<1>1. CASE S = {}
  BY <1>1, FS_EmptySet
<1>2. CASE S # {}
  <2>1. PICK x \in S : TRUE
    BY <1>2
  <2>2. S = {x}
    BY <2>1
  <2> QED
    BY <2>2, FS_Singleton
<1> QED
  BY <1>1, <1>2

\* Taking the head of such a sequence.
LEMMA TakeOnce ==
  ASSUME NEW T, NEW s \in Seq(T), s # <<>>, IsInjective(s)
  PROVE  /\ Head(s) \in T /\ Tail(s) \in Seq(T)
         /\ IsInjective(Tail(s))
         /\ Head(s) \notin ToSet(Tail(s))
         /\ ToSet(s) = {Head(s)} \cup ToSet(Tail(s))
<1> DEFINE u == Tail(s)
<1>1. /\ Head(s) \in T /\ Head(s) = s[1] /\ u \in Seq(T) /\ Len(u) = Len(s) - 1
      /\ \A i \in 1 .. Len(u) : u[i] = s[i + 1]
  BY HeadTailProperties
<1>2. DOMAIN s = 1 .. Len(s) /\ DOMAIN u = 1 .. Len(s) - 1 /\ Len(s) \in Nat /\ Len(s) >= 1
  BY <1>1, LenProperties
<1> HIDE DEF u
<1>3. IsInjective(u)
  <2> SUFFICES ASSUME NEW i \in DOMAIN u, NEW j \in DOMAIN u, u[i] = u[j] PROVE i = j
    BY DEF IsInjective
  <2>1. i + 1 \in DOMAIN s /\ j + 1 \in DOMAIN s /\ s[i + 1] = s[j + 1]
    BY <1>1, <1>2
  <2>2. i + 1 = j + 1
    BY <2>1 DEF IsInjective
  <2> QED
    BY <1>2, <2>2
<1>4. Head(s) \notin ToSet(u)
  BY <1>1, <1>2 DEF IsInjective, ToSet
<1>5. ToSet(u) \subseteq ToSet(s) /\ Head(s) \in ToSet(s)
  BY <1>1, <1>2 DEF ToSet
<1>6. ToSet(s) \subseteq {Head(s)} \cup ToSet(u)
  <2> SUFFICES ASSUME NEW i \in DOMAIN s, i # 1 PROVE s[i] \in ToSet(u)
    BY <1>1 DEF ToSet
  <2>1. i - 1 \in DOMAIN u /\ u[i - 1] = s[i]
    BY <1>1, <1>2
  <2> QED
    BY <2>1 DEF ToSet
<1> QED
  BY <1>1, <1>3, <1>4, <1>5, <1>6 DEF u

-----------------------------------------------------------------------------
(* Induction.                                                                 *)

\* Natural numbers have a least one.
LEMMA LeastOf ==
  ASSUME NEW S \in SUBSET Nat, S # {}
  PROVE  \E m \in S : \A k \in S : m <= k
<1> DEFINE R == {ss \in Nat \X Nat : ss[1] < ss[2]}
<1>1. IsWellFoundedOn(R, Nat)
  BY NatLessThanWellFounded DEF OpToRel
<1> HIDE DEF R
<1>2. PICK m \in S : \A k \in S : ~(<<k, m>> \in R)
  BY <1>1, WFMin, Zenon
<1>3. ASSUME NEW k \in S PROVE m <= k
  <2>1. k \in Nat /\ m \in Nat /\ (k < m => <<k, m>> \in R)
    BY DEF R
  <2> QED
    BY <1>2, <2>1
<1> QED
  BY <1>3

\* A set that has 0 and each successor has all of them.
LEMMA Induction ==
  ASSUME NEW S, 0 \in S, \A n \in Nat : n \in S => n + 1 \in S
  PROVE  \A n \in Nat : n \in S
<1> SUFFICES ASSUME Nat \ S # {} PROVE FALSE
  OBVIOUS
<1>1. PICK m \in Nat \ S : \A k \in Nat \ S : m <= k
  BY LeastOf
<1>2. m # 0 /\ m - 1 \in Nat /\ m - 1 \in S
  BY <1>1
<1> QED
  BY <1>1, <1>2

\* f is what one gets from a by the steps in F.
StepsFrom(f, a, F, n, A) ==
  f \in [0 .. n -> A] /\ f[0] = a /\ \A i \in 1 .. n : f[i] = F[i][f[i - 1]]

\* A function can be defined step by step.
LEMMA StepByStep ==
  ASSUME NEW n \in Nat, NEW A, NEW a \in A, NEW F \in [1 .. n -> [A -> A]]
  PROVE  \E f : StepsFrom(f, a, F, n, A)
<1> DEFINE Solves(f, k) == /\ f \in [0 .. k -> A] /\ f[0] = a
                           /\ \A i \in 1 .. k : f[i] = F[i][f[i - 1]]
           S == {k \in Nat : k <= n => \E f : Solves(f, k)}
<1>1. 0 \in S
  <2> DEFINE f == [k \in 0 .. 0 |-> a]
  <2>1. f \in [0 .. 0 -> A] /\ f[0] = a /\ 1 .. 0 = {}
    OBVIOUS
  <2> HIDE DEF f
  <2>2. Solves(f, 0)
    BY <2>1
  <2> QED
    BY <2>2
<1>2. ASSUME NEW k \in Nat, k \in S PROVE k + 1 \in S
  <2> SUFFICES ASSUME k + 1 <= n PROVE \E f : Solves(f, k + 1)
    OBVIOUS
  <2>1. PICK g : Solves(g, k)
    BY <1>2
  <2> DEFINE f == [i \in 0 .. k + 1 |-> IF i = k + 1 THEN F[k + 1][g[k]] ELSE g[i]]
  <2>2. g[k] \in A /\ k + 1 \in 1 .. n
    BY <2>1
  <2>3. F[k + 1][g[k]] \in A
    BY <2>2
  <2>4. ASSUME NEW i \in 0 .. k PROVE f[i] = g[i] /\ g[i] \in A
    BY <2>1
  <2>5. f[k + 1] = F[k + 1][g[k]]
    OBVIOUS
  <2>6. f \in [0 .. k + 1 -> A]
    BY <2>1, <2>3
  <2> HIDE DEF f
  <2>7. f[0] = a
    BY <2>1, <2>4
  <2>8. ASSUME NEW i \in 1 .. k + 1 PROVE f[i] = F[i][f[i - 1]]
    <3>1. i - 1 \in 0 .. k /\ f[i - 1] = g[i - 1]
      BY <2>4
    <3>2. CASE i = k + 1
      BY <2>5, <3>1, <3>2
    <3>3. CASE i # k + 1
      <4>1. i \in 1 .. k /\ i \in 0 .. k
        BY <3>3
      <4>2. f[i] = g[i] /\ g[i] = F[i][g[i - 1]]
        BY <2>1, <2>4, <4>1
      <4> QED
        BY <3>1, <4>2
    <3> QED
      BY <3>2, <3>3
  <2>9. Solves(f, k + 1)
    BY <2>6, <2>7, <2>8
  <2> QED
    BY <2>9
<1> HIDE DEF S
<1>3. n \in S
  BY <1>1, <1>2, Induction
<1> QED
  BY <1>3 DEF S, StepsFrom

-----------------------------------------------------------------------------
(* What is put together again: FlattenSeq, SetToSeq.                          *)

\* What FlattenSeq computes.
LEMMA FlattenIs ==
  ASSUME NEW ss, Len(ss) \in Nat \ {0}, NEW g,
         g = [i \in 1 .. Len(ss) |-> g[i]],
         \A i \in 1 .. Len(ss) : g[i] = IF i = 1 THEN ss[i] ELSE g[i - 1] \o ss[i]
  PROVE  FlattenSeq(ss) = g[Len(ss)]
<1> DEFINE Solves(f) == f = [i \in 1 .. Len(ss) |-> IF i = 1 THEN ss[i] ELSE f[i - 1] \o ss[i]]
           h == CHOOSE f : Solves(f)
<1>1. FlattenSeq(ss) = h[Len(ss)]
  BY DEF FlattenSeq
<1>2. Solves(g)
  <2>1. [i \in 1 .. Len(ss) |-> g[i]] = [i \in 1 .. Len(ss) |-> IF i = 1 THEN ss[i] ELSE g[i - 1] \o ss[i]]
    BY Zenon
  <2> QED
    BY <2>1, Zenon
<1> HIDE DEF Solves
<1>3. Solves(h)
  BY <1>2
<1> HIDE DEF h
<1>4. \A i \in 1 .. Len(ss) : h[i] = IF i = 1 THEN ss[i] ELSE h[i - 1] \o ss[i]
  <2>1. h = [i \in 1 .. Len(ss) |-> IF i = 1 THEN ss[i] ELSE h[i - 1] \o ss[i]]
    BY <1>3 DEF Solves
  <2> QED
    BY <2>1, Zenon
<1>5. \A i \in 1 .. Len(ss) : g[i] = IF i = 1 THEN ss[i] ELSE g[i - 1] \o ss[i]
  OBVIOUS
<1> DEFINE S == {k \in Nat : k \in 1 .. Len(ss) => h[k] = g[k]}
<1>6. 0 \in S
  OBVIOUS
<1>7. ASSUME NEW k \in Nat, k \in S PROVE k + 1 \in S
  <2> SUFFICES ASSUME NEW i \in 1 .. Len(ss), i = k + 1 PROVE h[i] = g[i]
    OBVIOUS
  <2>1. i # 1 => h[i - 1] = g[i - 1]
    BY <1>7
  <2>2. g[i] = IF i = 1 THEN ss[i] ELSE g[i - 1] \o ss[i]
    BY <1>5, Zenon
  <2>3. h[i] = IF i = 1 THEN ss[i] ELSE h[i - 1] \o ss[i]
    BY <1>4, Zenon
  <2> QED
    BY ONLY <2>1, <2>2, <2>3
<1> HIDE DEF S
<1>8. \A k \in Nat : k \in S
  BY <1>6, <1>7, Induction
<1> QED
  BY <1>1, <1>8 DEF S

\* The pieces of a sequence, cut at increasing places, make it up.
LEMMA PiecesFlatten ==
  ASSUME NEW T, NEW s \in Seq(T), NEW pieces, Len(pieces) \in Nat \ {0},
         NEW e \in [0 .. Len(pieces) -> 0 .. Len(s)], e[0] = 0, e[Len(pieces)] = Len(s),
         \A p \in 1 .. Len(pieces) : e[p - 1] <= e[p] /\ pieces[p] = SubSeq(s, e[p - 1] + 1, e[p])
  PROVE  FlattenSeq(pieces) = s
<1> DEFINE n == Len(pieces)
           g == [i \in 1 .. n |-> SubSeq(s, 1, e[i])]
<1>1. ASSUME NEW i \in 1 .. n PROVE g[i] = IF i = 1 THEN pieces[i] ELSE g[i - 1] \o pieces[i]
  <2>1. CASE i = 1
    <3>1. pieces[1] = SubSeq(s, e[1 - 1] + 1, e[1])
      BY <2>1
    <3>2. e[1 - 1] + 1 = 1
      OBVIOUS
    <3> QED
      BY <2>1, <3>1, <3>2
  <2>2. CASE i # 1
    <3>1. i - 1 \in 1 .. n /\ i - 1 \in 0 .. n /\ i \in 0 .. n /\ Len(s) \in Nat
      BY <2>2
    <3>2. e[i - 1] \in 0 .. Len(s) /\ e[i] \in 0 .. Len(s) /\ e[i - 1] <= e[i]
      BY <3>1
    <3>3. 1 \in 1 .. Len(s) + 1 /\ e[i - 1] \in 1 - 1 .. Len(s) /\ e[i] \in e[i - 1] .. Len(s)
      BY <3>1, <3>2
    <3>4. SubSeq(s, 1, e[i - 1]) \o SubSeq(s, e[i - 1] + 1, e[i]) = SubSeq(s, 1, e[i])
      BY <3>3, ConcatAdjacentSubSeq
    <3>5. g[i - 1] = SubSeq(s, 1, e[i - 1]) /\ g[i] = SubSeq(s, 1, e[i])
      BY <3>1
    <3>6. pieces[i] = SubSeq(s, e[i - 1] + 1, e[i])
      OBVIOUS
    <3> QED
      BY <2>2, <3>4, <3>5, <3>6
  <2> QED
    BY <2>1, <2>2
<1>2. g \in [1 .. n -> Seq(T)]
  <2>1. ASSUME NEW i \in 1 .. n PROVE SubSeq(s, 1, e[i]) \in Seq(T)
    <3>1. 1 \in Int /\ e[i] \in Int /\ \A k \in 1 .. e[i] : s[k] \in T
      <4>1. i \in 0 .. n
        OBVIOUS
      <4>2. e[i] \in 0 .. Len(s) /\ Len(s) \in Nat
        BY <4>1
      <4> QED
        BY <4>2, ElementOfSeq
    <3> QED
      BY <3>1, SubSeqProperties
  <2> QED
    BY <2>1
<1>3. g[n] = s
  BY SubSeqFull
<1> HIDE DEF g
<1> QED
  BY <1>1, <1>2, <1>3, FlattenIs

\* A finite set as a sequence has each of its elements once.
LEMMA ListedOnce ==
  ASSUME NEW S, IsFiniteSet(S)
  PROVE  SetToSeq(S) \in Seq(S) /\ IsInjective(SetToSeq(S)) /\ ToSet(SetToSeq(S)) = S
<1> DEFINE n == Cardinality(S)
           u == SetToSeq(S)
<1>1. n \in Nat /\ \E f \in Bijection(1 .. n, S) : TRUE
  BY FS_CardinalityType DEF ExistsBijection
<1>2. \E f \in [1 .. n -> S] : IsInjective(f)
  BY <1>1 DEF Bijection, Injection, IsInjective
<1>3. u \in [1 .. n -> S] /\ IsInjective(u)
  BY <1>2 DEF SetToSeq
<1>4. u \in SetToSeqs(S)
  BY <1>3 DEF SetToSeqs, IsInjective
<1> QED
  BY <1>4, ArrangedOnce

\* A finite set with a strict total order can be put in order.
LEMMA SortedOnce ==
  ASSUME NEW S, IsFiniteSet(S), NEW R,
         \A x \in S : <<x, x>> \notin R,
         \A x, y, z \in S : <<x, y>> \in R /\ <<y, z>> \in R => <<x, z>> \in R,
         \A x, y \in S : x # y => <<x, y>> \in R \/ <<y, x>> \in R
  PROVE  \E q \in SetToSeqs(S) : \A i, k \in DOMAIN q : i < k => <<q[i], q[k]>> \in R
<1> DEFINE n == Cardinality(S)
           Below(x) == {y \in S : <<y, x>> \in R}
           at == [x \in S |-> Cardinality(Below(x)) + 1]
<1>1. n \in Nat
  BY FS_CardinalityType
<1>2. ASSUME NEW x \in S PROVE IsFiniteSet(Below(x)) /\ Cardinality(Below(x)) \in 0 .. n - 1
  <2>1. Below(x) \subseteq S \ {x}
    OBVIOUS
  <2>2. IsFiniteSet(S \ {x}) /\ Cardinality(S \ {x}) = n - 1
    BY FS_RemoveElement
  <2> HIDE DEF Below, n
  <2>3. IsFiniteSet(Below(x)) /\ Cardinality(Below(x)) <= n - 1
    <3>1. Below(x) \in SUBSET (S \ {x})
      BY <2>1
    <3>2. IsFiniteSet(Below(x)) /\ Cardinality(Below(x)) <= Cardinality(S \ {x})
      BY <2>2, <3>1, FS_Subset, Zenon
    <3> QED
      BY <2>2, <3>2
  <2>4. Cardinality(Below(x)) \in Nat
    BY <2>3, FS_CardinalityType
  <2> QED
    BY <1>1, <2>3, <2>4
<1>3. ASSUME NEW x \in S, NEW y \in S, <<x, y>> \in R PROVE at[x] < at[y]
  <2>1. Below(x) \in SUBSET Below(y) /\ x \in Below(y) /\ x \notin Below(x)
    BY <1>3
  <2> HIDE DEF Below
  <2>2. IsFiniteSet(Below(x)) /\ IsFiniteSet(Below(y)) /\ Cardinality(Below(x)) \in Nat /\ Cardinality(Below(y)) \in Nat
    BY <1>2
  <2>3. Cardinality(Below(x)) < Cardinality(Below(y))
    <3>1. Cardinality(Below(x)) <= Cardinality(Below(y)) /\ Cardinality(Below(x)) # Cardinality(Below(y))
      BY <2>1, <2>2, FS_Subset, Zenon
    <3> QED
      BY <2>2, <3>1
  <2> QED
    BY <2>2, <2>3
<1>4. at \in [S -> 1 .. n]
  <2> HIDE DEF Below, n
  <2>1. ASSUME NEW x \in S PROVE Cardinality(Below(x)) + 1 \in 1 .. n
    <3>1. Cardinality(Below(x)) \in 0 .. n - 1
      BY <1>2
    <3> QED
      BY <1>1, <3>1
  <2> QED
    BY <2>1
<1> HIDE DEF at, Below, n
<1>5. \A x, y \in S : at[x] = at[y] => x = y
  <2> SUFFICES ASSUME NEW x \in S, NEW y \in S, x # y PROVE at[x] # at[y]
    OBVIOUS
  <2>1. at[x] \in Nat /\ at[y] \in Nat
    BY <1>1, <1>4
  <2>2. at[x] < at[y] \/ at[y] < at[x]
    BY <1>3
  <2> QED
    BY <2>1, <2>2
<1>6. at \in Surjection(S, 1 .. n)
  <2>1. at \in Injection(S, 1 .. n)
    BY <1>4, <1>5 DEF Injection, IsInjective
  <2>2. IsFiniteSet(1 .. n) /\ Cardinality(1 .. n) = n
    <3>1. n = 0 \/ 1 <= n
      BY <1>1
    <3> QED
      BY <1>1, <3>1, FS_Interval
  <2> QED
    BY <2>1, <2>2, FS_Injection DEF n
<1>7. \A i \in 1 .. n : \E x \in S : at[x] = i
  BY <1>6 DEF Surjection
<1> DEFINE q == [i \in 1 .. n |-> CHOOSE x \in S : at[x] = i]
<1>8. \A i \in 1 .. n : q[i] \in S /\ at[q[i]] = i
  BY <1>7
<1>9. q \in [1 .. n -> S]
  BY <1>8
<1> HIDE DEF q
<1>10. DOMAIN q = 1 .. n
  BY <1>9
<1>11. q \in SetToSeqs(S)
  BY <1>8, <1>9 DEF SetToSeqs, n
<1>12. ASSUME NEW i \in 1 .. n, NEW k \in 1 .. n, i < k PROVE <<q[i], q[k]>> \in R
  <2>1. q[i] # q[k] /\ ~ (at[q[k]] < at[q[i]])
    BY <1>1, <1>8, <1>12
  <2> QED
    BY <1>3, <1>8, <2>1
<1> QED
  BY <1>10, <1>11, <1>12

\* What two sequences have together.
LEMMA Concatenated ==
  ASSUME NEW T, NEW s \in Seq(T), NEW u \in Seq(T)
  PROVE  s \o u \in Seq(T) /\ ToSet(s \o u) = ToSet(s) \cup ToSet(u)
<1> DEFINE v == s \o u
<1>1. /\ v \in Seq(T) /\ Len(v) = Len(s) + Len(u)
      /\ \A i \in 1 .. Len(s) + Len(u) : v[i] = IF i <= Len(s) THEN s[i] ELSE u[i - Len(s)]
  BY ConcatProperties
<1>2. /\ DOMAIN v = 1 .. Len(s) + Len(u) /\ DOMAIN s = 1 .. Len(s) /\ DOMAIN u = 1 .. Len(u)
      /\ Len(s) \in Nat /\ Len(u) \in Nat
  BY <1>1
<1> HIDE DEF v
<1>3. \A i \in DOMAIN v : v[i] \in ToSet(s) \cup ToSet(u)
  <2> SUFFICES ASSUME NEW i \in DOMAIN v PROVE v[i] \in ToSet(s) \cup ToSet(u)
    OBVIOUS
  <2>1. CASE i <= Len(s)
    <3>1. i \in DOMAIN s /\ v[i] = s[i]
      BY <1>1, <1>2, <2>1
    <3> QED
      BY <3>1 DEF ToSet
  <2>2. CASE ~ (i <= Len(s))
    <3>1. i - Len(s) \in DOMAIN u /\ v[i] = u[i - Len(s)]
      BY <1>1, <1>2, <2>2
    <3> QED
      BY <3>1 DEF ToSet
  <2> QED
    BY <2>1, <2>2
<1>4. \A i \in DOMAIN s : i \in DOMAIN v /\ v[i] = s[i]
  BY <1>1, <1>2
<1>5. \A i \in DOMAIN u : i + Len(s) \in DOMAIN v /\ v[i + Len(s)] = u[i]
  BY <1>1, <1>2
<1>6. ToSet(s) \subseteq ToSet(v) /\ ToSet(u) \subseteq ToSet(v)
  BY <1>4, <1>5 DEF ToSet
<1>7. ToSet(v) \subseteq ToSet(s) \cup ToSet(u)
  BY <1>3 DEF ToSet
<1>8. ToSet(v) = ToSet(s) \cup ToSet(u)
  BY <1>6, <1>7, Zenon
<1> QED
  BY <1>1, <1>8 DEF v

\* What FlattenSeq puts together.
LEMMA Flattened ==
  ASSUME NEW T, NEW ss \in Seq(Seq(T))
  PROVE  /\ FlattenSeq(ss) \in Seq(T)
         /\ ToSet(FlattenSeq(ss)) = UNION {ToSet(ss[i]) : i \in DOMAIN ss}
<1>1. CASE Len(ss) = 0
  <2>1. ss = <<>> /\ FlattenSeq(ss) = ss
    BY <1>1, EmptySeq DEF FlattenSeq
  <2>2. <<>> \in Seq(T) /\ DOMAIN <<>> = {}
    OBVIOUS
  <2> QED
    BY <2>1, <2>2 DEF ToSet
<1>2. CASE Len(ss) # 0
  <2> DEFINE n == Len(ss)
             Joins(g, k) == /\ g \in [1 .. k -> Seq(T)]
                            /\ \A i \in 1 .. k : g[i] = IF i = 1 THEN ss[i] ELSE g[i - 1] \o ss[i]
                            /\ \A i \in 1 .. k : ToSet(g[i]) = UNION {ToSet(ss[j]) : j \in 1 .. i}
             S == {k \in Nat : k \in 1 .. n => \E g : Joins(g, k)}
  <2>1. n \in Nat \ {0} /\ DOMAIN ss = 1 .. n /\ \A i \in 1 .. n : ss[i] \in Seq(T)
    BY <1>2, ElementOfSeq
  <2>2. 0 \in S
    <3>1. 0 \in Nat /\ 0 \notin 1 .. n
      BY <2>1
    <3> HIDE DEF Joins, n
    <3> QED
      BY <3>1
  <2>3. ASSUME NEW k \in Nat, k \in S PROVE k + 1 \in S
    <3> HIDE DEF Joins, n
    <3> SUFFICES ASSUME k + 1 \in 1 .. n PROVE \E g : Joins(g, k + 1)
      OBVIOUS
    <3>1. CASE k = 0
      <4> DEFINE g == [i \in 1 .. 1 |-> ss[1]]
      <4>1. ss[1] \in Seq(T) /\ g[1] = ss[1] /\ g \in [1 .. 1 -> Seq(T)]
        BY <2>1
      <4>2. ToSet(ss[1]) = UNION {ToSet(ss[j]) : j \in 1 .. 1}
        OBVIOUS
      <4> HIDE DEF g
      <4>3. \A i \in 1 .. 1 : i = 1
        OBVIOUS
      <4>4. Joins(g, 1)
        BY <4>1, <4>2, <4>3 DEF Joins
      <4> QED
        BY <3>1, <4>4
    <3>2. CASE k # 0
      <4>0. k \in 1 .. n
        BY <2>1, <3>2
      <4>1. PICK g : Joins(g, k)
        BY <2>3, <4>0
      <4> DEFINE h == [i \in 1 .. k + 1 |-> IF i = k + 1 THEN g[k] \o ss[k + 1] ELSE g[i]]
      <4>2. g[k] \in Seq(T) /\ ss[k + 1] \in Seq(T) /\ k \in 1 .. k
        BY <2>1, <3>2, <4>1 DEF Joins
      <4>3. g[k] \o ss[k + 1] \in Seq(T) /\ ToSet(g[k] \o ss[k + 1]) = ToSet(g[k]) \cup ToSet(ss[k + 1])
        BY <4>2, Concatenated
      <4>4. h \in [1 .. k + 1 -> Seq(T)]
        <5>1. ASSUME NEW i \in 1 .. k + 1, i # k + 1 PROVE g[i] \in Seq(T)
          <6>1. i \in 1 .. k
            BY <5>1
          <6> QED
            BY <4>1, <6>1 DEF Joins
        <5> QED
          BY <4>3, <5>1
      <4>5. ASSUME NEW i \in 1 .. k PROVE h[i] = g[i]
        OBVIOUS
      <4>6. h[k + 1] = g[k] \o ss[k + 1]
        <5>1. k + 1 \in 1 .. k + 1
          OBVIOUS
        <5> QED
          BY ONLY <5>1 DEF h
      <4> HIDE DEF h
      <4>7. ASSUME NEW i \in 1 .. k + 1 PROVE h[i] = IF i = 1 THEN ss[i] ELSE h[i - 1] \o ss[i]
        <5>1. CASE i = k + 1
          <6>1. i # 1 /\ i - 1 = k /\ h[k] = g[k]
            BY <3>2, <4>2, <4>5, <5>1
          <6> QED
            BY <4>6, <5>1, <6>1
        <5>2. CASE i # k + 1
          <6>1. i \in 1 .. k /\ (i # 1 => i - 1 \in 1 .. k)
            BY <5>2
          <6> QED
            BY <4>1, <4>5, <6>1 DEF Joins
        <5> QED
          BY <5>1, <5>2
      <4>8. ASSUME NEW i \in 1 .. k + 1 PROVE ToSet(h[i]) = UNION {ToSet(ss[j]) : j \in 1 .. i}
        <5>1. CASE i = k + 1
          <6>1. ToSet(h[i]) = (UNION {ToSet(ss[j]) : j \in 1 .. k}) \cup ToSet(ss[k + 1])
            <7>1. ToSet(g[k]) = UNION {ToSet(ss[j]) : j \in 1 .. k}
              BY <4>1, <4>2 DEF Joins
            <7> QED
              <8>1. ToSet(h[i]) = ToSet(g[k] \o ss[k + 1])
                BY <4>6, <5>1, Zenon
              <8> QED
                BY <4>3, <7>1, <8>1
          <6>2. \A j : j \in 1 .. k + 1 <=> j \in 1 .. k \/ j = k + 1
            OBVIOUS
          <6>3. UNION {ToSet(ss[j]) : j \in 1 .. k + 1} = (UNION {ToSet(ss[j]) : j \in 1 .. k}) \cup ToSet(ss[k + 1])
            <7>1. ASSUME NEW x, x \in UNION {ToSet(ss[j]) : j \in 1 .. k + 1}
                  PROVE  x \in (UNION {ToSet(ss[j]) : j \in 1 .. k}) \cup ToSet(ss[k + 1])
              <8>1. PICK j \in 1 .. k + 1 : x \in ToSet(ss[j])
                BY <7>1, Zenon
              <8>2. CASE j = k + 1
                <9>1. x \in ToSet(ss[k + 1])
                  BY <8>1, <8>2, Zenon
                <9> QED
                  BY <9>1
              <8>3. CASE j \in 1 .. k
                BY <8>1, <8>3, Zenon
              <8> QED
                BY <6>2, <8>2, <8>3
            <7>2. ASSUME NEW x, x \in (UNION {ToSet(ss[j]) : j \in 1 .. k}) \cup ToSet(ss[k + 1])
                  PROVE  x \in UNION {ToSet(ss[j]) : j \in 1 .. k + 1}
              <8>1. CASE x \in ToSet(ss[k + 1])
                BY <6>2, <8>1, Zenon
              <8>2. CASE x \in UNION {ToSet(ss[j]) : j \in 1 .. k}
                <9>1. PICK j \in 1 .. k : x \in ToSet(ss[j])
                  BY <8>2, Zenon
                <9> QED
                  BY <6>2, <9>1, Zenon
              <8> QED
                BY <7>2, <8>1, <8>2
            <7> QED
              BY <7>1, <7>2, Zenon
          <6> QED
            BY <5>1, <6>1, <6>3
        <5>2. CASE i # k + 1
          <6>1. i \in 1 .. k
            BY <5>2
          <6> QED
            BY <4>1, <4>5, <6>1 DEF Joins
        <5> QED
          BY <5>1, <5>2
      <4> QED
        BY <4>4, <4>7, <4>8 DEF Joins
    <3> QED
      BY <3>1, <3>2
  <2>4. \E g : Joins(g, n)
    <3> HIDE DEF S
    <3>1. \A k \in Nat : k \in S
      BY <2>2, <2>3, Induction
    <3>2. n \in Nat /\ n \in 1 .. n
      BY <2>1
    <3> HIDE DEF Joins
    <3> QED
      BY <3>1, <3>2 DEF S
  <2>5. PICK g : Joins(g, n)
    BY <2>4
  <2>6. FlattenSeq(ss) = g[n]
    <3>1. g = [i \in 1 .. Len(ss) |-> g[i]]
      BY <2>5
    <3>2. \A i \in 1 .. Len(ss) : g[i] = IF i = 1 THEN ss[i] ELSE g[i - 1] \o ss[i]
      BY <2>5
    <3> QED
      BY ONLY <2>1, <3>1, <3>2, FlattenIs
  <2>7. g[n] \in Seq(T) /\ ToSet(g[n]) = UNION {ToSet(ss[j]) : j \in 1 .. n}
    <3>1. n \in 1 .. n
      BY <2>1
    <3> HIDE DEF n
    <3> QED
      BY <2>5, <3>1
  <2> QED
    BY <2>1, <2>6, <2>7
<1> QED
  BY <1>1, <1>2

\* Sequences without repetition that have nothing in common make up one without repetition.
LEMMA FlattenOnce ==
  ASSUME NEW T, NEW ss \in Seq(Seq(T)),
         \A i \in DOMAIN ss : IsInjective(ss[i]),
         \A i, k \in DOMAIN ss : i # k => ToSet(ss[i]) \cap ToSet(ss[k]) = {}
  PROVE  IsInjective(FlattenSeq(ss))
<1>1. CASE Len(ss) = 0
  <2>1. ss = <<>> /\ FlattenSeq(ss) = ss
    BY <1>1, EmptySeq DEF FlattenSeq
  <2> QED
    BY <2>1 DEF IsInjective
<1>2. CASE Len(ss) # 0
  <2> DEFINE n == Len(ss)
             F == [i \in 1 .. n |-> [s \in Seq(T) |-> s \o ss[i]]]
             Joined(s, k) == /\ s \in Seq(T) /\ IsInjective(s)
                             /\ \A x \in ToSet(s) : \E j \in 1 .. k : x \in ToSet(ss[j])
  <2>1. n \in Nat \ {0} /\ DOMAIN ss = 1 .. n /\ \A i \in 1 .. n : ss[i] \in Seq(T)
    BY <1>2, ElementOfSeq
  <2> HIDE DEF n
  <2>2. F \in [1 .. n -> [Seq(T) -> Seq(T)]] /\ <<>> \in Seq(T)
    <3>1. ASSUME NEW i \in 1 .. n, NEW s \in Seq(T) PROVE s \o ss[i] \in Seq(T)
      BY <2>1, ConcatProperties
    <3> QED
      BY <3>1
  <2>3. \A i \in 1 .. n, s \in Seq(T) : F[i][s] = s \o ss[i]
    OBVIOUS
  <2> HIDE DEF F
  <2>4. PICK f \in [0 .. n -> Seq(T)] : f[0] = <<>> /\ \A i \in 1 .. n : f[i] = F[i][f[i - 1]]
    <3> DEFINE A == Seq(T)
               e == <<>>
    <3>1. n \in Nat /\ e \in A /\ F \in [1 .. n -> [A -> A]]
      BY <2>1, <2>2
    <3> HIDE DEF A, e
    <3>2. \E f : StepsFrom(f, e, F, n, A)
      BY <3>1, StepByStep
    <3> QED
      BY <3>2 DEF A, e, StepsFrom
  <2>5. ASSUME NEW i \in 1 .. n PROVE f[i] = f[i - 1] \o ss[i] /\ f[i - 1] \in Seq(T)
    <3>1. i - 1 \in 0 .. n
      BY <2>1
    <3> QED
      BY <2>3, <2>4, <3>1
  <2> DEFINE S == {k \in Nat : k <= n => Joined(f[k], k)}
  <2>6. 0 \in S
    BY <2>4 DEF IsInjective, ToSet
  <2>7. ASSUME NEW k \in Nat, k \in S PROVE k + 1 \in S
    <3> SUFFICES ASSUME k + 1 \in 1 .. n, k \in 0 .. n, Joined(f[k], k) PROVE Joined(f[k + 1], k + 1)
      <4>1. ASSUME k + 1 <= n PROVE k + 1 \in 1 .. n /\ k \in 0 .. n /\ k <= n
        BY <2>1, <4>1
      <4>2. k + 1 <= n => Joined(f[k], k)
        BY <2>7, <4>1
      <4> HIDE DEF Joined
      <4> QED
        BY <4>1, <4>2
    <3>1. f[k + 1] = f[k] \o ss[k + 1] /\ ss[k + 1] \in Seq(T) /\ IsInjective(ss[k + 1])
      <4>1. \A i \in 1 .. n : f[i] = f[i - 1] \o ss[i]
        BY <2>5
      <4> HIDE DEF Joined
      <4> DEFINE m == k + 1
      <4>2. m \in 1 .. n /\ m - 1 = k
        OBVIOUS
      <4> HIDE DEF m
      <4>3. f[m] = f[m - 1] \o ss[m]
        BY <4>1, <4>2
      <4>4. ss[m] \in Seq(T) /\ IsInjective(ss[m])
        BY <2>1, <4>2
      <4> QED
        BY <4>2, <4>3, <4>4 DEF m
    <3>2. ToSet(f[k]) \cap ToSet(ss[k + 1]) = {}
      <4>1. ASSUME NEW j \in 1 .. k PROVE ToSet(ss[j]) \cap ToSet(ss[k + 1]) = {}
        <5>1. j \in DOMAIN ss /\ k + 1 \in DOMAIN ss /\ j # k + 1
          BY <2>1
        <5> QED
          BY <5>1
      <4> QED
        BY <4>1
    <3>3. /\ f[k + 1] \in Seq(T) /\ IsInjective(f[k + 1])
          /\ ToSet(f[k + 1]) = ToSet(f[k]) \cup ToSet(ss[k + 1])
      BY <3>1, <3>2, ConcatOnce
    <3>4. ASSUME NEW x \in ToSet(f[k + 1]) PROVE \E j \in 1 .. k + 1 : x \in ToSet(ss[j])
      <4>1. CASE x \in ToSet(f[k])
        <5>1. PICK j \in 1 .. k : x \in ToSet(ss[j])
          BY <4>1
        <5> QED
          BY <5>1
      <4>2. CASE x \in ToSet(ss[k + 1])
        BY <4>2
      <4> QED
        BY <3>3, <4>1, <4>2
    <3> QED
      BY <3>3, <3>4
  <2> HIDE DEF S, Joined
  <2>8. n \in S
    BY <2>1, <2>6, <2>7, Induction
  <2>9. IsInjective(f[n])
    BY <2>1, <2>8 DEF S, Joined
  <2>10. FlattenSeq(ss) = f[n]
    <3> DEFINE g == [i \in 1 .. n |-> f[i]]
    <3>1. ASSUME NEW i \in 1 .. n PROVE g[i] = IF i = 1 THEN ss[i] ELSE g[i - 1] \o ss[i]
      <4>1. CASE i = 1
        <5>1. f[1] = <<>> \o ss[1] /\ ss[1] \in Seq(T)
          <6>1. 1 \in 1 .. n /\ 1 - 1 = 0
            BY <2>1
          <6>2. f[1] = f[1 - 1] \o ss[1]
            BY <2>5, <6>1, Zenon
          <6> QED
            BY <2>1, <2>4, <6>1, <6>2
        <5>2. <<>> \o ss[1] = ss[1]
          BY <5>1, ConcatEmptySeq
        <5> QED
          BY <4>1, <5>1, <5>2
      <4>2. CASE i # 1
        <5>1. i - 1 \in 1 .. n
          BY <2>1, <4>2
        <5> QED
          BY <2>5, <4>2, <5>1
      <4> QED
        BY <4>1, <4>2
    <3>2. g[n] = f[n] /\ g = [i \in 1 .. n |-> g[i]]
      BY <2>1
    <3> HIDE DEF g
    <3>3. FlattenSeq(ss) = g[n]
      BY <2>1, <3>1, <3>2, FlattenIs DEF n
    <3> QED
      BY <3>2, <3>3
  <2> QED
    BY <2>9, <2>10
<1> QED
  BY <1>1, <1>2

\* A number n, the parts of a size that it holds, and what is left.
LEMMA Division ==
  ASSUME NEW n \in Nat, NEW size \in Nat \ {0}
  PROVE  \E q \in Nat, r \in 0 .. (size - 1) :
           n \div size = q /\ n % size = r /\ n = q * size + r /\ (n > size => q >= 1)
<1>1. PICK q \in Int, r \in Int : n \div size = q /\ n % size = r
  OBVIOUS
<1>2. n = size * q + r /\ r \in 0 .. (size - 1)
  BY <1>1
<1>3. q >= 0
  <2> SUFFICES ASSUME q <= -1 PROVE FALSE
    OBVIOUS
  <2>1. size * q <= -size
    OBVIOUS
  <2> QED
    BY <1>2, <2>1
<1>4. n > size => q >= 1
  <2> SUFFICES ASSUME n > size, q = 0 PROVE FALSE
    BY <1>3
  <2> QED
    BY <1>2
<1>5. q \in Nat /\ r \in 0 .. (size - 1) /\ n = q * size + r /\ (n > size => q >= 1)
  BY <1>2, <1>3, <1>4
<1> QED
  BY <1>1, <1>5, Zenon

\* A finite set of numbers has a least and a greatest one.
LEMMA LeastAndGreatest ==
  ASSUME NEW S, S \subseteq Int, IsFiniteSet(S), S # {}
  PROVE  /\ Min(S) \in S /\ \A x \in S : Min(S) <= x
         /\ Max(S) \in S /\ \A x \in S : x <= Max(S)
<1> DEFINE R == {p \in S \X S : p[1] < p[2]}
<1>1. \A x, y \in S : <<x, y>> \in R <=> x < y
  OBVIOUS
<1>2. PICK p \in SetToSeqs(S) : \A j, k \in DOMAIN p : j < k => <<p[j], p[k]>> \in R
  <2> HIDE DEF R
  <2>1. \A x \in S : <<x, x>> \notin R
    BY <1>1
  <2>2. \A x, y, z \in S : <<x, y>> \in R /\ <<y, z>> \in R => <<x, z>> \in R
    BY <1>1
  <2>3. \A x, y \in S : x # y => <<x, y>> \in R \/ <<y, x>> \in R
    BY <1>1
  <2> QED
    BY ONLY IsFiniteSet(S), <2>1, <2>2, <2>3, SortedOnce
<1>3. p \in Seq(S) /\ ToSet(p) = S
  BY <1>2, ArrangedOnce
<1>4. Len(p) \in Nat /\ DOMAIN p = 1 .. Len(p) /\ \A x \in S : \E j \in 1 .. Len(p) : p[j] = x
  BY <1>3 DEF ToSet
<1>5. Len(p) >= 1
  <2>1. PICK x \in S : TRUE
    OBVIOUS
  <2>2. PICK j \in 1 .. Len(p) : p[j] = x
    BY <1>4
  <2> QED
    BY <1>4, <2>2
<1>6. p[1] \in S /\ p[Len(p)] \in S
  BY <1>3, <1>4, <1>5
<1>7. ASSUME NEW x \in S PROVE p[1] <= x /\ x <= p[Len(p)]
  <2>1. PICK j \in 1 .. Len(p) : p[j] = x
    BY <1>4
  <2>2. j = 1 \/ p[1] < p[j]
    <3>1. j # 1 => 1 < j /\ 1 \in DOMAIN p /\ j \in DOMAIN p
      BY <1>4, <1>5
    <3>2. j # 1 => <<p[1], p[j]>> \in R
      BY <1>2, <3>1
    <3> HIDE DEF R
    <3> QED
      BY <1>1, <1>6, <2>1, <3>2
  <2>3. j = Len(p) \/ p[j] < p[Len(p)]
    <3>1. j # Len(p) => j < Len(p) /\ Len(p) \in DOMAIN p /\ j \in DOMAIN p
      <4>1. Len(p) \in 1 .. Len(p) /\ (j # Len(p) => j < Len(p))
        <5>1. Len(p) \in Nat
          BY <1>4
        <5> QED
          BY <1>5, <5>1
      <4> QED
        BY <1>4, <4>1
    <3>2. j # Len(p) => <<p[j], p[Len(p)]>> \in R
      BY <1>2, <3>1
    <3> HIDE DEF R
    <3> QED
      BY <1>1, <1>6, <2>1, <3>2
  <2>4. x \in Int /\ p[1] \in Int /\ p[Len(p)] \in Int
    BY <1>6
  <2>5. (j = 1 => p[1] = x) /\ (j = Len(p) => p[Len(p)] = x)
    BY <2>1
  <2> QED
    BY <2>1, <2>2, <2>3, <2>4, <2>5
<1>8. Min(S) \in S /\ \A x \in S : Min(S) <= x
  BY <1>6, <1>7 DEF Min
<1>9. \A x \in S : p[Len(p)] >= x
  BY <1>6, <1>7
<1>10. Max(S) \in S /\ \A x \in S : Max(S) >= x
  BY <1>6, <1>9 DEF Max
<1>11. \A x \in S : x <= Max(S)
  BY <1>10
<1> QED
  BY <1>8, <1>10, <1>11

LEMMA LeastOfTwo ==
  ASSUME NEW a \in Int, NEW b \in Int
  PROVE  Min({a, b}) = IF a <= b THEN a ELSE b
<1>1. IsFiniteSet({a, b}) /\ {a, b} \subseteq Int /\ {a, b} # {}
  <2>1. {a, b} = {a} \cup {b}
    OBVIOUS
  <2>2. IsFiniteSet({a})
    BY FS_Singleton
  <2>3. IsFiniteSet({a} \cup {b})
    BY <2>2, FS_AddElement
  <2> QED
    BY <2>1, <2>3
<1> QED
  BY <1>1, LeastAndGreatest
=============================================================================
