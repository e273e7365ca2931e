---------------------------- MODULE LibraryFacts ----------------------------
(***************************************************************************)
(* Facts about the library's operators in a form without operator          *)
(* parameters: induction over a set of naturals, extremal elements of such *)
(* sets, what FlattenSeq yields for a sequence of any length, and how      *)
(* powers of two and remainders behave.                                    *)
(***************************************************************************)
EXTENDS Integers, TLAPS, WellFoundedInduction, SequencesExt, SequenceTheorems,
        FiniteSetTheorems

(* A nonempty set of naturals has a least element.                         *)
LEMMA LeastNatural ==
  ASSUME NEW T, T \subseteq Nat, T # {}
  PROVE  \E x \in T : \A y \in T : x <= y
<1>1. \E x \in T : \A y \in T : ~ (<<y, x>> \in OpToRel(<, Nat))
  BY NatLessThanWellFounded, WFMin
<1>2. PICK x \in T : \A y \in T : ~ (<<y, x>> \in OpToRel(<, Nat))
  BY <1>1
<1>3. ASSUME NEW y \in T
      PROVE  x <= y
  <2>1. x \in Nat /\ y \in Nat
    OBVIOUS
  <2>2. <<y, x>> \in Nat \X Nat /\ <<y, x>>[1] = y /\ <<y, x>>[2] = x
    BY <2>1
  <2>3. ~ (y < x)
    BY <1>2, <2>2 DEF OpToRel
  <2>4. QED
    BY <2>1, <2>3
<1>4. QED
  BY <1>3

(* Induction: a set of naturals that holds 0 and the successor of each of  *)
(* its elements holds them all.                                            *)
LEMMA SetInduction ==
  ASSUME NEW T, T \subseteq Nat, 0 \in T, \A n \in T : n + 1 \in T
  PROVE  T = Nat
<1> SUFFICES ASSUME Nat \ T # {}
             PROVE  FALSE
  OBVIOUS
<1>1. PICK x \in Nat \ T : \A y \in Nat \ T : x <= y
  BY LeastNatural
<1>2. x # 0 /\ x - 1 \in Nat
  BY <1>1
<1>3. x - 1 \in T
  BY <1>1, <1>2
<1>4. (x - 1) + 1 = x
  BY <1>1
<1>5. QED
  BY <1>1, <1>3, <1>4

(* A nonempty set of naturals up to n has a greatest element, and Max is   *)
(* it.                                                                     *)
LEMMA MaxOfBounded ==
  ASSUME NEW n \in Nat, NEW T, T \subseteq 0 .. n, T # {}
  PROVE  Max(T) \in T /\ \A y \in T : Max(T) >= y
<1> DEFINE D == {n - t : t \in T}
<1>1. D \subseteq Nat /\ D # {}
  <2>1. \A t \in T : t \in Nat /\ n - t \in Nat
    OBVIOUS
  <2>2. PICK t \in T : TRUE
    OBVIOUS
  <2>3. n - t \in D
    BY <2>2
  <2>4. QED
    BY <2>1, <2>3
<1>2. PICK d \in D : \A e \in D : d <= e
  BY <1>1, LeastNatural
<1>3. PICK t \in T : d = n - t
  BY <1>2
<1>4. \A y \in T : t >= y
  BY <1>2, <1>3
<1>5. QED
  BY <1>4 DEF Max

(* A nonempty set of naturals has a least element, and Min is it.          *)
LEMMA MinOfNaturals ==
  ASSUME NEW T, T \subseteq Nat, T # {}
  PROVE  Min(T) \in T /\ \A y \in T : Min(T) <= y
<1>1. \E x \in T : \A y \in T : x <= y
  BY LeastNatural
<1>2. QED
  BY <1>1 DEF Min

-----------------------------------------------------------------------------
(* FlattenSeq.  Its recursion runs over the index of the outer sequence,   *)
(* so that SetInduction applies.                                           *)

(* Whatever satisfies the equations of the concatenation is FlattenSeq.    *)
LEMMA FlattenUnique ==
  ASSUME NEW S, NEW s \in Seq(Seq(S)), NEW F,
         F[0] = <<>>, \A i \in 1 .. Len(s) : F[i] = F[i - 1] \o s[i]
  PROVE  FlattenSeq(s) = F[Len(s)]
<1> DEFINE n == Len(s)
           then(x, i) == x \o s[i]
           Def(f) == [i \in 1 .. n |-> IF i = 1 THEN s[i] ELSE then(f[i - 1], i)]
           g == [i \in 1 .. n |-> F[i]]
           h == CHOOSE f : f = Def(f)
           T == {i \in Nat : i \in 1 .. n => h[i] = F[i]}
<1>1. n \in Nat
  BY LenProperties
<1>2. CASE n = 0
  <2>1. s = <<>>
    BY <1>2, EmptySeq
  <2>2. QED
    BY <1>2, <2>1 DEF FlattenSeq
<1>3. CASE n # 0
  <2>1. FlattenSeq(s) = h[n]
    BY <1>3 DEF FlattenSeq
  <2>2. 1 \in 1 .. n /\ s[1] \in Seq(S)
    <3>1. 1 \in 1 .. n
      BY <1>1, <1>3
    <3>2. QED
      BY <3>1, ElementOfSeq
  <2>3. then(<<>>, 1) = s[1]
    BY <2>2, ConcatEmptySeq
  <2>4. \A i \in 1 .. n : F[i] = then(F[i - 1], i)
    OBVIOUS
  <2> HIDE DEF then, n
  <2>5. F[1] = s[1]
    <3>1. F[1] = then(F[1 - 1], 1) /\ 1 - 1 = 0
      BY <2>2, <2>4
    <3>2. QED
      BY <2>3, <3>1
  <2>6. ASSUME NEW i \in 1 .. n, i # 1
        PROVE  i - 1 \in 1 .. n
    BY <1>1, <2>6
  <2>7. g = Def(g)
    BY <2>4, <2>5, <2>6
  <2>8. h = Def(h)
    BY <2>7
  <2> HIDE DEF h
  <2>9. 0 \in T
    BY <1>1
  <2>10. ASSUME NEW i \in T
         PROVE  i + 1 \in T
    <3>1. CASE i + 1 \in 1 .. n /\ i = 0
      BY <2>5, <2>8, <3>1
    <3>2. CASE i + 1 \in 1 .. n /\ i # 0
      <4>1. i \in 1 .. n /\ (i + 1) - 1 = i /\ i + 1 # 1
        BY <1>1, <3>2
      <4>2. h[i + 1] = then(h[i], i + 1) /\ F[i + 1] = then(F[i], i + 1)
        BY <2>4, <2>8, <3>2, <4>1
      <4>3. QED
        BY <4>1, <4>2
    <3>3. QED
      BY <3>1, <3>2
  <2>11. T = Nat
    BY <2>9, <2>10, SetInduction
  <2>12. n \in T /\ n \in 1 .. n
    BY <1>1, <1>3, <2>11
  <2>13. QED
    BY <2>1, <2>12 DEF n
<1>4. QED
  BY <1>2, <1>3

(* The concatenation of the first k sequences, for every k: the first has  *)
(* none, and each goes on with the next sequence.                          *)
LEMMA FlattenPrefix ==
  ASSUME NEW S, NEW s \in Seq(Seq(S))
  PROVE  /\ FlattenSeq(SubSeq(s, 1, 0)) = <<>>
         /\ \A k \in 0 .. Len(s) : FlattenSeq(SubSeq(s, 1, k)) \in Seq(S)
         /\ \A k \in 1 .. Len(s) :
              FlattenSeq(SubSeq(s, 1, k)) = FlattenSeq(SubSeq(s, 1, k - 1)) \o s[k]
         /\ FlattenSeq(SubSeq(s, 1, Len(s))) = FlattenSeq(s)
<1> DEFINE n == Len(s)
           then(x, i) == x \o s[i]
           Folds(F, k) == /\ F \in [0 .. k -> Seq(S)] /\ F[0] = <<>>
                          /\ \A i \in 1 .. k : F[i] = then(F[i - 1], i)
           T == {k \in Nat : k \in 0 .. n => \E F : Folds(F, k)}
<1>1. n \in Nat /\ <<>> \in Seq(S)
  BY LenProperties, EmptySeq
<1>2. ASSUME NEW i \in 1 .. n, NEW x \in Seq(S)
      PROVE  then(x, i) \in Seq(S)
  <2>1. s[i] \in Seq(S)
    BY ElementOfSeq
  <2>2. QED
    BY <2>1, ConcatProperties
<1> HIDE DEF n, then
<1>3. 0 \in T
  <2>1. Folds([i \in 0 .. 0 |-> <<>>], 0)
    BY <1>1
  <2>2. QED
    BY <2>1
<1>4. ASSUME NEW k \in T
      PROVE  k + 1 \in T
  <2>1. CASE k + 1 \in 0 .. n
    <3>1. k \in 0 .. n /\ k + 1 \in 1 .. n /\ k \in Nat /\ k \in 0 .. k
      BY <1>1, <2>1
    <3>2. PICK F : Folds(F, k)
      BY <3>1
    <3> DEFINE G == [i \in 0 .. k + 1 |-> IF i = k + 1 THEN then(F[k], k + 1) ELSE F[i]]
    <3>3. then(F[k], k + 1) \in Seq(S)
      BY <1>2, <3>1, <3>2
    <3>4. G \in [0 .. k + 1 -> Seq(S)] /\ G[0] = <<>>
      BY <3>1, <3>2, <3>3
    <3>5. ASSUME NEW i \in 1 .. k + 1
          PROVE  G[i] = then(G[i - 1], i)
      <4>1. i - 1 \in 0 .. k /\ i - 1 # k + 1 /\ G[i - 1] = F[i - 1]
        BY <3>1
      <4>2. CASE i = k + 1
        BY <3>1, <4>1, <4>2
      <4>3. CASE i # k + 1
        <5>1. i \in 1 .. k /\ G[i] = F[i]
          BY <3>1, <4>3
        <5>2. F[i] = then(F[i - 1], i)
          BY <3>2, <5>1
        <5>3. QED
          BY <4>1, <5>1, <5>2
      <4>4. QED
        BY <4>2, <4>3
    <3>6. Folds(G, k + 1)
      BY <3>4, <3>5
    <3> HIDE DEF G
    <3>7. \E H : Folds(H, k + 1)
      BY <3>6
    <3> HIDE DEF Folds
    <3>8. QED
      BY <3>1, <3>7
  <2> HIDE DEF Folds
  <2>2. CASE k + 1 \notin 0 .. n
    BY <2>2
  <2>3. QED
    BY <2>1, <2>2
<1>5. T = Nat
  BY <1>3, <1>4, SetInduction
<1>6. \E F : Folds(F, n)
  <2>1. n \in T /\ n \in 0 .. n
    <3> HIDE DEF T
    <3>1. QED
      BY <1>1, <1>5
  <2> HIDE DEF Folds
  <2>2. QED
    BY <2>1
<1>7. PICK F : Folds(F, n)
  BY <1>6
<1>8. ASSUME NEW k \in 0 .. n
      PROVE  FlattenSeq(SubSeq(s, 1, k)) = F[k]
  <2> DEFINE r == SubSeq(s, 1, k)
  <2>1. k \in Nat /\ \A i \in 1 .. k : i \in 1 .. n
    BY <1>1
  <2>2. r \in Seq(Seq(S)) /\ Len(r) = k /\ \A i \in 1 .. k : r[i] = s[i]
    <3>1. \A i \in 1 .. k : s[i] \in Seq(S)
      BY <2>1, ElementOfSeq DEF n
    <3>2. /\ r \in Seq(Seq(S))
          /\ Len(r) = IF 1 <= k THEN k - 1 + 1 ELSE 0
          /\ \A i \in 1 .. k - 1 + 1 : r[i] = s[1 + i - 1]
      BY <2>1, <3>1, SubSeqProperties
    <3> HIDE DEF r
    <3>3. QED
      BY <2>1, <3>2
  <2> HIDE DEF r
  <2>3. \A i \in 1 .. Len(r) : F[i] = F[i - 1] \o r[i]
    BY <1>7, <2>1, <2>2 DEF then
  <2>4. FlattenSeq(r) = F[Len(r)]
    BY <1>7, <2>2, <2>3, FlattenUnique
  <2>5. QED
    BY <2>2, <2>4 DEF r
<1>9. ASSUME NEW k \in 1 .. n
      PROVE  FlattenSeq(SubSeq(s, 1, k)) = then(FlattenSeq(SubSeq(s, 1, k - 1)), k)
  <2>1. k \in 0 .. n /\ k - 1 \in 0 .. n
    BY <1>1
  <2>2. F[k] = then(F[k - 1], k)
    BY <1>7
  <2>3. QED
    BY <1>8, <2>1, <2>2
<1>10. SubSeq(s, 1, n) = s
  BY SubSeqFull DEF n
<1>11. /\ FlattenSeq(SubSeq(s, 1, 0)) = <<>>
       /\ \A k \in 0 .. n : FlattenSeq(SubSeq(s, 1, k)) \in Seq(S)
  <2>1. 0 \in 0 .. n
    BY <1>1
  <2>2. QED
    BY <1>7, <1>8, <2>1
<1>12. QED
  BY <1>9, <1>10, <1>11 DEF n, then

(* Concatenated, a sequence of sequences of S is a sequence of S.          *)
LEMMA FlattenType ==
  ASSUME NEW S, NEW s \in Seq(Seq(S))
  PROVE  FlattenSeq(s) \in Seq(S)
<1>1. Len(s) \in 0 .. Len(s)
  BY LenProperties
<1>2. QED
  BY <1>1, FlattenPrefix

(* One more sequence goes to the end of the concatenation.                 *)
LEMMA FlattenAppend ==
  ASSUME NEW S, NEW s \in Seq(Seq(S)), NEW t \in Seq(S)
  PROVE  FlattenSeq(Append(s, t)) = FlattenSeq(s) \o t
<1> DEFINE n == Len(s)
           r == Append(s, t)
<1>1. /\ n \in Nat /\ r \in Seq(Seq(S)) /\ Len(r) = n + 1
      /\ r[n + 1] = t /\ \A i \in 1 .. n : r[i] = s[i]
  BY LenProperties, AppendProperties
<1>2. SubSeq(r, 1, n) = s
  <2>1. \A i \in 1 .. n : r[i] \in Seq(S)
    BY <1>1, ElementOfSeq
  <2>2. /\ SubSeq(r, 1, n) \in Seq(Seq(S))
        /\ Len(SubSeq(r, 1, n)) = IF 1 <= n THEN n - 1 + 1 ELSE 0
        /\ \A i \in 1 .. n - 1 + 1 : SubSeq(r, 1, n)[i] = r[1 + i - 1]
    BY <1>1, <2>1, SubSeqProperties
  <2> HIDE DEF r
  <2>3. Len(SubSeq(r, 1, n)) = n /\ \A i \in 1 .. n : SubSeq(r, 1, n)[i] = s[i]
    BY <1>1, <2>2
  <2>4. QED
    BY <2>2, <2>3, SeqEqual
<1>3. /\ FlattenSeq(SubSeq(r, 1, n + 1)) = FlattenSeq(SubSeq(r, 1, (n + 1) - 1)) \o r[n + 1]
      /\ FlattenSeq(SubSeq(r, 1, Len(r))) = FlattenSeq(r)
  <2>1. n + 1 \in 1 .. Len(r)
    BY <1>1
  <2>2. QED
    BY <1>1, <2>1, FlattenPrefix
<1>4. (n + 1) - 1 = n
  BY <1>1
<1>5. QED
  BY <1>1, <1>2, <1>3, <1>4

(* The first sequence is the beginning of the concatenation.               *)
LEMMA FlattenTail ==
  ASSUME NEW S, NEW s \in Seq(Seq(S)), s # <<>>
  PROVE  FlattenSeq(s) = s[1] \o FlattenSeq(Tail(s))
<1> DEFINE n == Len(s)
           t == Tail(s)
           P(k) == FlattenSeq(SubSeq(t, 1, k))
           first(x) == s[1] \o x
           F == [i \in 0 .. n |-> IF i = 0 THEN <<>> ELSE first(P(i - 1))]
<1>1. /\ n \in Nat \ {0} /\ t \in Seq(Seq(S)) /\ Len(t) = n - 1
      /\ \A i \in 1 .. n - 1 : t[i] = s[i + 1]
  BY EmptySeq, HeadTailProperties
<1>2. \A i \in 1 .. n : s[i] \in Seq(S)
  BY ElementOfSeq
<1> HIDE DEF t
<1>3. /\ P(0) = <<>>
      /\ \A k \in 0 .. n - 1 : P(k) \in Seq(S)
      /\ \A k \in 1 .. n - 1 : P(k) = P(k - 1) \o t[k]
      /\ P(n - 1) = FlattenSeq(t)
  <2> HIDE DEF n
  <2>1. QED
    BY <1>1, FlattenPrefix
<1> HIDE DEF n, P, first
<1>4. F[0] = <<>> /\ \A i \in 1 .. n : F[i] = first(P(i - 1))
  BY <1>1
<1> HIDE DEF F
<1>5. 1 \in 1 .. n /\ s[1] \in Seq(S) /\ n \in 1 .. n
  BY <1>1, <1>2
<1>6. ASSUME NEW i \in 1 .. n
      PROVE  F[i] = F[i - 1] \o s[i]
  <2>1. CASE i = 1
    <3>1. F[1] = first(P(1 - 1)) /\ 1 - 1 = 0
      BY <1>4, <1>5
    <3>2. first(<<>>) = s[1] /\ <<>> \o s[1] = s[1]
      BY <1>5, ConcatEmptySeq DEF first
    <3>3. F[1] = s[1] /\ F[0] \o s[1] = s[1]
      BY <1>3, <1>4, <3>1, <3>2
    <3>4. QED
      BY <2>1, <3>1, <3>3
  <2>2. CASE i # 1
    <3>1. i - 1 \in 1 .. n - 1 /\ (i - 1) - 1 \in 0 .. n - 1 /\ i - 1 \in 1 .. n /\ (i - 1) + 1 = i
      BY <1>1, <2>2
    <3> DEFINE j == i - 1
    <3>2. t[j] = s[i] /\ s[i] \in Seq(S)
      BY <1>1, <1>2, <3>1
    <3>3. P(j) = P(j - 1) \o s[i] /\ P(j - 1) \in Seq(S)
      BY <1>3, <3>1, <3>2
    <3>4. F[i] = first(P(j)) /\ F[j] = first(P(j - 1))
      BY <1>4, <3>1
    <3> HIDE DEF j
    <3>5. (s[1] \o P(j - 1)) \o s[i] = s[1] \o (P(j - 1) \o s[i])
      <4> DEFINE u == s[1]
                 v == P(j - 1)
                 w == s[i]
      <4> HIDE DEF u, v, w
      <4>1. u \in Seq(S) /\ v \in Seq(S) /\ w \in Seq(S)
        BY <1>5, <3>2, <3>3 DEF u, v, w
      <4>2. (u \o v) \o w = u \o (v \o w)
        BY <4>1, ConcatAssociative
      <4>3. QED
        BY <4>2 DEF u, v, w
    <3>6. F[i] = F[j] \o s[i]
      BY <3>3, <3>4, <3>5 DEF first
    <3>7. QED
      BY <3>6 DEF j
  <2>3. QED
    BY <2>1, <2>2
<1>7. FlattenSeq(s) = F[n]
  BY <1>4, <1>6, FlattenUnique DEF n
<1>8. F[n] = s[1] \o P(n - 1)
  BY <1>4, <1>5 DEF first
<1>9. QED
  BY <1>3, <1>7, <1>8 DEF t

(* Where the sequences come to lie in the concatenation.                   *)
LEMMA FlattenOffset ==
  ASSUME NEW S, NEW s \in Seq(Seq(S)), NEW k \in 1 .. Len(s), NEW i \in 1 .. Len(s[k])
  PROVE  LET start == Len(FlattenSeq(SubSeq(s, 1, k - 1)))
         IN  /\ start \in Nat
             /\ start + i \in 1 .. Len(FlattenSeq(s))
             /\ FlattenSeq(s)[start + i] = s[k][i]
<1> DEFINE n == Len(s)
           P(j) == FlattenSeq(SubSeq(s, 1, j))
           at == Len(P(k - 1)) + i
           T == {d \in Nat : k + d \in 1 .. n =>
                               at \in 1 .. Len(P(k + d)) /\ P(k + d)[at] = s[k][i]}
<1>1. /\ n \in Nat /\ k \in Nat \ {0} /\ k - 1 \in 0 .. n /\ k \in 0 .. n
      /\ \A j \in 1 .. n : s[j] \in Seq(S)
  BY LenProperties, ElementOfSeq
<1>2. /\ \A j \in 0 .. n : P(j) \in Seq(S)
      /\ \A j \in 1 .. n : P(j) = P(j - 1) \o s[j]
      /\ P(n) = FlattenSeq(s)
  BY FlattenPrefix
<1> HIDE DEF n, P
<1>3. /\ Len(P(k - 1)) \in Nat /\ Len(s[k]) \in Nat /\ at \in Nat
  BY <1>1, <1>2, LenProperties DEF n
<1>4. 0 \in T
  <2>1. P(k) = P(k - 1) \o s[k] /\ P(k - 1) \in Seq(S) /\ s[k] \in Seq(S)
    BY <1>1, <1>2 DEF n
  <2> DEFINE u == P(k - 1)
             v == s[k]
  <2> HIDE DEF u, v
  <2>2. u \in Seq(S) /\ v \in Seq(S)
    BY <2>1 DEF u, v
  <2>3. /\ Len(u \o v) = Len(u) + Len(v)
        /\ \A j \in 1 .. Len(u) + Len(v) :
             (u \o v)[j] = IF j <= Len(u) THEN u[j] ELSE v[j - Len(u)]
    BY <2>2, ConcatProperties
  <2>4. /\ at \in 1 .. Len(u) + Len(v) /\ ~ (at <= Len(u)) /\ at - Len(u) = i
    BY <1>3 DEF u, v
  <2>5. at \in 1 .. Len(u \o v) /\ (u \o v)[at] = v[i]
    BY <2>3, <2>4
  <2>6. k + 0 = k
    BY <1>1
  <2>7. QED
    BY <2>1, <2>5, <2>6 DEF u, v
<1>5. ASSUME NEW d \in T
      PROVE  d + 1 \in T
  <2>1. d \in Nat
    OBVIOUS
  <2>2. CASE k + (d + 1) \in 1 .. n
    <3> DEFINE j == k + (d + 1)
               u == P(k + d)
               v == s[j]
    <3>1. k + d \in 1 .. n /\ k + d \in 0 .. n /\ j - 1 = k + d
      BY <1>1, <2>1, <2>2
    <3>2. P(j) = u \o v /\ u \in Seq(S) /\ v \in Seq(S)
      BY <1>1, <1>2, <2>2, <3>1
    <3>3. at \in 1 .. Len(u) /\ u[at] = s[k][i]
      BY <3>1
    <3> HIDE DEF u, v, j
    <3>4. /\ Len(u \o v) = Len(u) + Len(v)
          /\ \A m \in 1 .. Len(u) + Len(v) :
               (u \o v)[m] = IF m <= Len(u) THEN u[m] ELSE v[m - Len(u)]
          /\ Len(u) \in Nat /\ Len(v) \in Nat
      BY <3>2, ConcatProperties, LenProperties
    <3> HIDE DEF at
    <3>5. at \in 1 .. Len(u) + Len(v) /\ at <= Len(u)
      BY <3>3, <3>4
    <3>6. at \in 1 .. Len(P(j)) /\ P(j)[at] = s[k][i]
      BY <3>2, <3>3, <3>4, <3>5
    <3>7. QED
      BY <2>1, <3>6 DEF j
  <2>3. CASE k + (d + 1) \notin 1 .. n
    BY <2>1, <2>3
  <2>4. QED
    BY <2>2, <2>3
<1>6. T = Nat
  BY <1>4, <1>5, SetInduction
<1>7. n - k \in T /\ k + (n - k) = n /\ n \in 1 .. n
  <2> HIDE DEF T
  <2>1. n - k \in Nat /\ k + (n - k) = n /\ n \in 1 .. n
    BY <1>1 DEF n
  <2>2. QED
    BY <1>6, <2>1
<1>8. at \in 1 .. Len(P(n)) /\ P(n)[at] = s[k][i]
  BY <1>7
<1>9. QED
  BY <1>2, <1>3, <1>8 DEF P


(* The lengths of the beginnings of the concatenation are the running sums *)
(* of the lengths.                                                         *)
LEMMA FlattenLengths ==
  ASSUME NEW S, NEW s \in Seq(Seq(S)), NEW end, end[0] = 0,
         \A k \in 1 .. Len(s) : end[k] = end[k - 1] + Len(s[k])
  PROVE  /\ \A k \in 0 .. Len(s) : Len(FlattenSeq(SubSeq(s, 1, k))) = end[k]
         /\ Len(FlattenSeq(s)) = end[Len(s)]
<1> DEFINE n == Len(s)
           before(k) == Len(FlattenSeq(SubSeq(s, 1, k)))
           T == {k \in Nat : k \in 0 .. n => before(k) = end[k]}
<1>1. n \in Nat
  BY LenProperties
<1>2. before(0) = 0
  <2>1. Len(<<>>) = 0
    OBVIOUS
  <2>2. QED
    BY <2>1, FlattenPrefix
<1>3. ASSUME NEW k \in 1 .. n
      PROVE  before(k) = before(k - 1) + Len(s[k])
  <2> DEFINE u == FlattenSeq(SubSeq(s, 1, k - 1))
             v == s[k]
  <2>1. k - 1 \in 0 .. n
    BY <1>1
  <2>2. FlattenSeq(SubSeq(s, 1, k)) = u \o v /\ u \in Seq(S) /\ v \in Seq(S)
    BY <2>1, FlattenPrefix, ElementOfSeq
  <2> HIDE DEF u, v
  <2>3. Len(u \o v) = Len(u) + Len(v)
    BY <2>2, ConcatProperties
  <2>4. QED
    BY <2>2, <2>3 DEF u, v
<1>4. \A k \in 1 .. n : end[k] = end[k - 1] + Len(s[k])
  OBVIOUS
<1> HIDE DEF before, n
<1>5. 0 \in T
  BY <1>2
<1>6. ASSUME NEW k \in T
      PROVE  k + 1 \in T
  <2>1. k \in Nat
    OBVIOUS
  <2>2. CASE k + 1 \in 0 .. n
    <3>1. k \in 0 .. n /\ k + 1 \in 1 .. n /\ (k + 1) - 1 = k
      BY <1>1, <2>1, <2>2
    <3>2. before(k) = end[k]
      BY <3>1
    <3>3. before(k + 1) = before(k) + Len(s[k + 1]) /\ end[k + 1] = end[k] + Len(s[k + 1])
      BY <1>3, <1>4, <3>1
    <3>4. QED
      BY <2>1, <3>2, <3>3
  <2>3. CASE k + 1 \notin 0 .. n
    BY <2>1, <2>3
  <2>4. QED
    BY <2>2, <2>3
<1>7. T = Nat
  BY <1>5, <1>6, SetInduction
<1>8. ASSUME NEW k \in 0 .. n
      PROVE  before(k) = end[k]
  <2>1. k \in T
    <3> HIDE DEF T
    <3>1. QED
      BY <1>1, <1>7
  <2>2. QED
    BY <2>1
<1>9. n \in 0 .. n
  BY <1>1
<1>10. Len(FlattenSeq(s)) = before(n)
  BY FlattenPrefix DEF before, n
<1>11. Len(FlattenSeq(s)) = end[n]
  BY <1>8, <1>9, <1>10
<1>12. QED
  BY <1>8, <1>11 DEF before, n


-----------------------------------------------------------------------------
(* The pieces of a concatenation by their positions in it.                 *)

(* How many elements there are in the first k sequences of s.              *)
Before(s, k) == Len(FlattenSeq(SubSeq(s, 1, k)))

LEMMA BeforeSums ==
  ASSUME NEW S, NEW s \in Seq(Seq(S))
  PROVE  /\ Before(s, 0) = 0
         /\ \A k \in 0 .. Len(s) : Before(s, k) \in Nat
         /\ \A k \in 1 .. Len(s) : Before(s, k) = Before(s, k - 1) + Len(s[k])
         /\ Before(s, Len(s)) = Len(FlattenSeq(s))
<1>1. Len(<<>>) = 0
  OBVIOUS
<1>2. ASSUME NEW k \in 1 .. Len(s)
      PROVE  Before(s, k) = Before(s, k - 1) + Len(s[k])
  <2> DEFINE u == FlattenSeq(SubSeq(s, 1, k - 1))
             v == s[k]
  <2>1. k - 1 \in 0 .. Len(s)
    BY LenProperties
  <2>2. FlattenSeq(SubSeq(s, 1, k)) = u \o v /\ u \in Seq(S) /\ v \in Seq(S)
    BY <2>1, FlattenPrefix, ElementOfSeq
  <2> HIDE DEF u, v
  <2>3. Len(u \o v) = Len(u) + Len(v)
    BY <2>2, ConcatProperties
  <2>4. QED
    BY <2>2, <2>3 DEF u, v, Before
<1>3. \A k \in 0 .. Len(s) : Before(s, k) \in Nat
  BY FlattenPrefix, LenProperties DEF Before
<1>4. QED
  BY <1>1, <1>2, <1>3, FlattenPrefix DEF Before

LEMMA BeforeGrows ==
  ASSUME NEW S, NEW s \in Seq(Seq(S)), NEW j \in 0 .. Len(s), NEW k \in 0 .. Len(s), j <= k
  PROVE  Before(s, j) <= Before(s, k)
<1> DEFINE n == Len(s)
           T == {d \in Nat : j + d \in 0 .. n => Before(s, j) <= Before(s, j + d)}
<1>1. n \in Nat /\ j \in Nat /\ k \in Nat /\ k <= n
  BY LenProperties
<1>2. /\ \A i \in 0 .. n : Before(s, i) \in Nat
      /\ \A i \in 1 .. n : Before(s, i) = Before(s, i - 1) + Len(s[i]) /\ Len(s[i]) \in Nat
  BY BeforeSums, ElementOfSeq, LenProperties
<1> HIDE DEF n
<1>3. 0 \in T
  BY <1>1, <1>2
<1>4. ASSUME NEW d \in T
      PROVE  d + 1 \in T
  <2>1. CASE j + (d + 1) \in 0 .. n
    <3> DEFINE i == j + (d + 1)
    <3>1. i \in 1 .. n /\ i - 1 = j + d /\ j + d \in 0 .. n
      BY <1>1, <2>1
    <3>2. Before(s, j) <= Before(s, j + d)
      BY <3>1
    <3>3. Before(s, i - 1) = Before(s, j + d)
      BY <3>1
    <3> HIDE DEF i
    <3>4. /\ Before(s, i) = Before(s, i - 1) + Len(s[i]) /\ Len(s[i]) \in Nat
          /\ Before(s, j) \in Nat /\ Before(s, j + d) \in Nat
      BY <1>2, <3>1 DEF n
    <3>5. Before(s, j) <= Before(s, i)
      BY <3>2, <3>3, <3>4
    <3>6. QED
      BY <3>5 DEF i
  <2>2. CASE j + (d + 1) \notin 0 .. n
    BY <2>2
  <2>3. QED
    BY <2>1, <2>2
<1>5. T = Nat
  <2> HIDE DEF T
  <2>1. T \subseteq Nat
    BY DEF T
  <2>2. QED
    BY <1>3, <1>4, <2>1, SetInduction
<1>6. k - j \in T /\ j + (k - j) = k /\ j + (k - j) \in 0 .. n
  <2> HIDE DEF T
  <2>1. k - j \in Nat
    BY <1>1
  <2>2. QED
    BY <1>1, <1>5, <2>1
<1>7. QED
  BY <1>6

(* A position in the concatenation is in exactly one of the sequences.     *)
LEMMA PieceAt ==
  ASSUME NEW S, NEW s \in Seq(Seq(S)), NEW at \in Nat
  PROVE  /\ at < Len(FlattenSeq(s)) <=>
              \E k \in 1 .. Len(s) : Before(s, k - 1) <= at /\ at < Before(s, k)
         /\ \A j, k \in 1 .. Len(s) :
              /\ Before(s, j - 1) <= at /\ at < Before(s, j)
              /\ Before(s, k - 1) <= at /\ at < Before(s, k)
              => j = k
<1> DEFINE n == Len(s)
           T == {k \in 0 .. n : at < Before(s, k)}
<1>1. n \in Nat
  BY LenProperties
<1>2. /\ Before(s, 0) = 0 /\ \A i \in 0 .. n : Before(s, i) \in Nat
      /\ Before(s, n) = Len(FlattenSeq(s))
  BY BeforeSums
<1>3. \A j, k \in 0 .. n : j <= k => Before(s, j) <= Before(s, k)
  BY BeforeGrows
<1> HIDE DEF n
<1>4. ASSUME at < Len(FlattenSeq(s))
      PROVE  \E k \in 1 .. n : Before(s, k - 1) <= at /\ at < Before(s, k)
  <2>1. n \in T
    BY <1>1, <1>2, <1>4
  <2>2. T \subseteq Nat /\ T # {}
    BY <2>1
  <2>3. PICK k \in T : \A i \in T : k <= i
    BY <2>2, LeastNatural
  <2>4. k # 0 /\ k \in 0 .. n /\ at < Before(s, k)
    BY <1>2, <2>3
  <2>5. k - 1 \in 0 .. n /\ k \in 1 .. n /\ ~ (k <= k - 1)
    BY <1>1, <2>4
  <2>6. k - 1 \notin T
    BY <2>3, <2>5
  <2>7. Before(s, k - 1) <= at
    BY <1>2, <2>5, <2>6
  <2>8. QED
    BY <2>4, <2>5, <2>7
<1>5. ASSUME NEW k \in 1 .. n, at < Before(s, k)
      PROVE  at < Len(FlattenSeq(s))
  <2>1. k \in 0 .. n /\ n \in 0 .. n /\ k <= n
    BY <1>1
  <2>2. Before(s, k) <= Before(s, n)
    BY <1>3, <2>1
  <2>3. QED
    BY <1>2, <1>5, <2>1, <2>2
<1>6. ASSUME NEW j \in 1 .. n, NEW k \in 1 .. n, j < k, at < Before(s, j), Before(s, k - 1) <= at
      PROVE  FALSE
  <2>1. j \in 0 .. n /\ k - 1 \in 0 .. n /\ j <= k - 1
    BY <1>1, <1>6
  <2>2. Before(s, j) <= Before(s, k - 1)
    BY <1>3, <2>1
  <2>3. QED
    BY <1>2, <1>6, <2>1, <2>2
<1>7. ASSUME NEW j \in 1 .. n, NEW k \in 1 .. n,
             Before(s, j - 1) <= at, at < Before(s, j), Before(s, k - 1) <= at, at < Before(s, k)
      PROVE  j = k
  <2>1. ~ (j < k) /\ ~ (k < j)
    BY <1>6, <1>7
  <2>2. QED
    BY <1>1, <2>1
<1>8. QED
  BY <1>4, <1>5, <1>7 DEF n

(* What a piece of one of the sequences is in the concatenation.           *)
LEMMA PieceOf ==
  ASSUME NEW S, NEW s \in Seq(Seq(S)), NEW k \in 1 .. Len(s),
         NEW from \in Nat, NEW to \in Nat, from <= to, to <= Len(s[k])
  PROVE  /\ Before(s, k - 1) + to <= Len(FlattenSeq(s))
         /\ SubSeq(s[k], from + 1, to)
              = SubSeq(FlattenSeq(s), Before(s, k - 1) + from + 1, Before(s, k - 1) + to)
<1> DEFINE b == Before(s, k - 1)
           f == FlattenSeq(s)
           x == SubSeq(s[k], from + 1, to)
           y == SubSeq(f, b + from + 1, b + to)
<1>1. /\ Len(s) \in Nat /\ k \in Nat /\ k - 1 \in 0 .. Len(s) /\ k \in 0 .. Len(s)
      /\ Len(s) \in 0 .. Len(s) /\ k <= Len(s) /\ s[k] \in Seq(S) /\ Len(s[k]) \in Nat
  BY LenProperties, ElementOfSeq
<1>2. /\ b \in Nat /\ Before(s, k) = b + Len(s[k]) /\ Before(s, k) <= Before(s, Len(s))
      /\ Before(s, Len(s)) = Len(f) /\ f \in Seq(S) /\ Len(f) \in Nat
  BY <1>1, BeforeSums, BeforeGrows, FlattenType, LenProperties
<1>3. \A i \in 1 .. Len(s[k]) : f[b + i] = s[k][i]
  BY FlattenOffset DEF Before
<1> HIDE DEF b, f
<1>4. b + to <= Len(f)
  BY <1>1, <1>2
<1>5. /\ \A i \in 1 .. Len(s[k]) : s[k][i] \in S
      /\ \A i \in 1 .. Len(f) : f[i] \in S
  BY <1>1, <1>2, ElementOfSeq
<1>6. /\ from + 1 \in Int /\ to \in Int /\ b + from + 1 \in Int /\ b + to \in Int
      /\ \A i \in from + 1 .. to : s[k][i] \in S
      /\ \A i \in b + from + 1 .. b + to : f[i] \in S
  BY <1>1, <1>2, <1>4, <1>5
<1>7. /\ x \in Seq(S) /\ Len(x) = to - from
      /\ \A i \in 1 .. to - from : x[i] = s[k][from + i]
  <2>1. /\ x \in Seq(S) /\ Len(x) = IF from + 1 <= to THEN to - (from + 1) + 1 ELSE 0
        /\ \A i \in 1 .. to - (from + 1) + 1 : x[i] = s[k][(from + 1) + i - 1]
    BY <1>6, SubSeqProperties
  <2> HIDE DEF x
  <2>2. \A i \in 1 .. to - from : (from + 1) + i - 1 = from + i /\ i \in 1 .. to - (from + 1) + 1
    OBVIOUS
  <2>3. QED
    BY <2>1, <2>2
<1>8. /\ y \in Seq(S) /\ Len(y) = to - from
      /\ \A i \in 1 .. to - from : y[i] = f[b + (from + i)]
  <2> DEFINE l == b + from + 1
             m == b + to
  <2>1. y = SubSeq(f, l, m) /\ l \in Int /\ m \in Int /\ \A i \in l .. m : f[i] \in S
    BY <1>6
  <2>2. /\ m - l + 1 = to - from /\ (l <= m <=> to - from # 0)
        /\ \A i \in 1 .. to - from : l + i - 1 = b + (from + i)
    BY <1>2
  <2> HIDE DEF y, l, m
  <2>3. /\ y \in Seq(S) /\ Len(y) = IF l <= m THEN m - l + 1 ELSE 0
        /\ \A i \in 1 .. m - l + 1 : y[i] = f[l + i - 1]
    BY <2>1, SubSeqProperties
  <2>4. Len(y) = to - from
    BY <2>2, <2>3
  <2>5. QED
    BY <2>2, <2>3, <2>4
<1>9. \A i \in 1 .. to - from : from + i \in 1 .. Len(s[k])
  BY <1>1
<1> HIDE DEF x, y
<1>10. x = y
  BY <1>3, <1>7, <1>8, <1>9, SeqEqual
<1>11. QED
  BY <1>4, <1>10 DEF b, f, x, y

(* What a text is after its first one or two characters.                   *)
LEMMA AfterFirst ==
  ASSUME NEW S, NEW t \in Seq(S), NEW c \in S
  PROVE  /\ <<c>> \o t \in Seq(S) /\ Head(<<c>> \o t) = c /\ Tail(<<c>> \o t) = t
<1>1. <<c>> \in Seq(S) /\ Len(<<c>>) = 1
  OBVIOUS
<1>2. PICK s \in Seq(S) : s = <<c>> \o t
  BY <1>1, ConcatProperties
<1>3. /\ Len(s) = 1 + Len(t) /\ Len(t) \in Nat
      /\ \A i \in 1 .. 1 + Len(t) : s[i] = IF i <= 1 THEN c ELSE t[i - 1]
  BY <1>1, <1>2, ConcatProperties
<1>4. s # <<>>
  BY <1>3
<1>5. Head(s) = c
  BY <1>3, <1>4
<1>6. Tail(s) \in Seq(S) /\ Len(Tail(s)) = Len(t) /\ \A i \in 1 .. Len(t) : Tail(s)[i] = s[i + 1]
  BY <1>3, <1>4, HeadTailProperties
<1>7. \A i \in 1 .. Len(t) : Tail(s)[i] = t[i]
  <2> TAKE i \in 1 .. Len(t)
  <2>1. i + 1 \in 1 .. 1 + Len(t) /\ ~(i + 1 <= 1) /\ (i + 1) - 1 = i
    BY <1>3
  <2>2. QED
    BY <1>3, <1>6, <2>1
<1>8. Tail(s) = t
  BY <1>6, <1>7, SeqEqual
<1>9. QED
  BY <1>2, <1>5, <1>8

LEMMA AfterSecond ==
  ASSUME NEW S, NEW t \in Seq(S), NEW c \in S, NEW d \in S
  PROVE  LET s == <<c, d>> \o t IN SubSeq(s, 3, Len(s)) = t
<1>1. <<c, d>> \in Seq(S) /\ Len(<<c, d>>) = 2
  OBVIOUS
<1>2. PICK s \in Seq(S) : s = <<c, d>> \o t
  BY <1>1, ConcatProperties
<1>3. /\ Len(s) = 2 + Len(t) /\ Len(t) \in Nat
      /\ \A i \in 1 .. 2 + Len(t) : s[i] = IF i <= 2 THEN <<c, d>>[i] ELSE t[i - 2]
  BY <1>1, <1>2, ConcatProperties
<1> DEFINE u == SubSeq(s, 3, Len(s))
<1>4. /\ u \in Seq(S) /\ Len(u) = Len(t)
      /\ \A i \in 1 .. Len(t) : u[i] = s[i + 2]
  <2>1. \A i \in 3 .. Len(s) : s[i] \in S
    BY <1>3, ElementOfSeq
  <2>2. QED
    BY <1>3, <2>1, SubSeqProperties
<1> HIDE DEF u
<1>5. \A i \in 1 .. Len(t) : u[i] = t[i]
  <2> TAKE i \in 1 .. Len(t)
  <2>1. i + 2 \in 1 .. 2 + Len(t) /\ ~(i + 2 <= 2) /\ (i + 2) - 2 = i
    BY <1>3
  <2>2. QED
    BY <1>3, <1>4, <2>1
<1>6. u = t
  BY <1>4, <1>5, SeqEqual
<1>7. QED
  BY <1>2, <1>6 DEF u

-----------------------------------------------------------------------------
(* Powers of two and remainders.                                           *)

(* Powers of two, from the number of subsets of a set.                     *)
LEMMA PowerOfTwo ==
  ASSUME NEW n \in Nat
  PROVE  2^n \in Nat \ {0} /\ 2^(n + 1) = 2 * 2^n
<1> DEFINE S == SUBSET (1 .. n)
           T == SUBSET (1 .. n + 1)
           with(x) == x \cup {n + 1}
           W == {with(x) : x \in S}
           f == [x \in S |-> with(x)]
<1>1. IsFiniteSet(1 .. n) /\ Cardinality(1 .. n) = n
  BY FS_Interval
<1>2. IsFiniteSet(1 .. n + 1) /\ Cardinality(1 .. n + 1) = n + 1
  BY FS_Interval
<1>3. IsFiniteSet(S) /\ Cardinality(S) = 2^n
  BY <1>1, FS_SUBSET
<1>4. Cardinality(T) = 2^(n + 1)
  BY <1>2, FS_SUBSET
<1>5. T = S \cup W
  <2>1. 1 .. n + 1 = (1 .. n) \cup {n + 1}
    OBVIOUS
  <2>2. S \cup W \subseteq T
    BY <2>1
  <2>3. ASSUME NEW x \in T
        PROVE  x \in S \cup W
    <3>1. CASE n + 1 \in x
      <4>1. x \ {n + 1} \in S /\ x = with(x \ {n + 1})
        BY <2>1, <3>1
      <4>2. QED
        BY <4>1
    <3>2. CASE n + 1 \notin x
      BY <2>1, <3>2
    <3>3. QED
      BY <3>1, <3>2
  <2>4. QED
    BY <2>2, <2>3
<1>6. S \cap W = {}
  OBVIOUS
<1>7. f \in Bijection(S, W)
  <2>1. f \in Surjection(S, W)
    BY DEF Surjection
  <2>2. \A x, y \in S : f[x] = f[y] => x = y
    <3>1. ASSUME NEW x \in S, NEW y \in S, x \cup {n + 1} = y \cup {n + 1}
          PROVE  x = y
      <4>1. n + 1 \notin x /\ n + 1 \notin y
        OBVIOUS
      <4>2. QED
        BY <3>1, <4>1
    <3>2. QED
      BY <3>1
  <2>3. QED
    BY <2>1, <2>2 DEF Bijection, Injection, Surjection, IsInjective
<1> HIDE DEF S, T, W, f
<1>8. Cardinality(W) = Cardinality(S) /\ IsFiniteSet(W)
  BY <1>3, <1>7, FS_Bijection DEF ExistsBijection
<1>9. Cardinality(T) = Cardinality(S) + Cardinality(W) - Cardinality(S \cap W)
  BY <1>3, <1>5, <1>8, FS_Union
<1>10. Cardinality(S) \in Nat /\ Cardinality(S \cap W) = 0
  BY <1>3, <1>6, FS_CardinalityType, FS_EmptySet
<1>11. {} \in S
  BY DEF S
<1>12. Cardinality(S) # 0
  BY <1>3, <1>11, FS_EmptySet
<1>13. QED
  BY <1>3, <1>4, <1>8, <1>9, <1>10, <1>12

(* The exponents of a product of powers are added.                         *)
LEMMA PowersAdd ==
  ASSUME NEW m \in Nat, NEW n \in Nat
  PROVE  2^(m + n) = 2^m * 2^n
<1> DEFINE T == {k \in Nat : 2^(m + k) = 2^m * 2^k}
<1>1. 0 \in T
  <2>1. m + 0 = m /\ 2^0 = 1 /\ 2^m \in Nat
    BY PowerOfTwo
  <2>2. QED
    BY <2>1
<1>2. ASSUME NEW k \in T
      PROVE  k + 1 \in T
  <2>1. /\ 2^(k + 1) = 2 * 2^k /\ 2^((m + k) + 1) = 2 * 2^(m + k)
        /\ 2^(m + k) = 2^m * 2^k
        /\ 2^m \in Nat /\ 2^k \in Nat
    <3>1. k \in Nat /\ m + k \in Nat
      OBVIOUS
    <3>2. QED
      BY <3>1, PowerOfTwo
  <2>2. (m + k) + 1 = m + (k + 1)
    OBVIOUS
  <2>3. \A x, y \in Nat : 2 * (x * y) = x * (2 * y)
    OBVIOUS
  <2>4. 2^(m + (k + 1)) = 2^m * 2^(k + 1)
    BY <2>1, <2>2, <2>3
  <2>5. QED
    BY <2>4
<1> HIDE DEF T
<1>3. T = Nat
  <2>1. T \subseteq Nat
    BY DEF T
  <2>2. QED
    BY <1>1, <1>2, <2>1, SetInduction
<1>4. QED
  BY <1>3 DEF T

(* Division with remainder.                                                *)
LEMMA Division ==
  ASSUME NEW m \in Nat \ {0}, NEW n \in Int
  PROVE  /\ n \div m \in Int
         /\ n % m \in 0 .. m - 1
         /\ n = (n \div m) * m + (n % m)
<1>1. n \div m \in Int /\ n % m \in 0 .. m - 1
  BY SMT
<1>2. PICK q \in Int : q = n \div m
  BY <1>1
<1>3. n % m = n - m * q
  BY <1>2, SMTT(30)
<1>4. n = q * m + (n - m * q)
  BY SMT
<1>5. QED
  BY <1>1, <1>2, <1>3, <1>4

LEMMA QuotientAndRemainder ==
  ASSUME NEW m \in Nat \ {0}, NEW n \in Int
  PROVE  \E q \in Int, r \in 0 .. m - 1 : n = q * m + r /\ q = n \div m /\ r = n % m
<1>1. n \div m \in Int /\ n % m \in 0 .. m - 1 /\ n = (n \div m) * m + (n % m)
  BY Division
<1>2. QED
  BY <1>1, Zenon

(* The remainder is the only one of its range that differs from n by a     *)
(* multiple of m, and so is the quotient.                                  *)
LEMMA DivisionUnique ==
  ASSUME NEW m \in Nat \ {0}, NEW q \in Int, NEW r \in 0 .. m - 1
  PROVE  (q * m + r) % m = r /\ (q * m + r) \div m = q
  BY SMT

(* Numbers that differ by a multiple of m have the same remainder.         *)
LEMMA SameRemainder ==
  ASSUME NEW m \in Nat \ {0}, NEW n \in Int, NEW k \in Int
  PROVE  (n + k * m) % m = n % m
<1>1. PICK q \in Int, r \in 0 .. m - 1 : n = q * m + r /\ r = n % m
  BY QuotientAndRemainder
<1>2. n + k * m = (q + k) * m + r
  BY <1>1
<1>3. ((q + k) * m + r) % m = r
  BY DivisionUnique
<1>4. QED
  BY <1>1, <1>2, <1>3

LEMMA ProductAssociates == \A x, y, z \in Int : x * (y * z) = (x * y) * z
  BY SMT

(* The remainder by m can be taken of the remainder by a multiple of m.    *)
LEMMA RemainderOfRemainder ==
  ASSUME NEW m \in Nat \ {0}, NEW k \in Nat \ {0}, NEW n \in Int
  PROVE  (n % (k * m)) % m = n % m
<1>1. PICK M \in Nat \ {0} : M = k * m
  BY SMT
<1>2. PICK q \in Int, r \in 0 .. M - 1 : n = q * M + r /\ r = n % M
  BY QuotientAndRemainder
<1>3. PICK j \in Int : j = q * k
  BY SMT
<1>4. n = r + j * m /\ r \in Int
  BY <1>1, <1>2, <1>3, ProductAssociates
<1>5. (r + j * m) % m = r % m
  BY <1>4, SameRemainder
<1>6. QED
  BY <1>1, <1>2, <1>4, <1>5

(* Dividing twice is dividing by the product.                              *)
LEMMA QuotientOfQuotient ==
  ASSUME NEW b \in Nat \ {0}, NEW c \in Nat \ {0}, NEW n \in Int
  PROVE  (n \div b) \div c = n \div (b * c)
<1>1. PICK q \in Int, r \in 0 .. b - 1 : n = q * b + r /\ q = n \div b
  BY QuotientAndRemainder
<1>2. PICK p \in Int, s \in 0 .. c - 1 : q = p * c + s /\ p = q \div c
  BY QuotientAndRemainder
<1>3. PICK m \in Nat \ {0} : m = b * c
  BY SMT
<1>4. PICK t \in Int : t = s * b + r
  BY SMT
<1>5. t \in 0 .. m - 1
  <2>1. s * b <= (c - 1) * b /\ 0 <= s * b
    BY SMT
  <2>2. (c - 1) * b = b * c - b
    BY SMT
  <2>3. PICK x \in Int, y \in Int : x = s * b /\ y = (c - 1) * b
    BY SMT
  <2>4. QED
    BY <1>3, <1>4, <2>1, <2>2, <2>3
<1>6. n = p * m + t
  <2>1. q * b = (p * c) * b + s * b
    BY <1>2, SMT
  <2>2. (p * c) * b = p * (b * c)
    BY SMT
  <2>3. QED
    BY <1>1, <1>3, <1>4, <2>1, <2>2
<1>7. (p * m + t) \div m = p
  BY <1>5, DivisionUnique
<1>8. QED
  BY <1>1, <1>2, <1>3, <1>6, <1>7

(* A quotient is base times the next one and a digit.                      *)
LEMMA QuotientGrows ==
  ASSUME NEW b \in Nat \ {0}, NEW base \in Nat \ {0}, NEW n \in Int
  PROVE  /\ n \div b \in Int /\ (n \div b) % base \in 0 .. base - 1
         /\ n \div b = base * (n \div (base * b)) + ((n \div b) % base)
<1>1. PICK q \in Int : q = n \div b
  BY Division
<1>2. PICK p \in Int, d \in 0 .. base - 1 : q = p * base + d /\ p = q \div base /\ d = q % base
  BY QuotientAndRemainder
<1>3. (n \div b) \div base = n \div (b * base)
  BY QuotientOfQuotient, Zenon
<1>4. p * base = base * p /\ b * base = base * b
  BY SMT
<1>5. QED
  BY <1>1, <1>2, <1>3, <1>4

(* Rows of m: which row the one at n is in, and where in it.               *)
LEMMA RowAndColumn ==
  ASSUME NEW m \in Nat, NEW rows \in Nat, NEW n \in 0 .. rows * m - 1
  PROVE  m # 0 /\ n \div m \in 0 .. rows - 1 /\ n % m \in 0 .. m - 1
<1>1. PICK y \in Int : y = rows * m /\ n \in 0 .. y - 1
  <2>1. rows * m \in Int
    OBVIOUS
  <2>2. QED
    BY <2>1
<1>2. m # 0
  <2>1. rows * 0 = 0
    OBVIOUS
  <2>2. QED
    BY <1>1, <2>1
<1>3. PICK q \in Int, r \in 0 .. m - 1 : n = q * m + r /\ q = n \div m /\ r = n % m
  <2>1. m \in Nat \ {0} /\ n \in Int
    BY <1>1, <1>2
  <2>2. QED
    BY <2>1, QuotientAndRemainder
<1>4. PICK z \in Int : z = q * m
  <2>1. q * m \in Int
    OBVIOUS
  <2>2. QED
    BY <2>1
<1>5. \A a, b \in Int : a <= 0 /\ b >= 0 => a * b <= 0
  BY SMT
<1>6. q >= 0
  <2>1. SUFFICES ASSUME q + 1 <= 0
                 PROVE  FALSE
    OBVIOUS
  <2>2. (q + 1) * m = z + m
    BY <1>4
  <2>3. (q + 1) * m <= 0
    <3>1. q + 1 \in Int /\ m \in Int /\ m >= 0
      OBVIOUS
    <3>2. QED
      BY <1>5, <2>1, <3>1
  <2>4. QED
    BY <1>1, <1>3, <1>4, <2>2, <2>3
<1>7. q < rows
  <2>1. SUFFICES ASSUME rows - q <= 0
                 PROVE  FALSE
    OBVIOUS
  <2>2. (rows - q) * m = y - z
    BY <1>1, <1>4
  <2>3. (rows - q) * m <= 0
    <3>1. rows - q \in Int /\ m \in Int /\ m >= 0
      OBVIOUS
    <3>2. QED
      BY <1>5, <2>1, <3>1
  <2>4. QED
    BY <1>1, <1>3, <1>4, <2>2, <2>3
<1>8. QED
  BY <1>2, <1>3, <1>6, <1>7

LEMMA OneAndOne ==
  ASSUME NEW x, NEW y
  PROVE  <<x>> \o <<y>> = <<x, y>>
<1>1. <<x>> \in Seq({x, y}) /\ <<y>> \in Seq({x, y}) /\ <<x, y>> \in Seq({x, y})
  OBVIOUS
<1>2. Len(<<x>>) = 1 /\ Len(<<y>>) = 1 /\ Len(<<x, y>>) = 2
  OBVIOUS
<1>3. PICK s : s = <<x>> \o <<y>>
  OBVIOUS
<1>4. s \in Seq({x, y}) /\ Len(s) = 2 /\ s[1] = x /\ s[2] = y
  <2>1. /\ s \in Seq({x, y}) /\ Len(s) = 2
        /\ \A i \in 1 .. 2 : s[i] = IF i <= 1 THEN <<x>>[i] ELSE <<y>>[i - 1]
    BY <1>1, <1>2, <1>3, ConcatProperties
  <2>2. 1 \in 1 .. 2 /\ 2 \in 1 .. 2 /\ 2 - 1 = 1
    OBVIOUS
  <2>3. QED
    BY <2>1, <2>2
<1>5. \A i \in 1 .. 2 : s[i] = <<x, y>>[i]
  <2>1. \A i \in 1 .. 2 : i = 1 \/ i = 2
    OBVIOUS
  <2>2. QED
    BY <1>4, <2>1
<1>6. s = <<x, y>>
  BY <1>1, <1>2, <1>4, <1>5, SeqEqual
<1>7. QED
  BY <1>3, <1>6
=============================================================================
