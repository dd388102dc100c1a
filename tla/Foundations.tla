--------------------------- MODULE Foundations ----------------------------
(***************************************************************************)
(* What the proofs of several modules rest on: least and greatest elements *)
(* for the CHOOSEs, and what the operators of Lists return.  Induction     *)
(* over the length of a list is by its least counterexample.               *)
(***************************************************************************)
EXTENDS Lists, WellFoundedInduction, TLAPS

\* A non-empty set of naturals has a least element.
LEMMA LeastElement ==
    ASSUME NEW T \in SUBSET Nat, T # {}
    PROVE  \E x \in T : \A y \in T : x <= y
<1>1. PICK x \in T : \A y \in T : ~ (<< y, x >> \in OpToRel(<, Nat))
  BY NatLessThanWellFounded, WFMin
<1>2. ASSUME NEW y \in T, y < x
      PROVE  FALSE
  <2> DEFINE p == << y, x >>
  <2>1. p \in Nat \X Nat /\ p[1] < p[2]
    BY <1>2, SMT
  <2>2. p \in {ss \in Nat \X Nat : ss[1] < ss[2]}
    BY <2>1, SMT
  <2>3. p \in OpToRel(<, Nat)
    BY <2>2, Zenon DEF OpToRel
  <2> QED
    BY <1>1, <2>3, Zenon
<1> QED
  BY <1>2

\* A non-empty set of naturals bounded by n has a greatest element.
LEMMA GreatestElement ==
    ASSUME NEW n \in Nat, NEW T \in SUBSET (0..n), T # {}
    PROVE  \E x \in T : \A y \in T : y <= x
<1> DEFINE U == {m \in 0..n : n - m \in T}
<1>1. \A y \in T : y \in 0..n /\ n - y \in 0..n /\ n - (n - y) = y
  <2>1. \A y \in 0..n : n - y \in 0..n /\ n - (n - y) = y
    OBVIOUS
  <2> QED
    BY <2>1
<1>2. \A y \in T : n - y \in U
  BY <1>1
<1>3. U \in SUBSET Nat /\ U # {}
  <2>1. PICK y \in T : TRUE
    OBVIOUS
  <2>2. n - y \in U
    BY <1>2, <2>1
  <2>3. U \in SUBSET Nat
    OBVIOUS
  <2> QED
    BY <2>2, <2>3
<1>4. PICK x \in U : \A y \in U : x <= y
  BY <1>3, LeastElement
<1>5. \A y \in T : y <= n - x
  <2>1. ASSUME NEW y \in T
        PROVE  y <= n - x
    <3>1. x <= n - y /\ x \in 0..n /\ y \in 0..n
      BY <1>1, <1>2, <1>4
    <3> QED
      BY <3>1
  <2> QED
    BY <2>1
<1> QED
  BY <1>4, <1>5
-----------------------------------------------------------------------------
(* Lists.                                                                   *)

LEMMA ListMono ==
    ASSUME NEW A, NEW B, A \subseteq B
    PROVE  Seq(A) \subseteq Seq(B)
OBVIOUS

\* The lists that FlattenSeq goes through: after the first, after the second ...
Joins(f, seqs) ==
    f = [i \in 1..Len(seqs) |-> IF i = 1 THEN seqs[i] ELSE f[i - 1] \o seqs[i]]

\* The same for the first m of them.
JoinsUpTo(f, seqs, m) ==
    f = [i \in 1..m |-> IF i = 1 THEN seqs[i] ELSE f[i - 1] \o seqs[i]]

LEMMA JoinsExtend ==
    ASSUME NEW m \in Nat \ {0}, NEW seqs, NEW f, JoinsUpTo(f, seqs, m)
    PROVE  \E g : JoinsUpTo(g, seqs, m + 1)
<1> DEFINE g == [i \in 1..(m + 1) |-> IF i = m + 1 THEN f[m] \o seqs[m + 1] ELSE f[i]]
           h == [i \in 1..(m + 1) |-> IF i = 1 THEN seqs[i] ELSE g[i - 1] \o seqs[i]]
<1>1. \A i \in 1..m : f[i] = IF i = 1 THEN seqs[i] ELSE f[i - 1] \o seqs[i]
  BY DEF JoinsUpTo
<1>2. \A i \in 1..m : g[i] = f[i]
  OBVIOUS
<1>3. g[m + 1] = f[m] \o seqs[m + 1]
  <2>1. m + 1 \in 1..(m + 1)
    OBVIOUS
  <2> QED
    BY <2>1, Zenon
<1>4. ASSUME NEW i \in 1..(m + 1)
      PROVE  g[i] = IF i = 1 THEN seqs[i] ELSE g[i - 1] \o seqs[i]
  <2> HIDE DEF g
  <2>1. CASE i = 1
    BY <2>1, <1>1, <1>2
  <2>2. CASE i # 1 /\ i # m + 1
    <3>1. i \in 1..m /\ i - 1 \in 1..m
      BY <2>2
    <3> QED
      BY <2>2, <3>1, <1>1, <1>2
  <2>3. CASE i = m + 1
    <3>1. m \in 1..m /\ i - 1 = m /\ i # 1
      BY <2>3
    <3> QED
      BY <2>3, <3>1, <1>2, <1>3
  <2> QED
    BY <2>1, <2>2, <2>3
<1>5. g = h
  <2>1. DOMAIN g = 1..(m + 1) /\ DOMAIN h = 1..(m + 1)
    OBVIOUS
  <2>2. \A i \in 1..(m + 1) : h[i] = IF i = 1 THEN seqs[i] ELSE g[i - 1] \o seqs[i]
    <3> HIDE DEF g
    <3> QED
      OBVIOUS
  <2>3. \A i \in 1..(m + 1) : g[i] = h[i]
    <3> HIDE DEF g, h
    <3> QED
      BY <1>4, <2>2
  <2>4. g = [i \in 1..(m + 1) |-> g[i]] /\ h = [i \in 1..(m + 1) |-> h[i]]
    OBVIOUS
  <2> HIDE DEF g, h
  <2> QED
    BY <2>3, <2>4
<1>6. JoinsUpTo(g, seqs, m + 1)
  <2> HIDE DEF g
  <2> QED
    BY <1>5 DEF JoinsUpTo
<1> QED
  BY <1>6

LEMMA JoinsExist ==
    ASSUME NEW n \in Nat \ {0}, NEW seqs
    PROVE  \E f : JoinsUpTo(f, seqs, n)
<1> DEFINE T == {m \in 1..n : ~ \E f : JoinsUpTo(f, seqs, m)}
<1>1. SUFFICES T = {}
  OBVIOUS
<1>2. SUFFICES ASSUME T # {}
               PROVE  FALSE
  OBVIOUS
<1>3. T \in SUBSET Nat
  OBVIOUS
<1>4. PICK m \in T : \A k \in T : m <= k
  <2> HIDE DEF T
  <2> QED
    BY <1>2, <1>3, LeastElement
<1>5. m \in 1..n /\ ~ \E f : JoinsUpTo(f, seqs, m)
  BY <1>4
<1>6. m # 1
  <2> DEFINE one == [i \in 1..1 |-> seqs[i]]
             two == [i \in 1..1 |-> IF i = 1 THEN seqs[i] ELSE one[i - 1] \o seqs[i]]
  <2>1. \A i \in 1..1 : i = 1
    OBVIOUS
  <2>2. one = two
    BY <2>1, Zenon
  <2>3. JoinsUpTo(one, seqs, 1)
    <3> HIDE DEF one
    <3> QED
      BY <2>2 DEF JoinsUpTo
  <2> QED
    BY <2>3, <1>5
<1>7. m - 1 \in Nat \ {0} /\ m - 1 \in 1..n /\ ~ m <= m - 1 /\ (m - 1) + 1 = m
  BY <1>5, <1>6
<1>8. m - 1 \notin T
  BY <1>4, <1>7
<1>9. \E f : JoinsUpTo(f, seqs, m - 1)
  BY <1>7, <1>8
<1>10. \E f : JoinsUpTo(f, seqs, (m - 1) + 1)
  BY <1>7, <1>9, JoinsExtend
<1> QED
  BY <1>5, <1>7, <1>10

LEMMA FlattenJoins ==
    ASSUME NEW S, NEW seqs \in Seq(S), Len(seqs) # 0
    PROVE  \E f : Joins(f, seqs) /\ FlattenSeq(seqs) = f[Len(seqs)]
<1> DEFINE f == CHOOSE g : Joins(g, seqs)
<1>1. \E g : Joins(g, seqs)
  <2>1. Len(seqs) \in Nat \ {0}
    OBVIOUS
  <2> QED
    BY <2>1, JoinsExist DEF Joins, JoinsUpTo
<1>2. Joins(f, seqs)
  BY <1>1
<1>3. FlattenSeq(seqs) = f[Len(seqs)]
  BY DEF FlattenSeq, Joins
<1> QED
  BY <1>2, <1>3

\* What is joined from lists over S is a list over S.
LEMMA FlattenType ==
    ASSUME NEW S, NEW seqs \in Seq(Seq(S))
    PROVE  FlattenSeq(seqs) \in Seq(S)
<1>1. CASE Len(seqs) = 0
  BY <1>1 DEF FlattenSeq
<1>2. CASE Len(seqs) # 0
  <2>1. PICK f : Joins(f, seqs) /\ FlattenSeq(seqs) = f[Len(seqs)]
    BY <1>2, FlattenJoins
  <2> DEFINE n == Len(seqs)
             T == {m \in 1..n : f[m] \notin Seq(S)}
  <2>2. \A i \in 1..n : f[i] = IF i = 1 THEN seqs[i] ELSE f[i - 1] \o seqs[i]
    BY <2>1 DEF Joins
  <2>3. \A i \in 1..n : seqs[i] \in Seq(S)
    OBVIOUS
  <2>4. n \in Nat \ {0}
    BY <1>2
  <2> HIDE DEF n
  <2>5. T = {}
    <3>1. SUFFICES ASSUME T # {}
                   PROVE  FALSE
      OBVIOUS
    <3>2. PICK m \in T : \A k \in T : m <= k
      <4>1. T \in SUBSET Nat
        BY <2>4
      <4> HIDE DEF T
      <4> QED
        BY <3>1, <4>1, LeastElement
    <3>3. m \in 1..n /\ f[m] \notin Seq(S)
      BY <3>2
    <3>4. m # 1
      BY <3>3, <2>2, <2>3
    <3>5. m - 1 \in 1..n /\ ~ m <= m - 1
      BY <3>3, <3>4, <2>4
    <3>6. m - 1 \notin T
      <4> HIDE DEF T
      <4> QED
        BY <3>2, <3>5
    <3>7. f[m - 1] \in Seq(S)
      BY <3>5, <3>6
    <3>8. f[m] = f[m - 1] \o seqs[m]
      BY <3>3, <3>4, <2>2
    <3>9. f[m] \in Seq(S)
      BY <3>3, <3>7, <3>8, <2>3
    <3> QED
      BY <3>3, <3>9
  <2>6. f[n] \in Seq(S)
    BY <2>4, <2>5
  <2> QED
    BY <2>1, <2>6 DEF n
<1> QED
  BY <1>1, <1>2

LEMMA OnlyType ==
    ASSUME NEW S, NEW x \in S, NEW condition
    PROVE  Only(condition, x) \in Seq(S)
BY DEF Only

LEMMA ConcatType ==
    ASSUME NEW S, NEW n \in Nat, NEW f, \A i \in 1..n : f[i] \in Seq(S)
    PROVE  Concat(f, n) \in Seq(S)
<1>1. [i \in 1..n |-> f[i]] \in Seq(Seq(S))
  OBVIOUS
<1> QED
  BY <1>1, FlattenType DEF Concat

\* What is kept of a list are elements of it, those in the chosen places.
LEMMA KeptType ==
    ASSUME NEW S, NEW s \in Seq(S), NEW K
    PROVE  Kept(s, K) \in Seq({s[i] : i \in K \cap DOMAIN s})
<1> DEFINE E == {s[i] : i \in K \cap DOMAIN s}
           parts == [i \in DOMAIN s |-> Only(i \in K, s[i])]
<1>1. \A i \in DOMAIN s : parts[i] \in Seq(E)
  <2> SUFFICES ASSUME NEW i \in DOMAIN s
               PROVE  Only(i \in K, s[i]) \in Seq(E)
    OBVIOUS
  <2>1. CASE i \in K
    <3>1. s[i] \in E
      BY <2>1
    <3> HIDE DEF E
    <3> QED
      BY <2>1, <3>1 DEF Only
  <2>2. CASE i \notin K
    <3> HIDE DEF E
    <3> QED
      BY <2>2 DEF Only
  <2> QED
    BY <2>1, <2>2
<1>2. parts \in Seq(Seq(E))
  <2>1. DOMAIN s = 1..Len(s) /\ Len(s) \in Nat
    OBVIOUS
  <2>2. parts \in [1..Len(s) -> Seq(E)]
    <3> HIDE DEF E
    <3> QED
      BY <1>1, <2>1
  <2> HIDE DEF parts, E
  <2> QED
    BY <2>1, <2>2
<1> HIDE DEF parts, E
<1>3. FlattenSeq(parts) \in Seq(E)
  BY <1>2, FlattenType
<1> QED
  BY <1>3 DEF parts, Kept, E

\* t lists the elements of s in the places K in their order; t[i] is from place pos[i].
Enumerates(pos, t, s, K) ==
    /\ pos \in [DOMAIN t -> K]
    /\ \A i, j \in DOMAIN t : i < j => pos[i] < pos[j]
    /\ \A k \in K : \E i \in DOMAIN t : pos[i] = k
    /\ \A i \in DOMAIN t : t[i] = s[pos[i]]

LEMMA EnumeratesEmpty ==
    ASSUME NEW s
    PROVE  \E pos : Enumerates(pos, << >>, s, {})
<1> DEFINE pos == [i \in {} |-> 0]
<1>1. DOMAIN << >> = {}
  OBVIOUS
<1>2. pos \in [DOMAIN << >> -> {}]
  BY <1>1
<1>3. Enumerates(pos, << >>, s, {})
  <2> HIDE DEF pos
  <2> QED
    BY <1>1, <1>2 DEF Enumerates
<1> QED
  BY <1>3

\* One more place, behind all others.
LEMMA EnumeratesMore ==
    ASSUME NEW S, NEW s \in Seq(S), NEW t \in Seq(S), NEW K \in SUBSET Nat,
           NEW k \in DOMAIN s, \A j \in K : j < k,
           NEW pos, Enumerates(pos, t, s, K)
    PROVE  \E more : Enumerates(more, t \o << s[k] >>, s, K \cup {k})
<1> DEFINE u == t \o << s[k] >>
           n == Len(t)
           more == [i \in 1..(n + 1) |-> IF i = n + 1 THEN k ELSE pos[i]]
<1>1. /\ n \in Nat /\ DOMAIN t = 1..n
      /\ DOMAIN u = 1..(n + 1)
      /\ \A i \in 1..n : u[i] = t[i]
      /\ u[n + 1] = s[k]
  <2>1. s[k] \in S
    OBVIOUS
  <2> QED
    BY <2>1
<1>2. /\ DOMAIN more = 1..(n + 1)
      /\ \A i \in 1..n : more[i] = pos[i]
      /\ more[n + 1] = k
  <2> HIDE DEF n
  <2>1. n + 1 \in 1..(n + 1) /\ \A i \in 1..n : i \in 1..(n + 1) /\ i # n + 1
    BY <1>1
  <2> QED
    BY <2>1, Zenon
<1>3. \A i \in 1..(n + 1) : i \in 1..n \/ i = n + 1
  BY <1>1
<1>4. \A i \in 1..n : i \in 1..(n + 1) /\ ~ n + 1 < i
  BY <1>1
<1>5. n + 1 \in 1..(n + 1) /\ ~ n + 1 < n + 1
  BY <1>1
<1>6. more = [i \in 1..(n + 1) |-> more[i]]
  OBVIOUS
<1> HIDE DEF more, u, n
<1>7. more \in [DOMAIN u -> K \cup {k}]
  <2>1. \A i \in 1..(n + 1) : more[i] \in K \cup {k}
    BY <1>1, <1>2, <1>3 DEF Enumerates
  <2> QED
    BY <1>1, <1>6, <2>1
<1>8. ASSUME NEW i \in 1..(n + 1), NEW j \in 1..(n + 1), i < j
      PROVE  more[i] < more[j]
  <2>1. i \in 1..n
    BY <1>1, <1>8
  <2>2. CASE j \in 1..n
    BY <1>1, <1>2, <1>8, <2>1, <2>2 DEF Enumerates
  <2>3. CASE j = n + 1
    <3>1. more[i] \in K
      BY <1>1, <1>2, <2>1 DEF Enumerates
    <3> QED
      BY <1>2, <2>3, <3>1
  <2> QED
    BY <1>3, <2>2, <2>3
<1>9. ASSUME NEW a \in K \cup {k}
      PROVE  \E i \in 1..(n + 1) : more[i] = a
  <2>1. CASE a \in K
    <3>1. PICK i \in 1..n : pos[i] = a
      BY <1>1, <2>1 DEF Enumerates
    <3> QED
      BY <1>2, <1>4, <3>1
  <2>2. CASE a = k
    BY <1>2, <1>5, <2>2
  <2> QED
    BY <2>1, <2>2
<1>10. \A i \in 1..(n + 1) : u[i] = s[more[i]]
  BY <1>1, <1>2, <1>3 DEF Enumerates
<1>11. Enumerates(more, u, s, K \cup {k})
  BY <1>1, <1>7, <1>8, <1>9, <1>10 DEF Enumerates
<1> QED
  BY <1>11 DEF u

\* Kept lists exactly the chosen places, in their order.
LEMMA KeptPlaces ==
    ASSUME NEW S, NEW s \in Seq(S), NEW K
    PROVE  \E pos : Enumerates(pos, Kept(s, K), s, K \cap DOMAIN s)
<1> DEFINE n == Len(s)
           parts == [i \in DOMAIN s |-> Only(i \in K, s[i])]
<1>1. n \in Nat /\ DOMAIN s = 1..n
  OBVIOUS
<1>2. \A i \in 1..n : parts[i] = IF i \in K THEN << s[i] >> ELSE << >>
  BY <1>1 DEF Only
<1>3. \A i \in 1..n : s[i] \in S
  OBVIOUS
<1>4. \A i \in 1..n : parts[i] \in Seq(S)
  <2> SUFFICES ASSUME NEW i \in 1..n
               PROVE  parts[i] \in Seq(S)
    OBVIOUS
  <2> HIDE DEF parts
  <2>1. << s[i] >> \in Seq(S) /\ << >> \in Seq(S)
    BY <1>3
  <2> QED
    BY <1>2, <2>1, Zenon
<1>5. parts \in Seq(Seq(S)) /\ Len(parts) = n
  <2>1. DOMAIN parts = 1..n /\ parts = [i \in 1..n |-> parts[i]]
    BY <1>1
  <2> HIDE DEF parts, n
  <2>2. parts \in [1..n -> Seq(S)]
    BY <1>4, <2>1
  <2> QED
    BY <1>1, <2>1, <2>2
<1>6. Kept(s, K) = FlattenSeq(parts)
  BY DEF Kept
<1>7. CASE n = 0
  <2>1. Kept(s, K) = << >>
    <3> HIDE DEF parts, n
    <3>1. parts = << >>
      BY <1>5, <1>7
    <3> QED
      BY <1>5, <1>6, <1>7, <3>1 DEF FlattenSeq
  <2>2. K \cap DOMAIN s = {}
    BY <1>1, <1>7
  <2> QED
    BY <2>1, <2>2, EnumeratesEmpty
<1>8. CASE n # 0
  <2> HIDE DEF parts
  <2>1. PICK f : Joins(f, parts) /\ FlattenSeq(parts) = f[n]
    BY <1>5, <1>8, FlattenJoins
  <2>2. \A i \in 1..n : f[i] = IF i = 1 THEN parts[i] ELSE f[i - 1] \o parts[i]
    BY <1>5, <2>1 DEF Joins
  <2> DEFINE Good(m) == f[m] \in Seq(S) /\ \E pos : Enumerates(pos, f[m], s, K \cap (1..m))
             T == {m \in 1..n : ~ Good(m)}
  <2> HIDE DEF n
  <2>3. T = {}
    <3>1. SUFFICES ASSUME T # {}
                   PROVE  FALSE
      OBVIOUS
    <3>2. T \in SUBSET Nat
      BY <1>1
    <3>3. PICK m \in T : \A k \in T : m <= k
      <4> HIDE DEF T
      <4> QED
        BY <3>1, <3>2, LeastElement
    <3>4. m \in 1..n /\ ~ Good(m)
      BY <3>3
    <3> DEFINE before == IF m = 1 THEN << >> ELSE f[m - 1]
               B == K \cap (1..(m - 1))
    <3>5. before \in Seq(S) /\ \E pos : Enumerates(pos, before, s, B)
      <4>1. CASE m = 1
        <5>1. B = {}
          BY <4>1
        <5> QED
          BY <4>1, <5>1, EnumeratesEmpty
      <4>2. CASE m # 1
        <5>1. m - 1 \in 1..n /\ ~ m <= m - 1
          BY <1>1, <3>4, <4>2
        <5>2. m - 1 \notin T
          <6> HIDE DEF T
          <6> QED
            BY <3>3, <5>1
        <5>3. Good(m - 1)
          BY <5>1, <5>2
        <5> QED
          BY <4>2, <5>3
      <4> QED
        BY <4>1, <4>2
    <3>6. f[m] = before \o parts[m]
      <4>1. parts[m] \in Seq(S)
        BY <1>4, <3>4
      <4>2. CASE m = 1
        <5>1. f[m] = parts[m] /\ before = << >>
          BY <2>2, <3>4, <4>2
        <5>2. \A q \in Seq(S) : << >> \o q = q
          OBVIOUS
        <5> QED
          BY <4>1, <5>1, <5>2, Zenon
      <4>3. CASE m # 1
        BY <2>2, <3>4, <4>3
      <4> QED
        BY <4>2, <4>3
    <3>7. B \in SUBSET Nat /\ \A j \in B : j < m
      BY <1>1, <3>4
    <3> HIDE DEF before
    <3>8. CASE m \in K
      <4>1. K \cap (1..m) = B \cup {m}
        BY <1>1, <3>4, <3>8
      <4>2. f[m] = before \o << s[m] >>
        BY <1>2, <3>4, <3>6, <3>8
      <4>3. m \in DOMAIN s
        BY <1>1, <3>4
      <4>4. PICK pos : Enumerates(pos, before, s, B)
        BY <3>5
      <4> HIDE DEF B
      <4>5. \E more : Enumerates(more, before \o << s[m] >>, s, B \cup {m})
        BY <3>5, <3>7, <4>3, <4>4, EnumeratesMore
      <4>6. f[m] \in Seq(S)
        <5>1. s[m] \in S
          BY <4>3
        <5> QED
          BY <3>5, <4>2, <5>1
      <4> QED
        BY <3>4, <4>1, <4>2, <4>5, <4>6
    <3>9. CASE m \notin K
      <4>1. K \cap (1..m) = B
        BY <1>1, <3>4, <3>9
      <4>2. f[m] = before
        <5>1. f[m] = before \o << >>
          BY <1>2, <3>4, <3>6, <3>9
        <5> QED
          BY <3>5, <5>1
      <4> QED
        BY <3>4, <3>5, <4>1, <4>2
    <3> QED
      BY <3>8, <3>9
  <2>4. n \in 1..n
    BY <1>1, <1>8
  <2>5. Good(n)
    BY <2>3, <2>4
  <2>6. K \cap DOMAIN s = K \cap (1..n)
    BY <1>1
  <2> QED
    BY <1>6, <2>1, <2>5, <2>6
<1> QED
  BY <1>7, <1>8
=============================================================================
