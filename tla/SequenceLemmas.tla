--------------------------- MODULE SequenceLemmas ---------------------------
(***************************************************************************)
(* Lemmas about numbers, orders and sequences that know nothing of the     *)
(* library: induction over an interval, the enumeration of a finite set in *)
(* an order, and what FlattenSeq makes of a sequence of sequences.         *)
(***************************************************************************)
EXTENDS Integers, FiniteSets, SequencesExt, FiniteSetTheorems, FunctionTheorems,
        SequenceTheorems, WellFoundedInduction, TLAPS

(***************************************************************************)
(* A set of numbers that is not empty has a least one.                     *)
(***************************************************************************)
LEMMA LeastNumber ==
  ASSUME NEW S \in SUBSET Nat, S # {}
  PROVE  \E m \in S : \A n \in S : m <= n
<1> DEFINE R == {ss \in Nat \X Nat : ss[1] < ss[2]}
<1>1. IsWellFoundedOn(R, Nat)
  BY NatLessThanWellFounded DEF OpToRel
<1>2. \A m, n \in Nat : m < n => <<m, n>> \in R
  OBVIOUS
<1> HIDE DEF R
<1>3. PICK m \in S : \A n \in S : ~(<<n, m>> \in R)
  BY <1>1, WFMin
<1>4. ASSUME NEW n \in S PROVE m <= n
  <2>1. m \in Nat /\ n \in Nat /\ ~(n < m)
    BY <1>2, <1>3
  <2> QED
    BY <2>1
<1> QED
  BY <1>4

(***************************************************************************)
(* Induction over 0..N: the set of the numbers for which something holds   *)
(* is all of it.                                                           *)
(***************************************************************************)
LEMMA Induction ==
  ASSUME NEW N \in Nat, NEW S, 0 \in S, \A i \in 1..N : i - 1 \in S => i \in S
  PROVE  \A i \in 0..N : i \in S
<1> SUFFICES ASSUME NEW k \in 0..N, k \notin S PROVE FALSE
  OBVIOUS
<1> DEFINE T == {i \in 0..N : i \notin S}
<1>1. T \in SUBSET Nat /\ T # {}
  OBVIOUS
<1>2. PICK m \in T : \A n \in T : m <= n
  <2> HIDE DEF T
  <2> QED
    BY <1>1, LeastNumber
<1>3. m \in 1..N
  BY <1>2
<1>4. m - 1 \notin T
  BY <1>2, <1>3
<1>5. m - 1 \in 0..N
  BY <1>3
<1>6. m - 1 \in S
  BY <1>4, <1>5
<1> QED
  BY <1>2, <1>3, <1>6

(***************************************************************************)
(* A function takes finitely many arguments to finitely many values.       *)
(***************************************************************************)
LEMMA ImageFinite ==
  ASSUME NEW S, IsFiniteSet(S), NEW f
  PROVE  IsFiniteSet({f[x] : x \in S})
<1> DEFINE T == {f[x] : x \in S}
           g == [x \in S |-> f[x]]
<1>1. g \in [S -> T] /\ \A t \in T : \E x \in S : g[x] = t
  OBVIOUS
<1>2. g \in Surjection(S, T)
  <2> HIDE DEF g, T
  <2> QED
    BY <1>1 DEF Surjection
<1> HIDE DEF g, T
<1>3. IsFiniteSet(T)
  BY <1>2, FS_Surjection
<1> QED
  BY <1>3 DEF T

----------------------------------------------------------------------------
(* The elements of a finite set, in an order. *)

\* R is a strict total order on S.
StrictOrder(R, S) ==
  /\ \A a, b \in S : a # b => <<a, b>> \in R \/ <<b, a>> \in R
  /\ \A a \in S : <<a, a>> \notin R
  /\ \A a, b, c \in S : <<a, b>> \in R /\ <<b, c>> \in R => <<a, c>> \in R

\* s lists elements of S in the order R, as many as there are.
Enumerates(s, S, R) ==
  /\ s \in [1..Cardinality(S) -> S]
  /\ \A i, j \in 1..Cardinality(S) : i < j => <<s[i], s[j]>> \in R

(***************************************************************************)
(* Every finite set can be enumerated in an order: the place of an element *)
(* is the number of those before it.                                       *)
(***************************************************************************)
LEMMA EnumerationExists ==
  ASSUME NEW S, IsFiniteSet(S), NEW R, StrictOrder(R, S)
  PROVE  \E s : Enumerates(s, S, R)
<1> DEFINE n        == Cardinality(S)
           before(x) == {y \in S : <<y, x>> \in R}
           rank     == [x \in S |-> Cardinality(before(x)) + 1]
<1>1. n \in Nat
  BY FS_CardinalityType
<1>2. ASSUME NEW x \in S
      PROVE  IsFiniteSet(before(x)) /\ Cardinality(before(x)) \in 0..(n - 1)
  <2>1. before(x) \in SUBSET (S \ {x})
    BY DEF StrictOrder
  <2>2. IsFiniteSet(S \ {x}) /\ Cardinality(S \ {x}) = n - 1
    BY FS_RemoveElement
  <2> HIDE DEF before, n
  <2>3. IsFiniteSet(before(x)) /\ Cardinality(before(x)) <= n - 1
    BY <2>1, <2>2, FS_Subset
  <2>4. Cardinality(before(x)) \in Nat
    BY <2>3, FS_CardinalityType
  <2> QED
    BY <1>1, <2>3, <2>4
<1>3. rank \in [S -> 1..n]
  <2> HIDE DEF before, n
  <2> QED
    BY <1>1, <1>2
<1>4. ASSUME NEW x \in S, NEW y \in S, <<x, y>> \in R
      PROVE  rank[x] < rank[y]
  <2>1. before(x) \in SUBSET before(y)
    BY <1>4 DEF StrictOrder
  <2>2. x \in before(y) /\ x \notin before(x)
    BY <1>4 DEF StrictOrder
  <2> HIDE DEF before, n
  <2>3. Cardinality(before(x)) <= Cardinality(before(y))
        /\ Cardinality(before(x)) # Cardinality(before(y))
    BY <1>2, <2>1, <2>2, FS_Subset
  <2>4. Cardinality(before(x)) \in Int /\ Cardinality(before(y)) \in Int
    BY <1>2
  <2>5. rank[x] = Cardinality(before(x)) + 1 /\ rank[y] = Cardinality(before(y)) + 1
    OBVIOUS
  <2> QED
    BY <2>3, <2>4, <2>5
<1> HIDE DEF rank, before
<1>5. ASSUME NEW x \in S, NEW y \in S, rank[x] = rank[y]
      PROVE  x = y
  <2>1. rank[x] \in Int /\ rank[y] \in Int
    BY <1>3
  <2>2. <<x, y>> \notin R /\ <<y, x>> \notin R
    BY <1>4, <1>5, <2>1
  <2> QED
    BY <2>2 DEF StrictOrder
<1>6. rank \in Injection(S, 1..n)
  BY <1>3, <1>5, Fun_IsInj
<1>7. \A i \in 1..n : \E x \in S : rank[x] = i
  <2>1. IsFiniteSet(1..n) /\ Cardinality(1..n) = n
    BY <1>1, FS_Interval
  <2>2. rank \in Surjection(S, 1..n)
    BY <1>6, <2>1, FS_Injection
  <2> QED
    BY <2>2 DEF Surjection
<1> DEFINE s == [i \in 1..n |-> CHOOSE x \in S : rank[x] = i]
<1>8. \A i \in 1..n : s[i] \in S /\ rank[s[i]] = i
  BY <1>7
<1>9. s \in [1..n -> S]
  BY <1>8
<1>10. ASSUME NEW i \in 1..n, NEW j \in 1..n, i < j
       PROVE  <<s[i], s[j]>> \in R
  <2> HIDE DEF s
  <2>1. s[i] # s[j]
    BY <1>8, <1>10
  <2>2. ~(<<s[j], s[i]>> \in R)
    BY <1>4, <1>8, <1>10
  <2> QED
    BY <1>8, <2>1, <2>2 DEF StrictOrder
<1>11. Enumerates(s, S, R)
  <2> HIDE DEF s
  <2> QED
    BY <1>9, <1>10 DEF Enumerates
<1> QED
  BY <1>11

(***************************************************************************)
(* An enumeration leaves no element out.                                   *)
(***************************************************************************)
LEMMA EnumerationComplete ==
  ASSUME NEW S, IsFiniteSet(S), NEW R, StrictOrder(R, S), NEW s, Enumerates(s, S, R)
  PROVE  /\ Cardinality(S) \in Nat
         /\ s \in Seq(S) /\ Len(s) = Cardinality(S)
         /\ \A x \in S : \E i \in 1..Cardinality(S) : s[i] = x
<1> DEFINE n == Cardinality(S)
<1>1. n \in Nat /\ s \in [1..n -> S]
  BY FS_CardinalityType DEF Enumerates
<1>2. ASSUME NEW i \in 1..n, NEW j \in 1..n, s[i] = s[j] PROVE i = j
  <2>1. ~(i < j) /\ ~(j < i)
    BY <1>1, <1>2 DEF Enumerates, StrictOrder
  <2> QED
    BY <1>1, <2>1
<1>3. s \in Injection(1..n, S)
  BY <1>1, <1>2, Fun_IsInj
<1>4. s \in Surjection(1..n, S)
  <2>1. IsFiniteSet(1..n) /\ Cardinality(1..n) = n
    BY <1>1, FS_Interval
  <2> QED
    BY <1>3, <2>1, FS_Injection
<1> QED
  BY <1>1, <1>4 DEF Surjection
----------------------------------------------------------------------------
(* Sequences joined. *)

(***************************************************************************)
(* The elements of two sequences joined are those of the first, then those *)
(* of the second.                                                          *)
(***************************************************************************)
LEMMA JoinFacts ==
  ASSUME NEW S, NEW s \in Seq(S), NEW t \in Seq(S)
  PROVE  /\ s \o t \in Seq(S) /\ Len(s \o t) = Len(s) + Len(t)
         /\ Len(s) \in Nat /\ Len(t) \in Nat
         /\ \A k \in 1..(Len(s) + Len(t)) :
              (s \o t)[k] = IF k <= Len(s) THEN s[k] ELSE t[k - Len(s)]
  OBVIOUS

\* f[i] joins the first i of the sequences.
JoinsFirst(f, seqs) ==
  f = [i \in 1..Len(seqs) |-> IF i = 1 THEN seqs[i] ELSE f[i - 1] \o seqs[i]]

(***************************************************************************)
(* The range of a sequence: that of two sequences joined, of what is       *)
(* appended, of the head and the tail.                                     *)
(***************************************************************************)
LEMMA RangeOfJoin ==
  ASSUME NEW S, NEW s \in Seq(S), NEW t \in Seq(S)
  PROVE  /\ s \o t \in Seq(S)
         /\ Range(s) \subseteq Range(s \o t) /\ Range(t) \subseteq Range(s \o t)
         /\ Range(s \o t) = Range(s) \cup Range(t)
<1>1. /\ s \o t \in Seq(S) /\ Len(s \o t) = Len(s) + Len(t)
      /\ Len(s) \in Nat /\ Len(t) \in Nat
      /\ \A k \in 1..(Len(s) + Len(t)) :
           (s \o t)[k] = IF k <= Len(s) THEN s[k] ELSE t[k - Len(s)]
  BY JoinFacts
<1>2. Range(s) = {s[k] : k \in 1..Len(s)} /\ Range(t) = {t[k] : k \in 1..Len(t)}
      /\ Range(s \o t) = {(s \o t)[k] : k \in 1..Len(s \o t)}
  BY <1>1 DEF Range
<1>3. \A k \in 1..Len(s) : k \in 1..Len(s \o t) /\ (s \o t)[k] = s[k]
  BY <1>1
<1>4. \A k \in 1..Len(t) : k + Len(s) \in 1..Len(s \o t) /\ (s \o t)[k + Len(s)] = t[k]
  BY <1>1
<1>5. ASSUME NEW k \in 1..Len(s \o t) PROVE (s \o t)[k] \in Range(s) \cup Range(t)
  <2>1. CASE k <= Len(s)
    BY <1>1, <1>2, <2>1
  <2>2. CASE ~(k <= Len(s))
    <3>1. k - Len(s) \in 1..Len(t)
      BY <1>1, <2>2
    <3> QED
      BY <1>1, <1>2, <2>2, <3>1
  <2> QED
    BY <2>1, <2>2
<1>6. Range(s) \subseteq Range(s \o t)
  BY <1>2, <1>3
<1>7. Range(t) \subseteq Range(s \o t)
  BY <1>2, <1>4
<1>8. Range(s \o t) \subseteq Range(s) \cup Range(t)
  BY <1>2, <1>5
<1> QED
  BY <1>1, <1>6, <1>7, <1>8

(***************************************************************************)
(* A sequence cut in two.                                                  *)
(***************************************************************************)
LEMMA RangeOfParts ==
  ASSUME NEW S, NEW s \in Seq(S), NEW n \in 0..Len(s)
  PROVE  LET front == SubSeq(s, 1, n)
             rest  == SubSeq(s, n + 1, Len(s))
         IN  /\ front \in Seq(S) /\ rest \in Seq(S)
             /\ Range(s) = Range(front) \cup Range(rest)
<1>1. Len(s) \in Nat /\ \A i \in 1..Len(s) : s[i] \in S
  BY ElementOfSeq
<1>2. \A i \in 1..n : s[i] \in S
  BY <1>1
<1>3. \A i \in (n + 1)..Len(s) : s[i] \in S
  BY <1>1
<1>4. PICK front, rest : front = SubSeq(s, 1, n) /\ rest = SubSeq(s, n + 1, Len(s))
  OBVIOUS
<1>5. /\ front \in Seq(S) /\ Len(front) = n
      /\ \A i \in 1..n : front[i] = s[i]
  <2>1. /\ SubSeq(s, 1, n) \in Seq(S)
        /\ Len(SubSeq(s, 1, n)) = IF 1 <= n THEN n - 1 + 1 ELSE 0
        /\ \A i \in 1..(n - 1 + 1) : SubSeq(s, 1, n)[i] = s[1 + i - 1]
    BY <1>1, <1>2, SubSeqProperties
  <2> QED
    BY <1>1, <1>4, <2>1
<1>6. /\ rest \in Seq(S) /\ Len(rest) = Len(s) - n
      /\ \A i \in 1..(Len(s) - n) : rest[i] = s[n + i]
  <2>1. n + 1 \in Int /\ Len(s) \in Int
    BY <1>1
  <2>2. /\ SubSeq(s, n + 1, Len(s)) \in Seq(S)
        /\ Len(SubSeq(s, n + 1, Len(s))) = IF n + 1 <= Len(s) THEN Len(s) - (n + 1) + 1 ELSE 0
        /\ \A i \in 1..(Len(s) - (n + 1) + 1) :
             SubSeq(s, n + 1, Len(s))[i] = s[(n + 1) + i - 1]
    BY <1>3, <2>1, SubSeqProperties
  <2> QED
    BY <1>1, <1>4, <2>2
<1>7. Range(s) = {s[i] : i \in 1..Len(s)} /\ Range(front) = {front[i] : i \in 1..n}
      /\ Range(rest) = {rest[i] : i \in 1..(Len(s) - n)}
  BY <1>1, <1>5, <1>6 DEF Range
<1>8. ASSUME NEW i \in 1..Len(s) PROVE s[i] \in Range(front) \cup Range(rest)
  <2>1. CASE i <= n
    <3>1. i \in 1..n
      BY <1>1, <2>1
    <3> QED
      BY <1>5, <1>7, <3>1
  <2>2. CASE ~(i <= n)
    <3>1. i - n \in 1..(Len(s) - n) /\ n + (i - n) = i
      BY <1>1, <2>2
    <3>2. rest[i - n] = s[i]
      BY <1>6, <3>1
    <3> QED
      BY <1>7, <3>1, <3>2
  <2> QED
    BY <2>1, <2>2
<1>9. ASSUME NEW i \in 1..n PROVE front[i] \in Range(s)
  BY <1>1, <1>5, <1>7
<1>10. ASSUME NEW i \in 1..(Len(s) - n) PROVE rest[i] \in Range(s)
  <2>1. n + i \in 1..Len(s)
    BY <1>1
  <2> QED
    BY <1>6, <1>7, <2>1
<1> QED
  BY <1>4, <1>5, <1>6, <1>7, <1>8, <1>9, <1>10

(***************************************************************************)
(* The first element of a queue and the others.                            *)
(***************************************************************************)
LEMMA RangeOfQueue ==
  ASSUME NEW S, NEW q \in Seq(S), q # <<>>
  PROVE  /\ Head(q) \in S /\ Tail(q) \in Seq(S)
         /\ Range(q) = {Head(q)} \cup Range(Tail(q))
<1>1. Len(q) \in Nat /\ Len(q) >= 1 /\ \A i \in 1..Len(q) : q[i] \in S
  BY ElementOfSeq
<1>2. PICK t : t = Tail(q)
  OBVIOUS
<1>3. /\ t \in Seq(S) /\ Len(t) = Len(q) - 1 /\ Head(q) = q[1]
      /\ \A i \in 1..(Len(q) - 1) : t[i] = q[i + 1]
  BY <1>1, <1>2
<1>4. Range(q) = {q[i] : i \in 1..Len(q)} /\ Range(t) = {t[i] : i \in 1..(Len(q) - 1)}
  BY <1>1, <1>3 DEF Range
<1>5. ASSUME NEW i \in 1..Len(q), i # 1 PROVE q[i] \in Range(t)
  <2>1. i - 1 \in 1..(Len(q) - 1) /\ (i - 1) + 1 = i
    BY <1>1, <1>5
  <2> QED
    BY <1>3, <1>4, <2>1
<1>6. ASSUME NEW i \in 1..(Len(q) - 1) PROVE t[i] \in Range(q)
  <2>1. i + 1 \in 1..Len(q)
    BY <1>1
  <2> QED
    BY <1>3, <1>4, <2>1
<1>7. 1 \in 1..Len(q)
  BY <1>1
<1> QED
  BY <1>1, <1>2, <1>3, <1>4, <1>5, <1>6, <1>7

(***************************************************************************)
(* An element appended.                                                    *)
(***************************************************************************)
LEMMA RangeOfAppend ==
  ASSUME NEW S, NEW q \in Seq(S), NEW x \in S
  PROVE  Append(q, x) \in Seq(S) /\ Range(Append(q, x)) = Range(q) \cup {x}
<1>1. PICK n : n = Len(q) /\ n \in Nat
  OBVIOUS
<1>2. PICK r : r = Append(q, x)
  OBVIOUS
<1>3. /\ r \in Seq(S) /\ Len(r) = n + 1 /\ r[n + 1] = x
      /\ \A i \in 1..n : r[i] = q[i]
  BY <1>1, <1>2
<1>4. Range(q) = {q[i] : i \in 1..n} /\ Range(r) = {r[i] : i \in 1..(n + 1)}
  BY <1>1, <1>3 DEF Range
<1>5. \A i \in 1..(n + 1) : i \in 1..n \/ i = n + 1
  BY <1>1
<1>6. \A i \in 1..n : i \in 1..(n + 1)
  BY <1>1
<1>7. n + 1 \in 1..(n + 1)
  BY <1>1
<1> QED
  BY <1>2, <1>3, <1>4, <1>5, <1>6, <1>7

(***************************************************************************)
(* The recursion of FlattenSeq defines a function.                         *)
(***************************************************************************)
LEMMA FlattenIsJoin ==
  ASSUME NEW S, NEW seqs \in Seq(S), seqs # <<>>
  PROVE  \E f : JoinsFirst(f, seqs) /\ FlattenSeq(seqs) = f[Len(seqs)]
<1> DEFINE N    == Len(seqs)
           G(f, m) == f = [i \in 1..m |-> IF i = 1 THEN seqs[i] ELSE f[i - 1] \o seqs[i]]
           T    == {m \in 0..N : \E f : G(f, m)}
<1>1. N \in Nat /\ N # 0
  OBVIOUS
<1>2. 0 \in T
  <2> DEFINE none == [i \in 1..0 |-> seqs[i]]
  <2>1. none = [i \in 1..0 |-> IF i = 1 THEN seqs[i] ELSE none[i - 1] \o seqs[i]]
    OBVIOUS
  <2>2. G(none, 0)
    BY <2>1
  <2>3. 0 \in 0..N
    BY <1>1
  <2> HIDE DEF none, G, N
  <2> QED
    BY <2>2, <2>3
<1>3. \A m \in 1..N : m - 1 \in T => m \in T
  <2> SUFFICES ASSUME NEW m \in 1..N, m - 1 \in T PROVE m \in T
    OBVIOUS
  <2>1. PICK f : G(f, m - 1)
    OBVIOUS
  <2> DEFINE g == [i \in 1..m |-> IF i = 1 THEN seqs[i] ELSE f[i - 1] \o seqs[i]]
  <2>2. ASSUME NEW i \in 1..m PROVE g[i] = IF i = 1 THEN seqs[i] ELSE g[i - 1] \o seqs[i]
    <3>1. CASE i = 1
      BY <3>1
    <3>2. CASE i # 1
      <4>1. i - 1 \in 1..(m - 1) /\ i - 1 \in 1..m
        BY <1>1, <3>2
      <4>2. f[i - 1] = IF i - 1 = 1 THEN seqs[i - 1] ELSE f[(i - 1) - 1] \o seqs[i - 1]
        BY <2>1, <4>1
      <4>3. g[i - 1] = f[i - 1]
        BY <4>1, <4>2
      <4> QED
        BY <3>2, <4>3
    <3> QED
      BY <3>1, <3>2
  <2>3. g = [i \in 1..m |-> g[i]]
    OBVIOUS
  <2>4. G(g, m)
    <3> HIDE DEF g
    <3> QED
      BY <2>2, <2>3
  <2>5. m \in 0..N
    BY <1>1
  <2> HIDE DEF G, g, N
  <2> QED
    BY <2>4, <2>5
<1>4. N \in T
  <2>1. N \in 0..N
    BY <1>1
  <2> HIDE DEF T, N
  <2>2. \A i \in 0..N : i \in T
    BY <1>1, <1>2, <1>3, Induction
  <2> QED
    BY <2>1, <2>2
<1>5. PICK g : G(g, N)
  BY <1>4
<1>6. JoinsFirst(g, seqs)
  BY <1>5 DEF JoinsFirst
<1>7. PICK f : /\ f = (CHOOSE h : JoinsFirst(h, seqs))
               /\ JoinsFirst(f, seqs)
  BY <1>6
<1>8. FlattenSeq(seqs) = f[N]
  BY <1>1, <1>7, Zenon DEF FlattenSeq, JoinsFirst
<1> QED
  BY <1>7, <1>8

(***************************************************************************)
(* FlattenSeq joins sequences to one: it has every element of theirs and   *)
(* no other.                                                               *)
(***************************************************************************)
LEMMA FlattenFacts ==
  ASSUME NEW S, NEW seqs \in Seq(Seq(S))
  PROVE  /\ FlattenSeq(seqs) \in Seq(S)
         /\ \A i \in 1..Len(seqs) : \A j \in 1..Len(seqs[i]) :
              \E k \in 1..Len(FlattenSeq(seqs)) : FlattenSeq(seqs)[k] = seqs[i][j]
<1>1. CASE seqs = <<>>
  <2>1. FlattenSeq(seqs) = <<>> /\ Len(seqs) = 0
    BY <1>1 DEF FlattenSeq
  <2>2. FlattenSeq(seqs) \in Seq(S)
    BY <2>1
  <2>3. \A i \in 1..Len(seqs) : FALSE
    BY <2>1
  <2> QED
    BY <2>2, <2>3, Zenon
<1>2. CASE seqs # <<>>
  <2> DEFINE N == Len(seqs)
  <2>1. N \in Nat /\ N >= 1 /\ \A i \in 1..N : seqs[i] \in Seq(S)
    BY <1>2
  <2>2. PICK f : JoinsFirst(f, seqs) /\ FlattenSeq(seqs) = f[N]
    BY <1>2, FlattenIsJoin
  <2>3. f[1] = seqs[1] /\ \A i \in 2..N : f[i] = f[i - 1] \o seqs[i]
    <3>1. 1 \in 1..N /\ \A i \in 2..N : i \in 1..N /\ i # 1
      BY <2>1
    <3>2. f = [i \in 1..N |-> IF i = 1 THEN seqs[i] ELSE f[i - 1] \o seqs[i]]
      BY <2>2 DEF JoinsFirst
    <3> HIDE DEF N
    <3> QED
      BY <3>1, <3>2
  <2> DEFINE Has(m) == \A i \in 1..m : \A j \in 1..Len(seqs[i]) :
                         \E k \in 1..Len(f[m]) : f[m][k] = seqs[i][j]
             T == {m \in 0..N : m = 0 \/ (f[m] \in Seq(S) /\ Has(m))}
  <2>4. 0 \in T
    BY <2>1
  <2>5. ASSUME NEW m \in 1..N, m - 1 \in T PROVE m \in T
    <3>1. CASE m = 1
      <4>1. f[1] \in Seq(S) /\ Has(1)
        BY <2>1, <2>3
      <4> HIDE DEF Has
      <4> QED
        BY <3>1, <4>1
    <3>2. CASE m # 1
      <4>1. m \in 2..N /\ m - 1 # 0 /\ m - 1 \in 1..N
        BY <2>1, <3>2
      <4>2. f[m - 1] \in Seq(S) /\ Has(m - 1)
        BY <2>5, <4>1
      <4>3. f[m] = f[m - 1] \o seqs[m] /\ seqs[m] \in Seq(S)
        BY <2>1, <2>3, <4>1
      <4>4. PICK s, t : s = f[m - 1] /\ t = seqs[m] /\ s \in Seq(S) /\ t \in Seq(S)
        BY <4>2, <4>3
      <4>5. f[m] = s \o t
        BY <4>3, <4>4
      <4>6. /\ s \o t \in Seq(S) /\ Len(s \o t) = Len(s) + Len(t)
            /\ Len(s) \in Nat /\ Len(t) \in Nat
            /\ \A k \in 1..(Len(s) + Len(t)) : (s \o t)[k] = IF k <= Len(s) THEN s[k] ELSE t[k - Len(s)]
        BY <4>4, JoinFacts, ZenonT(40)
      <4>7. ASSUME NEW i \in 1..m, NEW j \in 1..Len(seqs[i])
            PROVE  \E k \in 1..Len(f[m]) : f[m][k] = seqs[i][j]
        <5>1. CASE i = m
          <6>1. Len(seqs[i]) = Len(t) /\ seqs[i] = t
            BY <4>4, <5>1
          <6>2. j \in 1..Len(t)
            BY <6>1
          <6> HIDE DEF N, T, Has
          <6>3. Len(s) + j \in 1..(Len(s) + Len(t)) /\ ~(Len(s) + j <= Len(s))
                /\ (Len(s) + j) - Len(s) = j
            BY <4>6, <6>2
          <6>4. (s \o t)[Len(s) + j] = t[j]
            BY <4>6, <6>3
          <6> QED
            BY <4>5, <4>6, <6>1, <6>3, <6>4
        <5>2. CASE i # m
          <6>1. i \in 1..(m - 1)
            BY <4>1, <5>2
          <6>2. PICK k \in 1..Len(s) : s[k] = seqs[i][j]
            BY <4>2, <4>4, <6>1
          <6> HIDE DEF N, T, Has
          <6>3. k \in 1..(Len(s) + Len(t)) /\ k <= Len(s)
            BY <4>6, <6>2
          <6>4. (s \o t)[k] = s[k]
            BY <4>6, <6>3
          <6> QED
            BY <4>5, <4>6, <6>2, <6>3, <6>4
        <5> QED
          BY <5>1, <5>2
      <4>8. f[m] \in Seq(S)
        BY <4>5, <4>6
      <4>9. Has(m)
        BY <4>7
      <4> HIDE DEF Has
      <4> QED
        BY <4>1, <4>8, <4>9
    <3> QED
      BY <3>1, <3>2
  <2>6. N \in T
    <3>1. N \in 0..N
      BY <2>1
    <3>2. \A m \in 1..N : m - 1 \in T => m \in T
      BY <2>5
    <3> HIDE DEF T, N
    <3> QED
      BY <2>1, <2>4, <3>1, <3>2, Induction
  <2>7. f[N] \in Seq(S) /\ Has(N)
    BY <2>1, <2>6
  <2> QED
    BY <2>2, <2>7
<1> QED
  BY <1>1, <1>2

(***************************************************************************)
(* It does not matter which two of three sequences are joined first.       *)
(***************************************************************************)
LEMMA JoinAssociative ==
  ASSUME NEW S, NEW s \in Seq(S), NEW t \in Seq(S), NEW u \in Seq(S)
  PROVE  (s \o t) \o u = s \o (t \o u)
  BY ConcatAssociative

(***************************************************************************)
(* What the recursion of FlattenSeq gives at each place.                   *)
(***************************************************************************)
LEMMA FlattenSteps ==
  ASSUME NEW S, NEW seqs \in Seq(Seq(S)), seqs # <<>>
  PROVE  \E f : /\ FlattenSeq(seqs) = f[Len(seqs)] /\ f[1] = seqs[1]
                /\ \A i \in 2..Len(seqs) : f[i] = f[i - 1] \o seqs[i]
<1>1. PICK N : N = Len(seqs) /\ N \in Nat /\ N >= 1
  <2>1. Len(seqs) \in Nat /\ Len(seqs) >= 1
    OBVIOUS
  <2> QED
    BY <2>1
<1>2. PICK f : JoinsFirst(f, seqs) /\ FlattenSeq(seqs) = f[N]
  <2>1. PICK U : seqs \in Seq(U)
    OBVIOUS
  <2>2. \E f : JoinsFirst(f, seqs) /\ FlattenSeq(seqs) = f[Len(seqs)]
    BY <2>1, FlattenIsJoin
  <2> QED
    BY <1>1, <2>2
<1>3. 1 \in 1..N /\ \A i \in 2..N : i \in 1..N /\ i # 1
  BY <1>1
<1>4. f = [i \in 1..N |-> IF i = 1 THEN seqs[i] ELSE f[i - 1] \o seqs[i]]
  BY <1>1, <1>2 DEF JoinsFirst
<1>5. f[1] = seqs[1] /\ \A i \in 2..N : f[i] = f[i - 1] \o seqs[i]
  BY <1>3, <1>4
<1> QED
  BY <1>1, <1>2, <1>5

(***************************************************************************)
(* To join two sequences of sequences is to join what FlattenSeq makes of  *)
(* each of them.                                                           *)
(***************************************************************************)
LEMMA FlattenJoin ==
  ASSUME NEW S, NEW a \in Seq(Seq(S)), NEW b \in Seq(Seq(S))
  PROVE  FlattenSeq(a \o b) = FlattenSeq(a) \o FlattenSeq(b)
<1>1. FlattenSeq(a) \in Seq(S) /\ FlattenSeq(b) \in Seq(S)
  BY FlattenFacts
<1>2. CASE a = <<>>
  <2>1. FlattenSeq(a) = <<>> /\ a \o b = b
    BY <1>2 DEF FlattenSeq
  <2>2. PICK w : w = FlattenSeq(b) /\ w \in Seq(S)
    BY <1>1
  <2>3. <<>> \o w = w
    BY <2>2
  <2> QED
    BY <2>1, <2>2, <2>3
<1>3. CASE b = <<>>
  <2>1. FlattenSeq(b) = <<>> /\ a \o b = a
    BY <1>3 DEF FlattenSeq
  <2>2. PICK w : w = FlattenSeq(a) /\ w \in Seq(S)
    BY <1>1
  <2>3. w \o <<>> = w
    BY <2>2
  <2> QED
    BY <2>1, <2>2, <2>3
<1>4. CASE a # <<>> /\ b # <<>>
  <2>1. PICK n, m : n = Len(a) /\ m = Len(b) /\ n \in Nat /\ m \in Nat /\ n >= 1 /\ m >= 1
    <3>1. Len(a) \in Nat /\ Len(b) \in Nat /\ Len(a) >= 1 /\ Len(b) >= 1
      BY <1>4
    <3> QED
      BY <3>1
  <2>2. PICK U : U = Seq(S)
    OBVIOUS
  <2>3. PICK c : c = a \o b
    OBVIOUS
  <2>4. /\ c \in Seq(U) /\ Len(c) = n + m
        /\ \A k \in 1..(n + m) : c[k] = IF k <= n THEN a[k] ELSE b[k - n]
    BY <2>1, <2>2, <2>3, JoinFacts
  <2>5. c \in Seq(Seq(S)) /\ c # <<>>
    <3>1. Len(<<>>) = 0 /\ n + m # 0
      BY <2>1
    <3> QED
      BY <2>2, <2>4, <3>1
  <2>6. PICK f : FlattenSeq(c) = f[n + m] /\ f[1] = c[1] /\ \A i \in 2..(n + m) : f[i] = f[i - 1] \o c[i]
    <3>1. \E f : FlattenSeq(c) = f[Len(c)] /\ f[1] = c[1] /\ \A i \in 2..Len(c) : f[i] = f[i - 1] \o c[i]
      BY <2>5, FlattenSteps
    <3> QED
      BY <2>4, <3>1
  <2>7. PICK g : FlattenSeq(a) = g[n] /\ g[1] = a[1] /\ \A i \in 2..n : g[i] = g[i - 1] \o a[i]
    <3>1. \E g : FlattenSeq(a) = g[Len(a)] /\ g[1] = a[1] /\ \A i \in 2..Len(a) : g[i] = g[i - 1] \o a[i]
      BY <1>4, FlattenSteps
    <3> QED
      BY <2>1, <3>1
  <2>8. PICK h : FlattenSeq(b) = h[m] /\ h[1] = b[1] /\ \A i \in 2..m : h[i] = h[i - 1] \o b[i]
    <3>1. \E h : FlattenSeq(b) = h[Len(b)] /\ h[1] = b[1] /\ \A i \in 2..Len(b) : h[i] = h[i - 1] \o b[i]
      BY <1>4, FlattenSteps
    <3> QED
      BY <2>1, <3>1
  <2>9. /\ \A i \in 1..n : c[i] = a[i]
        /\ \A i \in 1..m : c[n + i] = b[i] /\ b[i] \in Seq(S)
    <3>1. \A i \in 1..n : i \in 1..(n + m) /\ i <= n
      BY <2>1
    <3>2. \A i \in 1..m : n + i \in 1..(n + m) /\ ~(n + i <= n) /\ (n + i) - n = i
      BY <2>1
    <3>3. \A i \in 1..m : b[i] \in Seq(S)
      BY <2>1
    <3> QED
      BY <2>4, <3>1, <3>2, <3>3
  <2> DEFINE T == {i \in 0..n : i = 0 \/ f[i] = g[i]}
  <2>10. 0 \in T
    BY <2>1
  <2>11. ASSUME NEW i \in 1..n, i - 1 \in T PROVE i \in T
    <3>1. CASE i = 1
      <4>1. c[1] = a[1]
        BY <2>9, <3>1
      <4>2. f[i] = g[i]
        BY <2>6, <2>7, <3>1, <4>1
      <4>3. i \in 0..n
        BY <2>1
      <4> QED
        BY <4>2, <4>3
    <3>2. CASE i # 1
      <4>1. i \in 2..n /\ i \in 2..(n + m) /\ i - 1 # 0 /\ i \in 0..n
        BY <2>1, <3>2
      <4>2. f[i - 1] = g[i - 1] /\ c[i] = a[i]
        BY <2>9, <2>11, <4>1
      <4>3. f[i] = g[i]
        BY <2>6, <2>7, <4>1, <4>2
      <4> QED
        BY <4>1, <4>3
    <3> QED
      BY <3>1, <3>2
  <2>12. f[n] = g[n]
    <3> HIDE DEF T
    <3>1. \A i \in 0..n : i \in T
      BY <2>1, <2>10, <2>11, Induction
    <3>2. n \in 0..n /\ n # 0
      BY <2>1
    <3>3. n \in T
      BY <3>1, <3>2
    <3> QED
      BY <3>2, <3>3 DEF T
  <2>13. PICK u : u = g[n] /\ u \in Seq(S) /\ u = FlattenSeq(a)
    BY <1>1, <2>7
  <2> DEFINE V == {i \in 0..m : i = 0 \/ (h[i] \in Seq(S) /\ f[n + i] = u \o h[i])}
  <2>14. 0 \in V
    BY <2>1
  <2>15. ASSUME NEW i \in 1..m, i - 1 \in V PROVE i \in V
    <3>1. PICK x : x = b[i] /\ x \in Seq(S) /\ x = c[n + i]
      <4>1. b[i] \in Seq(S) /\ b[i] = c[n + i]
        BY <2>9
      <4> HIDE DEF V
      <4> QED
        BY <4>1
    <3>2. i \in 0..m /\ n + i \in 2..(n + m) /\ (n + i) - 1 = n + (i - 1)
      BY <2>1
    <3>3. f[n + i] = f[n + (i - 1)] \o x
      BY <2>6, <3>1, <3>2
    <3>4. CASE i = 1
      <4>1. n + (i - 1) = n
        BY <2>1, <3>4
      <4>2. f[n + i] = u \o x /\ h[i] = x
        BY <2>8, <2>12, <2>13, <3>1, <3>3, <3>4, <4>1
      <4> QED
        BY <3>1, <3>2, <4>2
    <3>5. CASE i # 1
      <4>1. i \in 2..m /\ i - 1 # 0
        BY <2>1, <3>5
      <4>2. PICK v : v = h[i - 1] /\ v \in Seq(S) /\ f[n + (i - 1)] = u \o v
        BY <2>15, <4>1
      <4>3. h[i] = v \o x
        BY <2>8, <3>1, <4>1, <4>2
      <4>4. v \o x \in Seq(S)
        BY <3>1, <4>2
      <4>5. (u \o v) \o x = u \o (v \o x)
        <5>1. u \in Seq(S) /\ v \in Seq(S) /\ x \in Seq(S)
          BY <2>13, <3>1, <4>2
        <5> HIDE DEF T, V
        <5> QED
          BY <5>1, JoinAssociative, SMTT(30)
      <4>6. f[n + i] = u \o h[i] /\ h[i] \in Seq(S)
        BY <3>3, <4>2, <4>3, <4>4, <4>5
      <4> QED
        BY <3>2, <4>6
    <3> QED
      BY <3>4, <3>5
  <2>16. f[n + m] = u \o h[m]
    <3> HIDE DEF V
    <3>1. \A i \in 0..m : i \in V
      BY <2>1, <2>14, <2>15, Induction
    <3>2. m \in 0..m /\ m # 0
      BY <2>1
    <3>3. m \in V
      BY <3>1, <3>2
    <3> QED
      BY <3>2, <3>3 DEF V
  <2> QED
    BY <2>3, <2>6, <2>8, <2>13, <2>16
<1> QED
  BY <1>2, <1>3, <1>4

(***************************************************************************)
(* One sequence joins to itself.                                           *)
(***************************************************************************)
LEMMA FlattenOne == ASSUME NEW r PROVE FlattenSeq(<<r>>) = r
<1>1. PICK seqs : seqs = <<r>> /\ seqs \in Seq({r}) /\ Len(seqs) = 1 /\ seqs # <<>> /\ seqs[1] = r
  <2>1. PICK v : v = <<r>>
    OBVIOUS
  <2>2. v \in Seq({r}) /\ Len(v) = 1 /\ v[1] = r
    BY <2>1
  <2>3. v # <<>>
    BY <2>2
  <2> QED
    BY <2>1, <2>2, <2>3
<1>2. PICK f : JoinsFirst(f, seqs) /\ FlattenSeq(seqs) = f[Len(seqs)]
  <2>1. PICK U : seqs \in Seq(U)
    BY <1>1
  <2> QED
    BY <1>1, <2>1, FlattenIsJoin
<1>3. f = [i \in 1..1 |-> IF i = 1 THEN seqs[i] ELSE f[i - 1] \o seqs[i]]
  BY <1>1, <1>2 DEF JoinsFirst
<1>4. f[1] = seqs[1]
  BY <1>3
<1> QED
  BY <1>1, <1>2, <1>4

(***************************************************************************)
(* Empty sequences join to the empty one.                                  *)
(***************************************************************************)
LEMMA FlattenEmpty ==
  ASSUME NEW S, NEW seqs \in Seq(Seq(S)), \A i \in 1..Len(seqs) : seqs[i] = <<>>
  PROVE  FlattenSeq(seqs) = <<>>
<1>1. CASE seqs = <<>>
  BY <1>1 DEF FlattenSeq
<1>2. CASE seqs # <<>>
  <2>1. PICK n : n = Len(seqs) /\ n \in Nat /\ n >= 1
    <3>1. Len(seqs) \in Nat /\ Len(seqs) >= 1
      BY <1>2
    <3> QED
      BY <3>1
  <2>2. PICK f : FlattenSeq(seqs) = f[n] /\ f[1] = seqs[1] /\ \A i \in 2..n : f[i] = f[i - 1] \o seqs[i]
    <3>1. \E f : FlattenSeq(seqs) = f[Len(seqs)] /\ f[1] = seqs[1] /\ \A i \in 2..Len(seqs) : f[i] = f[i - 1] \o seqs[i]
      BY <1>2, FlattenSteps
    <3> QED
      BY <2>1, <3>1
  <2> DEFINE T == {i \in 0..n : i = 0 \/ f[i] = <<>>}
  <2>3. 0 \in T
    BY <2>1
  <2>4. ASSUME NEW i \in 1..n, i - 1 \in T PROVE i \in T
    <3>1. seqs[i] = <<>> /\ i \in 0..n
      BY <2>1
    <3>2. CASE i = 1
      BY <2>2, <3>1, <3>2
    <3>3. CASE i # 1
      <4>1. i \in 2..n /\ i - 1 # 0
        BY <2>1, <3>3
      <4>2. f[i] = f[i - 1] \o seqs[i] /\ f[i - 1] = <<>>
        BY <2>2, <2>4, <4>1
      <4>3. <<>> \o <<>> = <<>>
        OBVIOUS
      <4> QED
        BY <3>1, <4>2, <4>3
    <3> QED
      BY <3>2, <3>3
  <2> HIDE DEF T
  <2>5. \A i \in 0..n : i \in T
    BY <2>1, <2>3, <2>4, Induction
  <2>6. n \in 0..n /\ n # 0
    BY <2>1
  <2>7. n \in T
    BY <2>5, <2>6
  <2> QED
    BY <2>2, <2>6, <2>7 DEF T
<1> QED
  BY <1>1, <1>2

=============================================================================
