-------------------------- MODULE Positions_proofs --------------------------
(***************************************************************************)
(* What the elements at some positions of a sequence are, for sequences of *)
(* any length; what short sequences make, put together; and what holds up  *)
(* to a number because each one hands it to the next.                      *)
(***************************************************************************)
EXTENDS Positions, FiniteSetTheorems, FunctionTheorems, SequenceTheorems, WellFoundedInduction, TLAPS

(* Sets of positions are finite.                                           *)
LEMMA SubsetOfInterval ==
  ASSUME NEW m \in Nat, NEW I \in SUBSET (1 .. m)
  PROVE  IsFiniteSet(I) /\ Cardinality(I) \in Nat /\ Cardinality(I) <= m
<1>1. IsFiniteSet(1 .. m) /\ Cardinality(1 .. m) = m
  <2>1. 1 \in Int /\ m \in Int /\ m - 1 + 1 = m /\ (1 > m => m = 0)
    OBVIOUS
  <2> QED
    BY <2>1, FS_Interval
<1>2. IsFiniteSet(I) /\ Cardinality(I) <= Cardinality(1 .. m)
  BY <1>1, FS_Subset, Zenon
<1> QED
  BY <1>1, <1>2, FS_CardinalityType

(* Ranks grow with the members of the set.                                 *)
LEMMA RankGrows ==
  ASSUME NEW m \in Nat, NEW I \in SUBSET (1 .. m), NEW i \in I, NEW j \in I, i < j
  PROVE  Rank(I, i) < Rank(I, j)
<1> DEFINE A == {k \in I : k <= i}
           B == {k \in I : k <= j}
<1>1. IsFiniteSet(I)
  BY SubsetOfInterval
<1>2. IsFiniteSet(B) /\ A \in SUBSET B /\ j \in B /\ j \notin A
  <2>1. B \in SUBSET I
    OBVIOUS
  <2>2. IsFiniteSet(B)
    BY <1>1, <2>1, FS_Subset, Zenon
  <2>3. i \in Nat /\ j \in Nat /\ I \subseteq Nat
    OBVIOUS
  <2>4. A \in SUBSET B
    <3>1. \A k \in I : k <= i => k <= j
      BY <2>3
    <3> QED
      BY <3>1
  <2>5. j \in B /\ j \notin A
    BY <2>3
  <2> QED
    BY <2>2, <2>4, <2>5
<1>3. IsFiniteSet(A) /\ Cardinality(A) <= Cardinality(B) /\ Cardinality(A) # Cardinality(B)
  <2> HIDE DEF A, B
  <2> QED
    BY <1>2, FS_Subset
<1>4. Cardinality(A) \in Nat /\ Cardinality(B) \in Nat
  BY <1>2, <1>3, FS_CardinalityType
<1> QED
  BY <1>3, <1>4 DEF Rank

(* There is one position of every rank up to the number of positions.      *)
LEMMA NthPosition ==
  ASSUME NEW m \in Nat, NEW I \in SUBSET (1 .. m)
  PROVE  /\ IsFiniteSet(I) /\ Cardinality(I) \in 0 .. m
         /\ \A n \in 1 .. Cardinality(I) : Nth(I, n) \in I /\ Rank(I, Nth(I, n)) = n
         /\ \A i \in I : \E n \in 1 .. Cardinality(I) : Nth(I, n) = i
<1> DEFINE c == Cardinality(I)
           f == [i \in I |-> Rank(I, i)]
<1>1. IsFiniteSet(I) /\ c \in Nat /\ c <= m
  BY SubsetOfInterval
<1>2. ASSUME NEW i \in I
      PROVE  Rank(I, i) \in 1 .. c
  <2> DEFINE A == {k \in I : k <= i}
  <2>1. A \in SUBSET I /\ i \in A
    OBVIOUS
  <2>2. IsFiniteSet(A) /\ Cardinality(A) <= c /\ Cardinality(A) \in Nat
    BY <1>1, <2>1, FS_Subset, FS_CardinalityType
  <2>3. Cardinality(A) # 0
    BY <2>1, <2>2, FS_EmptySet
  <2> QED
    BY <1>1, <2>2, <2>3 DEF Rank
<1>3. \A i, j \in I : Rank(I, i) = Rank(I, j) => i = j
  <2> SUFFICES ASSUME NEW i \in I, NEW j \in I, i # j
               PROVE  Rank(I, i) # Rank(I, j)
    OBVIOUS
  <2>1. (i < j => Rank(I, i) < Rank(I, j)) /\ (j < i => Rank(I, j) < Rank(I, i))
    BY RankGrows
  <2>2. Rank(I, i) \in Nat /\ Rank(I, j) \in Nat /\ (i < j \/ j < i)
    BY <1>1, <1>2
  <2> QED
    BY <2>1, <2>2
<1>4. f \in Injection(I, 1 .. c)
  BY <1>2, <1>3 DEF Injection, IsInjective
<1>5. IsFiniteSet(1 .. c) /\ Cardinality(1 .. c) = c
  BY <1>1, FS_Interval
<1>6. f \in Surjection(I, 1 .. c)
  <2> HIDE DEF f, c
  <2>1. Cardinality(I) = Cardinality(1 .. c)
    BY <1>5 DEF c
  <2> QED
    BY <1>4, <1>5, <2>1, FS_Injection
<1>7. \A n \in 1 .. c : \E i \in I : Rank(I, i) = n
  BY <1>6 DEF Surjection
<1>8. \A n \in 1 .. c : Nth(I, n) \in I /\ Rank(I, Nth(I, n)) = n
  BY <1>7 DEF Nth
<1>9. \A i \in I : Nth(I, Rank(I, i)) = i
  BY <1>2, <1>3, <1>8
<1> QED
  BY <1>1, <1>2, <1>8, <1>9

(* The elements are those at the positions, one for each of them and in    *)
(* their order.                                                            *)
THEOREM ElementsOfPositions ==
  ASSUME NEW S, NEW s \in Seq(S), NEW I \in SUBSET DOMAIN s
  PROVE  LET q == ElementsAt(s, I) IN
         /\ q \in Seq(S) /\ Len(q) = Cardinality(I) /\ Len(q) <= Len(s)
         /\ \A n \in DOMAIN q : Nth(I, n) \in I /\ q[n] = s[Nth(I, n)]
         /\ \A i \in I : \E n \in DOMAIN q : Nth(I, n) = i
         /\ \A n, k \in DOMAIN q : Nth(I, n) < Nth(I, k) <=> n < k
<1> DEFINE q == ElementsAt(s, I)
<1>1. Len(s) \in Nat /\ DOMAIN s = 1 .. Len(s) /\ I \in SUBSET (1 .. Len(s))
  BY LenProperties
<1>2. /\ IsFiniteSet(I) /\ Cardinality(I) \in Nat /\ Cardinality(I) <= Len(s)
      /\ \A n \in 1 .. Cardinality(I) : Nth(I, n) \in I /\ Rank(I, Nth(I, n)) = n
      /\ \A i \in I : \E n \in 1 .. Cardinality(I) : Nth(I, n) = i
  BY <1>1, NthPosition
<1>3. \A n \in 1 .. Cardinality(I) : s[Nth(I, n)] \in S
  BY <1>1, <1>2, ElementOfSeq
<1>4. q \in Seq(S) /\ Len(q) = Cardinality(I) /\ DOMAIN q = 1 .. Cardinality(I)
  BY <1>2, <1>3 DEF ElementsAt
<1>5. \A n \in DOMAIN q : q[n] = s[Nth(I, n)]
  BY <1>4 DEF ElementsAt
<1>6. ASSUME NEW n \in DOMAIN q, NEW k \in DOMAIN q
      PROVE  Nth(I, n) < Nth(I, k) <=> n < k
  <2> DEFINE x == Nth(I, n)
             y == Nth(I, k)
  <2>1. x \in I /\ y \in I /\ Rank(I, x) = n /\ Rank(I, y) = k /\ n \in Nat /\ k \in Nat
    BY <1>2, <1>4
  <2> HIDE DEF x, y
  <2>2. (x < y => n < k) /\ (y < x => k < n) /\ (x = y => n = k)
    BY <1>1, <2>1, RankGrows
  <2>3. x < y \/ y < x \/ x = y
    BY <1>1, <2>1
  <2> QED
    BY <1>1, <2>1, <2>2, <2>3 DEF x, y
<1> QED
  BY <1>2, <1>4, <1>5, <1>6

(* What short sequences make, put together.                                *)
LEMMA Tuples ==
  ASSUME NEW a, NEW b, NEW c
  PROVE  <<a>> \o <<>> = <<a>> /\ <<a>> \o <<b>> = <<a, b>> /\ <<a, b>> \o <<c>> = <<a, b, c>>
<1> DEFINE S == {a, b, c}
<1>1. <<>> \in Seq(S) /\ <<a>> \in Seq(S) /\ <<b>> \in Seq(S) /\ <<c>> \in Seq(S) /\ <<a, b>> \in Seq(S)
  OBVIOUS
<1>2. <<a>> \o <<>> = <<a>>
  BY <1>1, ConcatEmptySeq
<1>3. <<a>> \o <<b>> = <<a, b>>
  <2>1. /\ <<a>> \o <<b>> \in Seq(S) /\ Len(<<a>> \o <<b>>) = 2
        /\ (<<a>> \o <<b>>)[1] = a /\ (<<a>> \o <<b>>)[2] = b
    BY <1>1, ConcatProperties
  <2>2. Len(<<a, b>>) = 2 /\ <<a, b>>[1] = a /\ <<a, b>>[2] = b
    OBVIOUS
  <2>3. \A i \in 1 .. 2 : (<<a>> \o <<b>>)[i] = <<a, b>>[i]
    BY <2>1, <2>2
  <2> HIDE DEF S
  <2> QED
    BY <1>1, <2>1, <2>2, <2>3, SeqEqual
<1>4. <<a, b>> \o <<c>> = <<a, b, c>>
  <2>1. /\ <<a, b>> \o <<c>> \in Seq(S) /\ Len(<<a, b>> \o <<c>>) = 3
        /\ (<<a, b>> \o <<c>>)[1] = a /\ (<<a, b>> \o <<c>>)[2] = b /\ (<<a, b>> \o <<c>>)[3] = c
    BY <1>1, ConcatProperties
  <2>2. Len(<<a, b, c>>) = 3 /\ <<a, b, c>>[1] = a /\ <<a, b, c>>[2] = b /\ <<a, b, c>>[3] = c
    OBVIOUS
  <2>3. \A i \in 1 .. 3 : (<<a, b>> \o <<c>>)[i] = <<a, b, c>>[i]
    BY <2>1, <2>2
  <2>4. <<a, b, c>> \in Seq(S)
    OBVIOUS
  <2> HIDE DEF S
  <2> QED
    BY <2>1, <2>2, <2>3, <2>4, SeqEqual
<1> QED
  BY <1>2, <1>3, <1>4
-----------------------------------------------------------------------------
(* Numbers up to a bound *)

(* A set of numbers that is not empty has a least one.                     *)
LEMMA LeastNumber ==
  ASSUME NEW T \in SUBSET Nat, T # {}
  PROVE  \E x \in T : \A y \in T : x <= y
<1> DEFINE R == OpToRel(<, Nat)
<1>1. IsWellFoundedOn(R, Nat)
  BY NatLessThanWellFounded, Zenon
<1>2. \E x \in T : \A y \in T : ~ (<<y, x>> \in R)
  <2> HIDE DEF R
  <2> QED
    BY <1>1, WFMin, Zenon
<1>3. \A x, y \in Nat : <<y, x>> \in R <=> y < x
  BY DEF OpToRel
<1>4. PICK x \in T : \A y \in T : ~ (<<y, x>> \in R)
  BY <1>2
<1>5. \A y \in T : ~(y < x)
  BY <1>3, <1>4, Zenon
<1>6. x \in Nat /\ \A y \in T : y \in Nat
  OBVIOUS
<1> QED
  BY <1>5, <1>6

(* What holds of 0 and goes from each number to the next holds up to m.    *)
LEMMA UpTo ==
  ASSUME NEW m \in Nat, NEW T \in SUBSET (0 .. m),
         0 \in T, \A n \in 1 .. m : n - 1 \in T => n \in T
  PROVE  T = 0 .. m
<1> DEFINE U == (0 .. m) \ T
<1>1. SUFFICES ASSUME U # {}
               PROVE  FALSE
  OBVIOUS
<1>2. PICK k \in U : \A y \in U : k <= y
  <2>1. U \in SUBSET Nat
    OBVIOUS
  <2> HIDE DEF U
  <2> QED
    BY <1>1, <2>1, LeastNumber
<1>3. k # 0 /\ k \in 1 .. m /\ k - 1 \in 0 .. m
  BY <1>2
<1>4. k - 1 \in T
  BY <1>2, <1>3
<1> QED
  BY <1>2, <1>3, <1>4

(* The same, from a number on.                                             *)
LEMMA Between ==
  ASSUME NEW a \in Nat, NEW m \in Nat, a <= m, NEW T \in SUBSET (a .. m),
         a \in T, \A n \in a + 1 .. m : n - 1 \in T => n \in T
  PROVE  T = a .. m
<1> DEFINE U == {n \in 0 .. m : n < a \/ n \in T}
<1>1. 0 \in U
  OBVIOUS
<1>2. ASSUME NEW n \in 1 .. m, n - 1 \in U
      PROVE  n \in U
  <2>1. n \in 0 .. m /\ n - 1 \in 0 .. m /\ (n - 1 < a => n < a \/ n = a) /\ (n < a \/ n = a \/ n \in a + 1 .. m)
    OBVIOUS
  <2>2. n - 1 < a \/ n - 1 \in T
    BY <1>2
  <2>3. n < a \/ n \in T
    <3>1. CASE n - 1 < a
      BY <2>1, <3>1
    <3>2. CASE n - 1 \in T
      BY <2>1, <3>2
    <3> QED
      BY <2>2, <3>1, <3>2
  <2> QED
    BY <2>1, <2>3
<1>3. U = 0 .. m
  <2>1. U \in SUBSET (0 .. m)
    OBVIOUS
  <2> HIDE DEF U
  <2> QED
    BY <1>1, <1>2, <2>1, UpTo
<1>4. ASSUME NEW n \in a .. m
      PROVE  n \in T
  <2>1. n \in 0 .. m /\ ~(n < a)
    OBVIOUS
  <2>2. n \in U
    BY <1>3, <2>1
  <2> QED
    BY <2>1, <2>2
<1> QED
  BY <1>4

(* A function on 0 .. m can be defined by what it is at 0 and by what each *)
(* of its values makes of the one before.                                  *)
Follows(f, b, g, m) == f[0] = b /\ \A n \in 1 .. m : f[n] = g[<<f[n - 1], n>>]

LEMMA Recursion ==
  ASSUME NEW S, NEW b \in S, NEW m \in Nat, NEW g \in [S \X (1 .. m) -> S]
  PROVE  \E f \in [0 .. m -> S] : Follows(f, b, g, m)
<1> DEFINE Good(k, f) == f[0] = b /\ \A n \in 1 .. k : f[n] = g[<<f[n - 1], n>>]
           T == {k \in 0 .. m : \E f \in [0 .. k -> S] : Good(k, f)}
<1>1. 0 \in T
  <2> DEFINE f == [n \in 0 .. 0 |-> b]
  <2>1. f \in [0 .. 0 -> S] /\ f[0] = b
    OBVIOUS
  <2>2. Good(0, f)
    BY <2>1
  <2>3. 0 \in 0 .. m
    OBVIOUS
  <2> HIDE DEF f, Good
  <2> QED
    BY <2>1, <2>2, <2>3
<1>2. ASSUME NEW k \in 1 .. m, k - 1 \in T
      PROVE  k \in T
  <2>1. PICK f \in [0 .. k - 1 -> S] : Good(k - 1, f)
    BY <1>2
  <2> DEFINE h == [n \in 0 .. k |-> IF n = k THEN g[<<f[k - 1], k>>] ELSE f[n]]
  <2>2. f[k - 1] \in S /\ k \in 1 .. m /\ k - 1 \in 0 .. k - 1
    OBVIOUS
  <2>3. g[<<f[k - 1], k>>] \in S
    BY <2>2
  <2>4. h \in [0 .. k -> S]
    BY <2>3
  <2>5. h[k] = g[<<f[k - 1], k>>] /\ \A n \in 0 .. k - 1 : h[n] = f[n]
    OBVIOUS
  <2>6. 0 \in 0 .. k - 1 /\ k - 1 \in 0 .. k - 1
    OBVIOUS
  <2> HIDE DEF h
  <2>7. h[0] = b
    BY <2>1, <2>5, <2>6
  <2>8. ASSUME NEW n \in 1 .. k
        PROVE  h[n] = g[<<h[n - 1], n>>]
    <3>1. n - 1 \in 0 .. k - 1 /\ (n # k => n \in 1 .. k - 1 /\ n \in 0 .. k - 1)
      OBVIOUS
    <3> QED
      BY <2>1, <2>5, <3>1
  <2>9. Good(k, h)
    BY <2>7, <2>8
  <2>10. k \in 0 .. m
    OBVIOUS
  <2> HIDE DEF Good
  <2> QED
    BY <2>4, <2>9, <2>10
<1>3. T = 0 .. m
  <2>1. T \in SUBSET (0 .. m)
    OBVIOUS
  <2> HIDE DEF T
  <2> QED
    BY <1>1, <1>2, <2>1, UpTo
<1>4. m \in T
  BY <1>3
<1>5. PICK f \in [0 .. m -> S] : Good(m, f)
  BY <1>4
<1> QED
  BY <1>5 DEF Follows

-----------------------------------------------------------------------------
(* Sequences and sets of positions *)

(* A sequence, whatever its elements are.                                  *)
IsSeq(q) == q \in Seq({q[i] : i \in DOMAIN q})

LEMMA SeqAny == \A S : \A q \in Seq(S) : IsSeq(q)
<1> TAKE S
<1> TAKE q \in Seq(S)
<1>1. Len(q) \in Nat /\ DOMAIN q = 1 .. Len(q) /\ q = [i \in 1 .. Len(q) |-> q[i]]
  OBVIOUS
<1> DEFINE R == {q[i] : i \in DOMAIN q}
<1>2. \A i \in 1 .. Len(q) : q[i] \in R
  BY <1>1
<1> HIDE DEF R
<1>3. q \in [1 .. Len(q) -> R]
  BY <1>1, <1>2
<1>4. q \in Seq(R)
  BY <1>1, <1>3
<1> QED
  BY <1>4 DEF IsSeq, R

LEMMA AppendAny ==
  ASSUME NEW q, IsSeq(q), NEW e
  PROVE  LET s == Append(q, e) IN
         /\ IsSeq(s) /\ Len(q) \in Nat /\ DOMAIN q = 1 .. Len(q) /\ Len(s) = Len(q) + 1
         /\ DOMAIN s = DOMAIN q \cup {Len(s)} /\ Len(s) \notin DOMAIN q
         /\ (\A k \in DOMAIN q : s[k] = q[k]) /\ s[Len(s)] = e
<1> DEFINE S == {q[i] : i \in DOMAIN q} \cup {e}
           s == Append(q, e)
<1>1. q \in Seq(S)
  <2>1. q \in Seq({q[i] : i \in DOMAIN q})
    BY DEF IsSeq
  <2>2. Len(q) \in Nat /\ DOMAIN q = 1 .. Len(q) /\ q = [i \in 1 .. Len(q) |-> q[i]]
    BY <2>1
  <2>3. \A i \in 1 .. Len(q) : q[i] \in S
    BY <2>2
  <2> HIDE DEF S
  <2>4. q \in [1 .. Len(q) -> S]
    BY <2>2, <2>3
  <2> QED
    BY <2>2, <2>4
<1>2. e \in S
  OBVIOUS
<1> HIDE DEF S
<1>3. /\ s \in Seq(S) /\ Len(q) \in Nat /\ DOMAIN q = 1 .. Len(q) /\ Len(s) = Len(q) + 1
      /\ DOMAIN s = 1 .. Len(s)
      /\ (\A k \in DOMAIN q : s[k] = q[k]) /\ s[Len(s)] = e
  BY <1>1, <1>2, AppendProperties
<1> HIDE DEF s
<1>4. IsSeq(s)
  <2>1. s = [i \in 1 .. Len(s) |-> s[i]]
    BY <1>3
  <2> DEFINE R == {s[i] : i \in DOMAIN s}
  <2>2. \A i \in 1 .. Len(s) : s[i] \in R
    BY <1>3
  <2> HIDE DEF R
  <2>3. s \in [1 .. Len(s) -> R] /\ Len(s) \in Nat
    BY <1>3, <2>1, <2>2
  <2>4. s \in Seq(R)
    BY <2>3
  <2> QED
    BY <2>4 DEF IsSeq, R
<1>5. DOMAIN s = DOMAIN q \cup {Len(s)} /\ Len(s) \notin DOMAIN q
  BY <1>3
<1> QED
  BY <1>3, <1>4, <1>5 DEF s

(* Two sequences one after the other.                                      *)
LEMMA ConcatAny ==
  ASSUME NEW a, IsSeq(a), NEW b, IsSeq(b)
  PROVE  /\ IsSeq(a \o b) /\ Elems(a \o b) = Elems(a) \cup Elems(b)
         /\ Len(a) \in Nat /\ Len(b) \in Nat /\ DOMAIN a = 1 .. Len(a) /\ DOMAIN b = 1 .. Len(b)
         /\ Len(a \o b) = Len(a) + Len(b) /\ DOMAIN (a \o b) = 1 .. Len(a) + Len(b)
         /\ \A i \in DOMAIN a : (a \o b)[i] = a[i]
         /\ \A i \in DOMAIN b : (a \o b)[Len(a) + i] = b[i]
         /\ \A i \in 1 .. Len(a) + Len(b) : i \in DOMAIN a \/ (i > Len(a) /\ i - Len(a) \in DOMAIN b)
<1> DEFINE S == Elems(a) \cup Elems(b)
           c == a \o b
<1>1. a \in Seq(S) /\ b \in Seq(S)
  <2>1. a \in Seq(Elems(a)) /\ b \in Seq(Elems(b))
    BY DEF IsSeq, Elems
  <2> QED
    BY <2>1
<1> HIDE DEF S
<1>2. /\ c \in Seq(S) /\ Len(a) \in Nat /\ Len(b) \in Nat /\ DOMAIN a = 1 .. Len(a)
      /\ DOMAIN b = 1 .. Len(b) /\ Len(c) = Len(a) + Len(b) /\ DOMAIN c = 1 .. Len(c)
      /\ \A i \in 1 .. Len(a) + Len(b) : c[i] = IF i <= Len(a) THEN a[i] ELSE b[i - Len(a)]
  BY <1>1, ConcatProperties
<1> HIDE DEF c
<1>3. \A i \in DOMAIN a : c[i] = a[i] /\ i \in DOMAIN c
  BY <1>2
<1>4. \A i \in DOMAIN b : c[Len(a) + i] = b[i] /\ Len(a) + i \in DOMAIN c
  <2> TAKE i \in DOMAIN b
  <2>1. i \in Nat /\ Len(a) + i \in 1 .. Len(a) + Len(b) /\ ~(Len(a) + i <= Len(a)) /\ Len(a) + i - Len(a) = i
    BY <1>2
  <2> QED
    BY <1>2, <2>1
<1>5. \A i \in DOMAIN c : i \in DOMAIN a \/ (i > Len(a) /\ i - Len(a) \in DOMAIN b)
  BY <1>2
<1>6. Elems(c) = Elems(a) \cup Elems(b)
  <2>1. ASSUME NEW i \in DOMAIN c
        PROVE  c[i] \in Elems(a) \cup Elems(b)
    <3>1. CASE i \in DOMAIN a
      BY <1>3, <3>1 DEF Elems
    <3>2. CASE i > Len(a) /\ i - Len(a) \in DOMAIN b
      <4>1. Len(a) + (i - Len(a)) = i
        BY <1>2
      <4> QED
        BY <1>4, <3>2, <4>1 DEF Elems
    <3> QED
      BY <1>5, <3>1, <3>2
  <2>2. \A i \in DOMAIN a : a[i] \in Elems(c)
    BY <1>3 DEF Elems
  <2>3. \A i \in DOMAIN b : b[i] \in Elems(c)
    BY <1>4 DEF Elems
  <2> QED
    BY <2>1, <2>2, <2>3 DEF Elems
<1>7. IsSeq(c)
  <2>1. c = [i \in 1 .. Len(c) |-> c[i]] /\ Len(c) \in Nat
    BY <1>2
  <2>2. \A i \in 1 .. Len(c) : c[i] \in Elems(c)
    BY <1>2 DEF Elems
  <2> HIDE DEF c
  <2>3. c \in [1 .. Len(c) -> Elems(c)]
    BY <2>1, <2>2
  <2>4. \A R : c \in [1 .. Len(c) -> R] => c \in Seq(R)
    BY <2>1
  <2>5. c \in Seq(Elems(c))
    BY <2>3, <2>4
  <2> QED
    BY <2>5 DEF IsSeq, Elems
<1> QED
  BY <1>2, <1>3, <1>4, <1>5, <1>6, <1>7 DEF c

(* What is left of a sequence without its first element.                   *)
LEMMA TailAny ==
  ASSUME NEW q, IsSeq(q), q # <<>>
  PROVE  /\ IsSeq(Tail(q)) /\ Len(q) \in Nat \ {0} /\ DOMAIN q = 1 .. Len(q)
         /\ Head(q) = q[1] /\ 1 \in DOMAIN q
         /\ Len(Tail(q)) = Len(q) - 1 /\ DOMAIN Tail(q) = 1 .. Len(q) - 1
         /\ \A i \in DOMAIN Tail(q) : Tail(q)[i] = q[i + 1] /\ i + 1 \in DOMAIN q
<1> DEFINE S == Elems(q)
           t == Tail(q)
<1>1. q \in Seq(S)
  BY DEF IsSeq, Elems
<1> HIDE DEF S
<1>2. /\ t \in Seq(S) /\ Len(t) = Len(q) - 1 /\ \A i \in 1 .. Len(t) : t[i] = q[i + 1]
  BY <1>1, HeadTailProperties
<1>3. Len(q) \in Nat \ {0} /\ DOMAIN q = 1 .. Len(q) /\ Head(q) = q[1] /\ DOMAIN t = 1 .. Len(t)
  BY <1>1, <1>2
<1> HIDE DEF t
<1>4. DOMAIN t = 1 .. Len(q) - 1 /\ \A i \in DOMAIN t : t[i] = q[i + 1] /\ i + 1 \in DOMAIN q
  BY <1>2, <1>3
<1>5. IsSeq(t)
  <2>1. t = [i \in 1 .. Len(t) |-> t[i]] /\ Len(t) \in Nat
    BY <1>2, <1>3
  <2>2. \A i \in 1 .. Len(t) : t[i] \in Elems(t)
    BY <1>3 DEF Elems
  <2>3. t \in [1 .. Len(t) -> Elems(t)]
    BY <2>1, <2>2
  <2> QED
    BY <2>1, <2>3 DEF IsSeq, Elems
<1> QED
  BY <1>2, <1>3, <1>4, <1>5 DEF t

(* A set of positions has a last one.                                      *)
LEMMA LastPosition ==
  ASSUME NEW m \in Nat, NEW I \in SUBSET (1 .. m), I # {}
  PROVE  \E i \in I : \A j \in I : j <= i
<1> DEFINE c == Cardinality(I)
           i == Nth(I, c)
<1>1. /\ c \in Nat /\ \A n \in 1 .. c : Nth(I, n) \in I /\ Rank(I, Nth(I, n)) = n
      /\ \A j \in I : \E n \in 1 .. c : Nth(I, n) = j
  BY NthPosition
<1>2. c \in 1 .. c
  <2>1. \E n : n \in 1 .. c
    BY <1>1
  <2> QED
    BY <1>1, <2>1
<1>3. i \in I /\ Rank(I, i) = c
  BY <1>1, <1>2
<1>4. \A j \in I : Rank(I, j) \in Nat /\ Rank(I, j) <= c
  BY <1>1
<1> HIDE DEF i, c
<1>5. ASSUME NEW j \in I
      PROVE  j <= i
  <2>1. i < j => Rank(I, i) < Rank(I, j)
    BY <1>3, RankGrows
  <2> QED
    BY <1>3, <1>4, <2>1
<1> QED
  BY <1>3, <1>5
=============================================================================
