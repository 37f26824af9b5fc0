------------------------ MODULE HarnessTrees_proofs -------------------------
(***************************************************************************)
(* Proofs about the graph of events of which spans are made and about its  *)
(* diagnostics, about the tree of a Claude Code turn that is read from     *)
(* files, and about what the commands of the setup leave behind.           *)
(***************************************************************************)
EXTENDS Harnesses, Positions_proofs

-----------------------------------------------------------------------------
(* The event graph: cycles of parents                                      *)

LEMMA GrCardinality == \A S : Gr!Cardinality(S) = Cardinality(S)
  BY DEF Gr!Cardinality, Cardinality

(* What the way up is, when parents are given by a function p on some of   *)
(* the ids.                                                                *)
GrUp(up, p, id, N) ==
  /\ up[0] = id
  /\ \A n \in 1 .. N : up[n] = IF up[n - 1] \in DOMAIN p THEN p[up[n - 1]] ELSE None

LEMMA GrWay ==
  ASSUME NEW S, NEW D \in SUBSET S, NEW p \in [D -> S], IsFiniteSet(D), NEW id \in S
  PROVE  LET N == Cardinality(D) IN
         /\ N \in Nat
         /\ Gr!WayUp(p, id) \in [0 .. N -> S \cup {None}]
         /\ GrUp(Gr!WayUp(p, id), p, id, N)
<1> DEFINE N == Cardinality(D)
           R == S \cup {None}
           up == Gr!WayUp(p, id)
           next(x) == IF x \in DOMAIN p THEN p[x] ELSE None
           g == [q \in R \X (1 .. N) |-> next(q[1])]
<1>1. N \in Nat /\ DOMAIN p = D /\ id \in R
  BY FS_CardinalityType
<1>2. \A x \in R : next(x) \in R
  OBVIOUS
<1> HIDE DEF N
<1>3. /\ g \in [R \X (1 .. N) -> R]
      /\ \A x \in R : \A n \in 1 .. N : g[<<x, n>>] = next(x)
  BY <1>2
<1> HIDE DEF g, R
<1>4. PICK f \in [0 .. N -> R] : Follows(f, id, g, N)
  BY <1>1, <1>3, Recursion
<1>5. f = [n \in 0 .. N |-> IF n = 0 THEN id ELSE IF f[n - 1] \in DOMAIN p THEN p[f[n - 1]] ELSE None]
  <2>1. ASSUME NEW n \in 0 .. N
        PROVE  f[n] = IF n = 0 THEN id ELSE IF f[n - 1] \in DOMAIN p THEN p[f[n - 1]] ELSE None
    <3>1. n # 0 => n \in 1 .. N /\ n - 1 \in 0 .. N
      BY <1>1
    <3> QED
      BY <1>3, <1>4, <3>1 DEF Follows
  <2>2. f = [n \in 0 .. N |-> f[n]]
    OBVIOUS
  <2> QED
    BY <2>1, <2>2
<1>6. up = [n \in 0 .. N |-> IF n = 0 THEN id ELSE IF up[n - 1] \in DOMAIN p THEN p[up[n - 1]] ELSE None]
  <2>1. Gr!Cardinality(DOMAIN p) = N
    BY <1>1, GrCardinality DEF N
  <2> QED
    BY <1>5, <2>1 DEF Gr!WayUp
<1> HIDE DEF up
<1>7. up[0] = id
  <2>1. 0 \in 0 .. N
    BY <1>1
  <2> QED
    BY <1>6, <2>1
<1>8. ASSUME NEW n \in 1 .. N
      PROVE  up[n] = IF up[n - 1] \in DOMAIN p THEN p[up[n - 1]] ELSE None
  <2>1. n \in 0 .. N /\ n # 0
    BY <1>1
  <2> QED
    BY <1>6, <2>1
<1>9. \A n \in 0 .. N : up[n] \in R
  <2> DEFINE T == {n \in 0 .. N : up[n] \in R}
  <2>1. 0 \in T
    <3>1. 0 \in 0 .. N
      BY <1>1
    <3> QED
      BY <1>1, <1>7, <3>1
  <2>2. ASSUME NEW n \in 1 .. N, n - 1 \in T
        PROVE  n \in T
    <3>1. n \in 0 .. N
      BY <1>1
    <3>2. up[n] = next(up[n - 1]) /\ up[n - 1] \in R
      BY <1>8, <2>2
    <3> QED
      BY <1>2, <3>1, <3>2
  <2>3. T \in SUBSET (0 .. N)
    OBVIOUS
  <2> HIDE DEF T
  <2>4. T = 0 .. N
    BY <1>1, <2>1, <2>2, <2>3, UpTo
  <2> QED
    BY <2>4 DEF T
<1>10. up \in [0 .. N -> R]
  <2>1. up = [n \in 0 .. N |-> up[n]]
    BY <1>6
  <2> QED
    BY <1>9, <2>1
<1>11. GrUp(up, p, id, N)
  BY <1>7, <1>8 DEF GrUp
<1> QED
  BY <1>1, <1>10, <1>11 DEF up, R, N

(* Sets of ids that one cannot leave upwards, and the least of them.       *)
GrClosed(p, C) == C # {} /\ C \subseteq DOMAIN p /\ \A x \in C : p[x] \in C
GrLoop(p, C) == GrClosed(p, C) /\ \A Y \in SUBSET C : GrClosed(p, Y) => Y = C

(* From an id that comes again on, the way goes round a loop.              *)
LEMMA GrRound ==
  ASSUME NEW p, NEW N \in Nat, NEW up, NEW id, GrUp(up, p, id, N), None \notin DOMAIN p,
         NEW a \in 0 .. N, NEW b \in a + 1 .. N, up[a] = up[b], up[a] # None
  PROVE  GrLoop(p, {up[i] : i \in a .. N})
<1> DEFINE K == {up[i] : i \in a .. b - 1}
           C == {up[i] : i \in a .. N}
<1>1. /\ a \in Nat /\ b \in Nat /\ a < b /\ b <= N /\ a .. b - 1 \subseteq a .. N
      /\ \A n \in a + 1 .. N : n \in 1 .. N /\ n - 1 \in a .. N
      /\ \A j \in a .. b - 1 : j \in Nat /\ j + 1 \in 1 .. N /\ j + 1 \in a .. b /\ (j + 1) - 1 = j /\ a <= j /\ j < b
  OBVIOUS
<1>2. \A n \in 1 .. N : up[n] = IF up[n - 1] \in DOMAIN p THEN p[up[n - 1]] ELSE None
  BY DEF GrUp
<1>3. ASSUME NEW j \in a .. b - 1
      PROVE  up[j] \in DOMAIN p /\ up[j + 1] = p[up[j]] /\ up[j + 1] \in K
  <2>1. j \in Nat /\ j + 1 \in 1 .. N /\ (j + 1) - 1 = j /\ a <= j /\ j < b
    BY <1>1
  <2>2. up[j + 1] = IF up[j] \in DOMAIN p THEN p[up[j]] ELSE None
    BY <1>2, <2>1
  <2>3. up[j] \in DOMAIN p
    <3>1. SUFFICES ASSUME up[j] \notin DOMAIN p
                   PROVE  FALSE
      OBVIOUS
    <3> DEFINE T == {n \in j + 1 .. b : up[n] = None}
    <3>2. j + 1 \in T
      BY <1>1, <2>1, <2>2, <3>1
    <3>3. ASSUME NEW n \in (j + 1) + 1 .. b, n - 1 \in T
          PROVE  n \in T
      <4>1. n \in 1 .. N /\ n \in j + 1 .. b
        BY <1>1, <2>1
      <4>2. up[n - 1] \notin DOMAIN p
        BY <3>3
      <4> QED
        BY <1>2, <4>1, <4>2
    <3>4. T = j + 1 .. b
      <4>1. T \in SUBSET (j + 1 .. b) /\ j + 1 <= b /\ j + 1 \in Nat
        BY <1>1, <2>1
      <4> DEFINE c == j + 1
      <4>2. c \in Nat /\ c <= b /\ c \in T /\ T \in SUBSET (c .. b) /\ \A n \in c + 1 .. b : n - 1 \in T => n \in T
        BY <3>2, <3>3, <4>1
      <4> HIDE DEF T, c
      <4>3. T = c .. b
        BY <1>1, <4>2, Between
      <4> QED
        BY <4>3 DEF c
    <3>5. b \in T
      <4>1. b \in j + 1 .. b
        BY <1>1, <2>1
      <4> HIDE DEF T
      <4> QED
        BY <3>4, <4>1
    <3> QED
      BY <3>5
  <2>4. up[j + 1] \in K
    <3>1. CASE j + 1 = b
      <4>1. a \in a .. b - 1
        BY <1>1
      <4> QED
        BY <3>1, <4>1
    <3>2. CASE j + 1 # b
      <4>1. j + 1 \in a .. b - 1
        BY <1>1, <2>1, <3>2
      <4> QED
        BY <4>1
    <3> QED
      BY <3>1, <3>2
  <2> QED
    BY <2>2, <2>3, <2>4
<1>4. GrClosed(p, K)
  <2>1. up[a] \in K
    <3>1. a \in a .. b - 1
      BY <1>1
    <3> QED
      BY <3>1
  <2>2. \A x \in K : x \in DOMAIN p /\ p[x] \in K
    <3>1. ASSUME NEW j \in a .. b - 1
          PROVE  up[j] \in DOMAIN p /\ p[up[j]] \in K
      <4> HIDE DEF K
      <4> QED
        BY <1>3
    <3> HIDE DEF C
    <3> QED
      BY <3>1
  <2> HIDE DEF K
  <2> QED
    BY <2>1, <2>2 DEF GrClosed
<1>5. C = K
  <2> DEFINE T == {n \in a .. N : up[n] \in K}
  <2>1. a \in T
    <3>1. a \in a .. b - 1 /\ a \in a .. N
      BY <1>1
    <3> QED
      BY <3>1
  <2>2. ASSUME NEW n \in a + 1 .. N, n - 1 \in T
        PROVE  n \in T
    <3>1. n \in 1 .. N /\ n \in a .. N /\ up[n - 1] \in K
      BY <1>1, <2>2
    <3> HIDE DEF K
    <3>2. up[n - 1] \in DOMAIN p /\ p[up[n - 1]] \in K
      BY <1>4, <3>1 DEF GrClosed
    <3>3. up[n] = p[up[n - 1]]
      BY <1>2, <3>1, <3>2
    <3> QED
      BY <3>1, <3>2, <3>3
  <2>3. T \in SUBSET (a .. N) /\ a <= N
    BY <1>1
  <2>4. T = a .. N
    <3> HIDE DEF T
    <3> QED
      BY <1>1, <2>1, <2>2, <2>3, Between
  <2>5. \A n \in a .. N : up[n] \in K
    <3> HIDE DEF K
    <3> QED
      BY <2>4
  <2>6. \A x \in C : x \in K
    <3> HIDE DEF K
    <3> QED
      BY <2>5
  <2>7. \A x \in K : x \in C
    BY <1>1
  <2> QED
    BY <2>6, <2>7
<1>6. ASSUME NEW Y \in SUBSET K, GrClosed(p, Y)
      PROVE  Y = K
  <2>1. PICK j \in a .. b - 1 : up[j] \in Y
    BY <1>6 DEF GrClosed
  <2>2. ASSUME NEW c \in a .. b - 1, up[c] \in Y
        PROVE  \A n \in c .. b : up[n] \in Y
    <3> DEFINE T == {n \in c .. b : up[n] \in Y}
    <3> HIDE DEF K
    <3>1. c \in Nat /\ c <= b /\ c \in T /\ T \in SUBSET (c .. b)
      BY <1>1, <2>2
    <3>2. ASSUME NEW n \in c + 1 .. b, n - 1 \in T
          PROVE  n \in T
      <4>1. n - 1 \in a .. b - 1 /\ (n - 1) + 1 = n /\ n \in c .. b
        BY <1>1, <3>1
      <4>2. up[n - 1] \in Y
        BY <3>2
      <4>3. up[n] = p[up[n - 1]]
        BY <1>3, <4>1
      <4>4. up[n] \in Y
        BY <1>6, <4>2, <4>3 DEF GrClosed
      <4> QED
        BY <4>1, <4>4
    <3>3. T = c .. b
      <4> HIDE DEF T
      <4> QED
        BY <1>1, <3>1, <3>2, Between
    <3> HIDE DEF T
    <3>4. \A n \in c .. b : n \in T
      BY <3>3
    <3> QED
      BY <3>4 DEF T
  <2>3. up[b] \in Y
    <3>1. b \in j .. b
      BY <1>1
    <3> QED
      BY <2>1, <2>2, <3>1
  <2>4. \A n \in a .. b : up[n] \in Y
    <3>1. a \in a .. b - 1 /\ up[a] \in Y
      BY <1>1, <2>3
    <3> QED
      BY <2>2, <3>1
  <2>5. \A n \in a .. b - 1 : up[n] \in Y
    <3>1. \A n \in a .. b - 1 : n \in a .. b
      BY <1>1
    <3> QED
      BY <2>4, <3>1
  <2>6. \A x \in K : x \in Y
    BY <2>5
  <2> QED
    BY <1>6, <2>6
<1>7. GrLoop(p, K)
  <2> HIDE DEF K
  <2> QED
    BY <1>4, <1>6 DEF GrLoop
<1> QED
  BY <1>5, <1>7

LEMMA GrCycle ==
  ASSUME NEW S, NEW D \in SUBSET S, NEW p \in [D -> S], IsFiniteSet(D), None \notin S, NEW id \in S
  PROVE  /\ Gr!CycleFrom(p, id) = {} \/ GrLoop(p, Gr!CycleFrom(p, id))
         /\ \A C : GrClosed(p, C) /\ id \in C =>
              Gr!CycleFrom(p, id) # {} /\ Gr!CycleFrom(p, id) \subseteq C
<1> DEFINE N == Cardinality(D)
           up == Gr!WayUp(p, id)
           again == {i \in DOMAIN up : up[i] # None /\ \E j \in DOMAIN up : i < j /\ up[i] = up[j]}
           from == {i \in DOMAIN up : \E a \in again : a <= i}
           E == Gr!CycleFrom(p, id)
<1>1. N \in Nat /\ up \in [0 .. N -> S \cup {None}] /\ GrUp(up, p, id, N) /\ DOMAIN p = D
  BY GrWay
<1>2. E = {up[i] : i \in from}
  BY DEF Gr!CycleFrom
<1>3. DOMAIN up = 0 .. N
  BY <1>1
<1> HIDE DEF up, E, N
<1>4. ASSUME again # {}
      PROVE  GrLoop(p, E) /\ E # {}
  <2>1. again \in SUBSET Nat
    BY <1>1, <1>3
  <2>2. PICK a \in again : \A y \in again : a <= y
    <3> HIDE DEF again
    <3> QED
      BY <1>4, <2>1, LeastNumber
  <2>3. a \in 0 .. N /\ up[a] # None
    BY <1>3, <2>2
  <2>4. PICK b \in 0 .. N : a < b /\ up[a] = up[b]
    BY <1>3, <2>2
  <2>5. b \in a + 1 .. N
    BY <1>1, <2>3, <2>4
  <2>6. from = a .. N
    <3>1. \A i \in 0 .. N : a <= i => i \in from
      BY <1>3, <2>2
    <3>2. \A i \in from : i \in 0 .. N /\ a <= i
      <4>1. ASSUME NEW i \in from
            PROVE  i \in 0 .. N /\ a <= i
        <5>1. PICK y \in again : y <= i
          OBVIOUS
        <5>2. i \in 0 .. N /\ y \in Nat /\ a \in Nat
          BY <1>3, <2>1, <2>3
        <5> QED
          BY <2>2, <5>1, <5>2
      <4> QED
        BY <4>1
    <3>3. \A i : i \in a .. N <=> i \in 0 .. N /\ a <= i
      BY <1>1, <2>3
    <3> HIDE DEF from
    <3> QED
      BY <3>1, <3>2, <3>3
  <2>7. GrLoop(p, {up[i] : i \in a .. N})
    <3>1. N \in Nat /\ GrUp(up, p, id, N) /\ None \notin DOMAIN p
      BY <1>1
    <3>2. a \in 0 .. N /\ b \in a + 1 .. N /\ up[a] = up[b] /\ up[a] # None
      BY <2>3, <2>4, <2>5
    <3>3. \A c \in 0 .. N : \A d \in c + 1 .. N :
            up[c] = up[d] /\ up[c] # None => GrLoop(p, {up[i] : i \in c .. N})
      BY <3>1, GrRound
    <3> HIDE DEF again
    <3> QED
      BY <3>2, <3>3
  <2>8. E = {up[i] : i \in a .. N}
    BY <1>2, <2>6
  <2>9. GrLoop(p, E)
    BY <2>7, <2>8
  <2> QED
    BY <2>9 DEF GrLoop, GrClosed
<1>5. ASSUME again = {}
      PROVE  E = {}
  BY <1>2, <1>5
<1>6. ASSUME NEW C, GrClosed(p, C), id \in C
      PROVE  E # {} /\ E \subseteq C
  <2>1. C \subseteq D /\ \A x \in C : p[x] \in C
    BY <1>1, <1>6 DEF GrClosed
  <2>2. \A n \in 0 .. N : up[n] \in C
    <3> DEFINE T == {n \in 0 .. N : up[n] \in C}
    <3>1. 0 \in T
      <4>1. 0 \in 0 .. N
        BY <1>1
      <4>2. up[0] = id
        BY <1>1 DEF GrUp
      <4> QED
        BY <1>6, <4>1, <4>2
    <3>2. ASSUME NEW n \in 1 .. N, n - 1 \in T
          PROVE  n \in T
      <4>1. n \in 0 .. N
        BY <1>1
      <4>2. up[n - 1] \in C /\ up[n - 1] \in DOMAIN p
        BY <1>1, <2>1, <3>2
      <4>3. up[n] = p[up[n - 1]]
        BY <1>1, <4>2 DEF GrUp
      <4> QED
        BY <2>1, <4>1, <4>2, <4>3
    <3>3. T \in SUBSET (0 .. N)
      OBVIOUS
    <3> HIDE DEF T
    <3>4. T = 0 .. N
      BY <1>1, <3>1, <3>2, <3>3, UpTo
    <3> QED
      BY <3>4 DEF T
  <2>3. E \subseteq C
    BY <1>2, <1>3, <2>2
  <2>4. PICK x \in 0 .. N, y \in 0 .. N : x # y /\ up[x] = up[y]
    <3>1. IsFiniteSet(0 .. N) /\ Cardinality(0 .. N) = N + 1
      <4>1. 0 \in Int /\ N \in Int /\ ~(0 > N) /\ N - 0 + 1 = N + 1
        BY <1>1
      <4> QED
        BY <4>1, FS_Interval
    <3>2. Cardinality(D) < Cardinality(0 .. N)
      BY <1>1, <3>1 DEF N
    <3>3. up \in [0 .. N -> D]
      BY <1>1, <2>1, <2>2
    <3> HIDE DEF N
    <3> QED
      BY <3>1, <3>2, <3>3, FS_PigeonHole
  <2>5. again # {}
    <3>1. x \in 0 .. N /\ y \in 0 .. N /\ (x < y \/ y < x) /\ up[x] \in S /\ up[y] \in S
      BY <1>1, <2>1, <2>2, <2>4
    <3>2. up[x] # None /\ up[y] # None
      BY <3>1
    <3>3. CASE x < y
      <4>1. x \in again
        BY <1>3, <2>4, <3>1, <3>2, <3>3
      <4> QED
        BY <4>1
    <3>4. CASE y < x
      <4>1. y \in again
        BY <1>3, <2>4, <3>1, <3>2, <3>4
      <4> QED
        BY <4>1
    <3> QED
      BY <3>1, <3>3, <3>4
  <2> QED
    BY <1>4, <2>3, <2>5
<1> QED
  BY <1>4, <1>5, <1>6 DEF E

-----------------------------------------------------------------------------
(* The event graph: events and their ids                                   *)

GrShape == world.events \in Seq(Gr!Events)
GrParent == Gr!ParentById(world.events)
GrPlaces(C) == {Gr!FirstAt(world.events, id) : id \in C}
GrIds(X) == {world.events[i].id : i \in {j \in X : Gr!IsFirst(world.events, j)}}

LEMMA GrEvents ==
  ASSUME GrShape
  PROVE  /\ Len(world.events) \in Nat /\ DOMAIN world.events = 1 .. Len(world.events)
         /\ \A i \in DOMAIN world.events : world.events[i] \in Gr!Events /\ i \in Nat
         /\ None \notin Gr!IdsOf(world.events)
         /\ \A i \in DOMAIN world.events : world.events[i].id \in Gr!IdsOf(world.events)
         /\ IsFiniteSet(Gr!IdsOf(world.events))
<1> DEFINE ev == world.events
           n == Len(ev)
           f == [i \in 1 .. n |-> ev[i].id]
<1>1. ev \in Seq(Gr!Events)
  BY DEF GrShape
<1> HIDE DEF ev
<1>2. n \in Nat /\ DOMAIN ev = 1 .. n /\ \A i \in 1 .. n : ev[i] \in Gr!Events
  BY <1>1, LenProperties, ElementOfSeq
<1>3. None \notin Names
  BY HarnessesAssumption DEF Gr!EventGraphAssumption
<1>4. Gr!IdsOf(ev) \subseteq Names /\ \A i \in 1 .. n : ev[i].id \in Gr!IdsOf(ev)
  BY <1>2 DEF Gr!IdsOf, Gr!Events
<1>5. IsFiniteSet(Gr!IdsOf(ev))
  <2>1. f \in Surjection(1 .. n, Gr!IdsOf(ev))
    BY <1>2 DEF Surjection, Gr!IdsOf
  <2>2. IsFiniteSet(1 .. n)
    BY <1>2, FS_Interval
  <2> HIDE DEF f
  <2> QED
    BY <2>1, <2>2, FS_Surjection
<1> QED
  BY <1>2, <1>3, <1>4, <1>5 DEF ev

LEMMA GrFirst ==
  ASSUME GrShape, NEW id \in Gr!IdsOf(world.events)
  PROVE  LET i == Gr!FirstAt(world.events, id) IN
         /\ i \in DOMAIN world.events /\ world.events[i].id = id /\ Gr!IsFirst(world.events, i)
         /\ \A j \in DOMAIN world.events : Gr!IsFirst(world.events, j) /\ world.events[j].id = id => j = i
<1> DEFINE ev == world.events
           T == {i \in DOMAIN ev : ev[i].id = id}
           i == Gr!FirstAt(ev, id)
<1>1. Len(ev) \in Nat /\ DOMAIN ev = 1 .. Len(ev)
  BY GrEvents
<1> HIDE DEF ev
<1>2. T # {} /\ T \in SUBSET Nat
  BY <1>1 DEF Gr!IdsOf, ev
<1>3. PICK k \in T : \A j \in T : k <= j
  <2> HIDE DEF T
  <2> QED
    BY <1>2, LeastNumber
<1>4. k \in DOMAIN ev /\ ev[k].id = id /\ Gr!IsFirst(ev, k)
  <2>1. ASSUME NEW j \in 1 .. (k - 1)
        PROVE  ev[j].id # id
    <3>1. j \in DOMAIN ev /\ j < k
      BY <1>1, <1>3
    <3>2. j \notin T
      BY <1>1, <1>3, <3>1
    <3> QED
      BY <3>1, <3>2
  <2> QED
    BY <1>3, <2>1 DEF Gr!IsFirst
<1>5. \A j \in DOMAIN ev : Gr!IsFirst(ev, j) /\ ev[j].id = id => j = k
  <2> SUFFICES ASSUME NEW j \in DOMAIN ev, Gr!IsFirst(ev, j), ev[j].id = id
               PROVE  j = k
    OBVIOUS
  <2>1. k \in Nat /\ j \in Nat /\ 1 <= k /\ 1 <= j /\ k <= j
    BY <1>1, <1>3
  <2>2. k \notin 1 .. (j - 1)
    BY <1>4 DEF Gr!IsFirst
  <2> QED
    BY <2>1, <2>2
<1>6. i \in DOMAIN ev /\ ev[i].id = id /\ Gr!IsFirst(ev, i)
  BY <1>4 DEF Gr!FirstAt
<1>7. i = k
  BY <1>5, <1>6
<1> QED
  BY <1>5, <1>6, <1>7 DEF ev

LEMMA GrParents ==
  ASSUME GrShape
  PROVE  /\ DOMAIN GrParent \in SUBSET Gr!IdsOf(world.events) /\ IsFiniteSet(DOMAIN GrParent)
         /\ GrParent \in [DOMAIN GrParent -> Gr!IdsOf(world.events)]
         /\ \A id \in DOMAIN GrParent :
              GrParent[id] = world.events[Gr!FirstAt(world.events, id)].parent
         /\ \A id \in Gr!IdsOf(world.events) :
              id \in DOMAIN GrParent <=>
                world.events[Gr!FirstAt(world.events, id)].parent \in Gr!IdsOf(world.events)
<1>1. DOMAIN GrParent \in SUBSET Gr!IdsOf(world.events)
  BY DEF GrParent, Gr!ParentById
<1>2. IsFiniteSet(DOMAIN GrParent)
  BY <1>1, GrEvents, FS_Subset
<1> QED
  BY <1>1, <1>2 DEF GrParent, Gr!ParentById

(* The cycles are the loops.                                               *)
LEMMA GrCycles ==
  ASSUME GrShape, NEW C
  PROVE  C \in Gr!Cycles(world.events) <=> GrLoop(GrParent, C)
<1> DEFINE S == Gr!IdsOf(world.events)
           E(id) == Gr!CycleFrom(GrParent, id)
<1>1. /\ DOMAIN GrParent \in SUBSET S /\ IsFiniteSet(DOMAIN GrParent)
      /\ GrParent \in [DOMAIN GrParent -> S] /\ None \notin S
  BY GrParents, GrEvents
<1>2. Gr!Cycles(world.events) = {E(id) : id \in S} \ {{}}
  BY DEF Gr!Cycles, GrParent
<1>3. \A id \in S : /\ E(id) = {} \/ GrLoop(GrParent, E(id))
                    /\ \A K : GrClosed(GrParent, K) /\ id \in K => E(id) # {} /\ E(id) \subseteq K
  <2> HIDE DEF S
  <2> QED
    BY <1>1, GrCycle
<1> HIDE DEF E, S
<1>4. ASSUME GrLoop(GrParent, C)
      PROVE  C \in Gr!Cycles(world.events)
  <2>1. GrClosed(GrParent, C) /\ C # {} /\ C \subseteq DOMAIN GrParent
    BY <1>4 DEF GrLoop, GrClosed
  <2>2. PICK id \in C : id \in S
    BY <1>1, <2>1
  <2>3. E(id) # {} /\ E(id) \subseteq C /\ GrClosed(GrParent, E(id))
    BY <1>3, <2>1, <2>2 DEF GrLoop
  <2>4. E(id) = C
    BY <1>4, <2>3 DEF GrLoop
  <2> QED
    BY <1>2, <2>2, <2>3, <2>4
<1> QED
  BY <1>2, <1>3, <1>4

(* Loops of ids and loops of places.                                       *)
LEMMA GrIdsClosed ==
  ASSUME GrShape, NEW par, \A i \in DOMAIN world.events : par[i] \in {world.events[i].parent, None},
         NEW X \in SUBSET DOMAIN world.events, Gr!Closed(par, X)
  PROVE  GrClosed(GrParent, GrIds(X)) /\ GrPlaces(GrIds(X)) \subseteq X
<1> DEFINE S == Gr!IdsOf(world.events)
<1>1. X # {} /\ \A i \in X : \E j \in X : Gr!IsFirst(world.events, j) /\ par[i] = world.events[j].id
  BY DEF Gr!Closed, Gr!Ev
<1>2. \A j \in X : world.events[j].id \in S /\ None \notin S
  BY GrEvents
<1> HIDE DEF S
<1>3. GrIds(X) # {}
  BY <1>1 DEF GrIds
<1>4. ASSUME NEW id \in GrIds(X)
      PROVE  /\ id \in DOMAIN GrParent /\ GrParent[id] \in GrIds(X)
             /\ Gr!FirstAt(world.events, id) \in X
  <2>1. PICK i \in X : Gr!IsFirst(world.events, i) /\ id = world.events[i].id
    BY DEF GrIds
  <2>2. id \in S /\ i \in DOMAIN world.events
    BY <1>2, <2>1
  <2>3. Gr!FirstAt(world.events, id) = i
    BY <2>1, <2>2, GrFirst DEF S
  <2>4. PICK j \in X : Gr!IsFirst(world.events, j) /\ par[i] = world.events[j].id
    BY <1>1
  <2>5. par[i] = world.events[i].parent
    BY <1>2, <2>2, <2>4
  <2>6. id \in DOMAIN GrParent /\ GrParent[id] = world.events[j].id
    BY <1>2, <2>2, <2>3, <2>4, <2>5, GrParents DEF S
  <2>7. world.events[j].id \in GrIds(X)
    BY <2>4 DEF GrIds
  <2> QED
    BY <2>3, <2>6, <2>7
<1> QED
  BY <1>3, <1>4 DEF GrClosed, GrPlaces

LEMMA GrPlacesClosed ==
  ASSUME GrShape, NEW C, GrClosed(GrParent, C)
  PROVE  /\ GrPlaces(C) \in SUBSET DOMAIN world.events
         /\ Gr!Closed([i \in DOMAIN world.events |-> world.events[i].parent], GrPlaces(C))
<1> DEFINE S == Gr!IdsOf(world.events)
           par == [i \in DOMAIN world.events |-> world.events[i].parent]
           F(id) == Gr!FirstAt(world.events, id)
<1>1. C # {} /\ C \subseteq S /\ \A id \in C : id \in DOMAIN GrParent /\ GrParent[id] \in C
  BY GrParents DEF GrClosed
<1>2. \A id \in C : F(id) \in DOMAIN world.events /\ world.events[F(id)].id = id /\ Gr!IsFirst(world.events, F(id))
  BY <1>1, GrFirst
<1>3. \A id \in C : par[F(id)] = GrParent[id]
  BY <1>1, <1>2, GrParents
<1> HIDE DEF par, F
<1>4. GrPlaces(C) = {F(id) : id \in C}
  BY DEF GrPlaces, F
<1>5. GrPlaces(C) # {} /\ GrPlaces(C) \in SUBSET DOMAIN world.events
  BY <1>1, <1>2, <1>4
<1>6. ASSUME NEW i \in GrPlaces(C)
      PROVE  \E j \in GrPlaces(C) : Gr!IsFirst(world.events, j) /\ par[i] = world.events[j].id
  <2>1. PICK id \in C : i = F(id)
    BY <1>4
  <2>2. GrParent[id] \in C /\ F(GrParent[id]) \in GrPlaces(C)
    BY <1>1, <1>4
  <2> QED
    BY <1>2, <1>3, <2>1, <2>2
<1>7. Gr!Closed(par, GrPlaces(C))
  BY <1>5, <1>6 DEF Gr!Closed, Gr!Ev
<1> QED
  BY <1>5, <1>7 DEF par

LEMMA GrPlacesOfIds ==
  ASSUME GrShape, NEW C \in SUBSET Gr!IdsOf(world.events), NEW Y \in SUBSET GrPlaces(C)
  PROVE  GrIds(Y) \subseteq C
<1> SUFFICES ASSUME NEW i \in Y
             PROVE  world.events[i].id \in C
  BY DEF GrIds
<1>1. PICK id \in C : i = Gr!FirstAt(world.events, id)
  BY DEF GrPlaces
<1> QED
  BY <1>1, GrFirst

(* The loops of the events are at the places of the cycles.                *)
LEMMA GrLoops ==
  ASSUME GrShape
  PROVE  Gr!Loops([i \in DOMAIN world.events |-> world.events[i].parent])
           = {GrPlaces(C) : C \in Gr!Cycles(world.events)}
<1> DEFINE par == [i \in DOMAIN world.events |-> world.events[i].parent]
           ok(X) == X \in SUBSET DOMAIN world.events /\ Gr!Closed(par, X)
                      /\ \A Y \in SUBSET X : Gr!Closed(par, Y) => Y = X
<1>1. \A X : X \in Gr!Loops(par) <=> ok(X)
  BY DEF Gr!Loops, Gr!Ev
<1>2. \A i \in DOMAIN world.events : par[i] \in {world.events[i].parent, None}
  OBVIOUS
<1>3. \A C : GrClosed(GrParent, C) => GrPlaces(C) \in SUBSET DOMAIN world.events /\ Gr!Closed(par, GrPlaces(C))
  BY GrPlacesClosed
<1> HIDE DEF par
<1>4. \A X \in SUBSET DOMAIN world.events : Gr!Closed(par, X) =>
        GrClosed(GrParent, GrIds(X)) /\ GrPlaces(GrIds(X)) \subseteq X
  BY <1>2, GrIdsClosed
<1>5. ASSUME NEW X, ok(X)
      PROVE  \E C \in Gr!Cycles(world.events) : X = GrPlaces(C)
  <2>1. GrClosed(GrParent, GrIds(X)) /\ GrPlaces(GrIds(X)) \subseteq X
    BY <1>4, <1>5
  <2>2. PICK id \in GrIds(X) : TRUE
    BY <2>1 DEF GrClosed
  <2> DEFINE C == Gr!CycleFrom(GrParent, id)
  <2>3. C # {} /\ C \subseteq GrIds(X) /\ GrLoop(GrParent, C)
    <3>1. id \in Gr!IdsOf(world.events)
      BY <2>1, GrParents DEF GrClosed
    <3>2. /\ C = {} \/ GrLoop(GrParent, C)
          /\ \A K : GrClosed(GrParent, K) /\ id \in K => C # {} /\ C \subseteq K
      BY <3>1, GrParents, GrEvents, GrCycle
    <3> HIDE DEF C
    <3> QED
      BY <2>1, <2>2, <3>2
  <2> HIDE DEF C
  <2>4. C \in Gr!Cycles(world.events)
    BY <2>3, GrCycles
  <2>5. GrPlaces(C) \subseteq X
    BY <2>1, <2>3 DEF GrPlaces
  <2>6. Gr!Closed(par, GrPlaces(C))
    BY <1>3, <2>3 DEF GrLoop
  <2>7. GrPlaces(C) = X
    BY <1>5, <2>5, <2>6
  <2> QED
    BY <2>4, <2>7
<1>6. ASSUME NEW C \in Gr!Cycles(world.events)
      PROVE  ok(GrPlaces(C))
  <2>1. GrLoop(GrParent, C) /\ GrClosed(GrParent, C) /\ C \in SUBSET Gr!IdsOf(world.events)
    <3>1. GrLoop(GrParent, C) /\ GrClosed(GrParent, C)
      BY <1>6, GrCycles DEF GrLoop
    <3> QED
      BY <3>1, GrParents DEF GrClosed
  <2>2. GrPlaces(C) \in SUBSET DOMAIN world.events /\ Gr!Closed(par, GrPlaces(C))
    BY <1>3, <2>1
  <2>3. ASSUME NEW Y \in SUBSET GrPlaces(C), Gr!Closed(par, Y)
        PROVE  Y = GrPlaces(C)
    <3>1. GrClosed(GrParent, GrIds(Y)) /\ GrPlaces(GrIds(Y)) \subseteq Y
      BY <1>4, <2>2, <2>3
    <3>2. GrIds(Y) \subseteq C
      BY <2>1, GrPlacesOfIds
    <3>3. GrIds(Y) = C
      BY <2>1, <3>1, <3>2 DEF GrLoop
    <3> QED
      BY <2>3, <3>1, <3>3
  <2> QED
    BY <2>2, <2>3
<1>7. \A X : X \in Gr!Loops(par) <=> \E C \in Gr!Cycles(world.events) : X = GrPlaces(C)
  <2> HIDE DEF ok
  <2> QED
    BY <1>1, <1>5, <1>6
<1> QED
  BY <1>7 DEF par

-----------------------------------------------------------------------------
(* The event graph: what the renderer gives up                             *)

LEMMA GrBreaks ==
  ASSUME GrShape
  PROVE  /\ \A C \in Gr!Cycles(world.events) : \E i \in GrPlaces(C) : i \in Gr!BreakAt(world.events)
         /\ \A i \in Gr!BreakAt(world.events) : \E C \in Gr!Cycles(world.events) :
              i \in GrPlaces(C) /\ \A j \in GrPlaces(C) : i <= j
<1> DEFINE F(id) == Gr!FirstAt(world.events, id)
           earliest(C) == CHOOSE i \in {F(id) : id \in C} : \A id \in C : i <= F(id)
<1>1. Gr!BreakAt(world.events) = {earliest(C) : C \in Gr!Cycles(world.events)}
  BY DEF Gr!BreakAt
<1>2. \A C : GrPlaces(C) = {F(id) : id \in C}
  BY DEF GrPlaces
<1>3. \A C \in Gr!Cycles(world.events) : GrPlaces(C) # {} /\ GrPlaces(C) \in SUBSET Nat
  <2> SUFFICES ASSUME NEW C \in Gr!Cycles(world.events)
               PROVE  GrPlaces(C) # {} /\ GrPlaces(C) \in SUBSET Nat
    OBVIOUS
  <2>1. GrClosed(GrParent, C)
    BY GrCycles DEF GrLoop
  <2>2. GrPlaces(C) \in SUBSET DOMAIN world.events /\ C # {}
    BY <2>1, GrPlacesClosed DEF GrClosed
  <2>3. DOMAIN world.events \subseteq Nat
    BY GrEvents
  <2> HIDE DEF F
  <2> QED
    BY <1>2, <2>2, <2>3
<1> HIDE DEF F
<1>4. ASSUME NEW C \in Gr!Cycles(world.events)
      PROVE  earliest(C) \in GrPlaces(C) /\ \A j \in GrPlaces(C) : earliest(C) <= j
  <2>1. PICK i \in GrPlaces(C) : \A j \in GrPlaces(C) : i <= j
    BY <1>3, LeastNumber
  <2>2. i \in {F(id) : id \in C} /\ \A id \in C : i <= F(id)
    BY <1>2, <2>1
  <2>3. earliest(C) \in {F(id) : id \in C} /\ \A id \in C : earliest(C) <= F(id)
    BY <2>2
  <2> HIDE DEF earliest
  <2> QED
    BY <1>2, <2>3
<1> HIDE DEF earliest
<1> QED
  BY <1>1, <1>4

GrAsRecorded == [i \in DOMAIN world.events |-> world.events[i].parent]
GrAsDrawn == [i \in DOMAIN world.events |-> Gr!SafeParent(world.events, i)]

(* Without the edges that are given up there is no loop.                   *)
LEMMA GrForest ==
  ASSUME GrShape
  PROVE  Gr!Loops(GrAsDrawn) = {}
<1> SUFFICES ASSUME NEW X \in Gr!Loops(GrAsDrawn)
             PROVE  FALSE
  OBVIOUS
<1>1. X \in SUBSET DOMAIN world.events /\ Gr!Closed(GrAsDrawn, X)
  BY DEF Gr!Loops, Gr!Ev
<1>2. \A i \in DOMAIN world.events : GrAsDrawn[i] \in {world.events[i].parent, None}
  BY DEF GrAsDrawn, Gr!SafeParent
<1>3. GrClosed(GrParent, GrIds(X)) /\ GrPlaces(GrIds(X)) \subseteq X
  BY <1>1, <1>2, GrIdsClosed
<1>4. PICK id \in GrIds(X) : TRUE
  BY <1>3 DEF GrClosed
<1> DEFINE C == Gr!CycleFrom(GrParent, id)
<1>5. C # {} /\ C \subseteq GrIds(X) /\ GrLoop(GrParent, C)
  <2>1. id \in Gr!IdsOf(world.events)
    BY <1>3, GrParents DEF GrClosed
  <2>2. /\ C = {} \/ GrLoop(GrParent, C)
        /\ \A K : GrClosed(GrParent, K) /\ id \in K => C # {} /\ C \subseteq K
    BY <2>1, GrParents, GrEvents, GrCycle
  <2> HIDE DEF C
  <2> QED
    BY <1>3, <1>4, <2>2
<1> HIDE DEF C
<1>6. PICK i \in GrPlaces(C) : i \in Gr!BreakAt(world.events)
  BY <1>5, GrCycles, GrBreaks
<1>7. i \in X
  BY <1>3, <1>5 DEF GrPlaces
<1>8. GrAsDrawn[i] = None
  BY <1>1, <1>6, <1>7 DEF GrAsDrawn, Gr!SafeParent
<1>9. \E j \in X : GrAsDrawn[i] = world.events[j].id
  BY <1>1, <1>7 DEF Gr!Closed, Gr!Ev
<1> QED
  BY <1>1, <1>8, <1>9, GrEvents

(* An edge to an event is given up at the earliest event of a loop.        *)
LEMMA GrGivenUp ==
  ASSUME GrShape, NEW i \in DOMAIN world.events, GrAsDrawn[i] = None,
         world.events[i].parent \in Gr!IdsOf(world.events)
  PROVE  \E X \in Gr!Loops(GrAsRecorded) : i \in X /\ \A j \in X : i <= j
<1>1. i \in Gr!BreakAt(world.events)
  BY GrEvents DEF GrAsDrawn, Gr!SafeParent
<1>2. PICK C \in Gr!Cycles(world.events) : i \in GrPlaces(C) /\ \A j \in GrPlaces(C) : i <= j
  BY <1>1, GrBreaks
<1>3. GrPlaces(C) \in Gr!Loops(GrAsRecorded)
  BY GrLoops DEF GrAsRecorded
<1> QED
  BY <1>2, <1>3

-----------------------------------------------------------------------------
(* The event graph: the findings                                           *)

GrReport(n) == [what |-> Gr!Finding("report", n), by |-> 0]
GrFindings(run) == {[what |-> f, by |-> run] : f \in Gr!Findings(world.events)}

(* The findings of others, and those of the last validation, if no event   *)
(* was added since.                                                        *)
GrInv ==
  /\ GrShape /\ DOMAIN world = {"events", "diagnostics", "runs", "reports", "fresh"}
  /\ world.runs \in Nat /\ world.reports \in Nat
  /\ \A d \in world.diagnostics : d.by \in {0, world.runs}
  /\ {d \in world.diagnostics : d.by = 0} = {GrReport(n) : n \in 1 .. world.reports}
  /\ world.fresh => world.runs # 0 /\ {d \in world.diagnostics : d.by # 0} = GrFindings(world.runs)

LEMMA GrInitially ==
  ASSUME Gr!Init
  PROVE  GrInv
<1>1. /\ world.events = <<>> /\ world.diagnostics = {} /\ world.runs = 0 /\ world.reports = 0
      /\ world.fresh = FALSE
      /\ DOMAIN world = {"events", "diagnostics", "runs", "reports", "fresh"}
  BY DEF Gr!Init
<1>2. <<>> \in Seq(Gr!Events)
  OBVIOUS
<1>3. 1 .. 0 = {}
  OBVIOUS
<1>4. {GrReport(n) : n \in 1 .. 0} = {}
  BY <1>3
<1> QED
  BY <1>1, <1>2, <1>4 DEF GrInv, GrShape

LEMMA GrSteps ==
  ASSUME GrInv, Gr!Next
  PROVE  GrInv'
<1> USE DEF GrInv
<1> DEFINE own(D) == {d \in D : d.by = 0}
           made(D) == {d \in D : d.by # 0}
<1>1. CASE Gr!AddEvent
  <2>1. PICK e \in Gr!Events : world' = [world EXCEPT !.events = Append(@, e), !.fresh = FALSE]
    BY <1>1 DEF Gr!AddEvent
  <2>2. /\ DOMAIN world' = DOMAIN world /\ world'.events = Append(world.events, e)
        /\ world'.diagnostics = world.diagnostics /\ world'.runs = world.runs
        /\ world'.reports = world.reports /\ world'.fresh = FALSE
    BY <2>1
  <2>3. Append(world.events, e) \in Seq(Gr!Events)
    BY DEF GrShape
  <2> QED
    BY <2>2, <2>3 DEF GrShape, GrReport
<1>2. CASE Gr!Report
  <2> DEFINE n == world.reports + 1
             d == GrReport(n)
  <2>1. world' = [world EXCEPT !.reports = n, !.diagnostics = @ \cup {d}]
    BY <1>2 DEF Gr!Report, GrReport
  <2>2. d.by = 0 /\ n \in Nat
    BY DEF GrReport
  <2>3. {GrReport(k) : k \in 1 .. n} = {GrReport(k) : k \in 1 .. world.reports} \cup {d}
    <3>1. \A k : k \in 1 .. n <=> k \in 1 .. world.reports \/ k = n
      OBVIOUS
    <3> HIDE DEF n
    <3> QED
      BY <3>1
  <2> HIDE DEF d, n
  <2>4. /\ DOMAIN world' = DOMAIN world /\ world'.events = world.events
        /\ world'.diagnostics = world.diagnostics \cup {d} /\ world'.runs = world.runs
        /\ world'.reports = n /\ world'.fresh = world.fresh
    BY <2>1
  <2>5. own(world.diagnostics \cup {d}) = own(world.diagnostics) \cup {d}
    BY <2>2
  <2>6. made(world.diagnostics \cup {d}) = made(world.diagnostics)
    BY <2>2
  <2>7. \A run : GrFindings(run)' = GrFindings(run)
    BY <2>4 DEF GrFindings
  <2>8. {GrReport(k) : k \in 1 .. n}' = {GrReport(k) : k \in 1 .. n'}
    BY DEF GrReport
  <2>9. own(world.diagnostics') = {GrReport(k) : k \in 1 .. world'.reports}
    BY <2>3, <2>4, <2>5
  <2>10. world'.fresh => world'.runs # 0 /\ made(world'.diagnostics) = GrFindings(world'.runs)
    BY <2>4, <2>6
  <2>11. GrFindings(world'.runs) = GrFindings(world.runs)'
    BY <2>4 DEF GrFindings
  <2>12. \A k : GrReport(k)' = GrReport(k)
    BY DEF GrReport
  <2> QED
    BY <2>2, <2>4, <2>9, <2>10, <2>11, <2>12 DEF GrShape
<1>3. CASE Gr!Validate
  <2> DEFINE n == world.runs + 1
             K == {d \in world.diagnostics : d.by = 0 \/ d.by # world.runs}
             D == K \cup GrFindings(n)
  <2>1. world' = [world EXCEPT !.runs = n, !.fresh = TRUE, !.diagnostics = D]
    BY <1>3 DEF Gr!Validate, GrFindings
  <2>2. K = own(world.diagnostics)
    OBVIOUS
  <2>3. n \in Nat /\ n # 0
    OBVIOUS
  <2>4. \A d \in GrFindings(n) : d.by = n
    BY DEF GrFindings
  <2>5. own(D) = own(world.diagnostics) /\ made(D) = GrFindings(n)
    <3> HIDE DEF n
    <3> QED
      BY <2>2, <2>3, <2>4
  <2>6. \A d \in D : d.by \in {0, n}
    <3> HIDE DEF n
    <3> QED
      BY <2>2, <2>4
  <2> HIDE DEF D, n, K
  <2>7. /\ DOMAIN world' = DOMAIN world /\ world'.events = world.events
        /\ world'.diagnostics = D /\ world'.runs = n
        /\ world'.reports = world.reports /\ world'.fresh = TRUE
    BY <2>1
  <2>8. own(world'.diagnostics) = {GrReport(k) : k \in 1 .. world'.reports}
    BY <2>5, <2>7
  <2>9. \A k : GrReport(k)' = GrReport(k)
    BY DEF GrReport
  <2>10. made(world'.diagnostics) = GrFindings(world.runs)'
    BY <2>5, <2>7 DEF GrFindings
  <2> QED
    BY <2>3, <2>6, <2>7, <2>8, <2>9, <2>10 DEF GrShape
<1> QED
  BY <1>1, <1>2, <1>3 DEF Gr!Next

(* What is said after a validation.                                        *)
LEMMA GrSaid ==
  ASSUME GrInv, world.fresh, NEW code, code # "report"
  PROVE  \A i : i \in Gr!At(code) <=> Gr!Finding(code, i) \in Gr!Findings(world.events)
<1> DEFINE A == Gr!Findings(world.events)
<1>1. \A d \in world.diagnostics : d.by = 0 => d.what.code = "report"
  <2>1. \A d \in {e \in world.diagnostics : e.by = 0} : \E n \in 1 .. world.reports : d = GrReport(n)
    BY DEF GrInv
  <2> QED
    BY <2>1 DEF GrReport, Gr!Finding
<1>2. \A d \in world.diagnostics : d.by # 0 => \E f \in A : d.what = f
  <2>1. \A d \in {e \in world.diagnostics : e.by # 0} : d \in GrFindings(world.runs)
    BY DEF GrInv
  <2> QED
    BY <2>1 DEF GrFindings
<1>3. \A f \in A : \E d \in world.diagnostics : d.what = f
  <2>1. \A f \in A : [what |-> f, by |-> world.runs] \in world.diagnostics
    BY DEF GrInv, GrFindings
  <2> HIDE DEF A
  <2> QED
    BY <2>1
<1>4. \A f \in A : \E c, i : f = Gr!Finding(c, i)
  BY DEF Gr!Findings
<1> HIDE DEF A
<1>5. \A i : i \in Gr!At(code) <=> \E d \in world.diagnostics : d.what.code = code /\ d.what.at = i
  BY DEF Gr!At
<1>6. \A c, i : Gr!Finding(c, i).code = c /\ Gr!Finding(c, i).at = i
  BY DEF Gr!Finding
<1>7. \A d \in world.diagnostics : d.what.code = code => d.what \in A /\ d.what = Gr!Finding(code, d.what.at)
  <2> SUFFICES ASSUME NEW d \in world.diagnostics, d.what.code = code
               PROVE  d.what \in A /\ d.what = Gr!Finding(code, d.what.at)
    OBVIOUS
  <2>1. PICK f \in A : d.what = f
    BY <1>1, <1>2
  <2>2. PICK c, i : f = Gr!Finding(c, i)
    BY <1>4
  <2>3. c = code /\ i = d.what.at
    BY <1>6, <2>1, <2>2
  <2> QED
    BY <2>1, <2>2, <2>3
<1> QED
  <2> TAKE i
  <2>1. ASSUME i \in Gr!At(code)
        PROVE  Gr!Finding(code, i) \in A
    <3>1. PICK d \in world.diagnostics : d.what.code = code /\ d.what.at = i
      BY <1>5, <2>1
    <3> QED
      BY <1>7, <3>1
  <2>2. ASSUME Gr!Finding(code, i) \in A
        PROVE  i \in Gr!At(code)
    <3>1. PICK d \in world.diagnostics : d.what = Gr!Finding(code, i)
      BY <1>3, <2>2
    <3> QED
      BY <1>5, <1>6, <3>1
  <2> QED
    BY <2>1, <2>2 DEF A

(* What the findings of a validation are.                                  *)
LEMMA GrFound ==
  ASSUME NEW i
  PROVE  LET ev == world.events
             A == Gr!Findings(ev) IN
         /\ Gr!Finding("parent_cycle", i) \in A <=>
              \E id \in UNION Gr!Cycles(ev) : i = Gr!FirstAt(ev, id)
         /\ Gr!Finding("missing_parent", i) \in A <=>
              i \in DOMAIN ev /\ ev[i].parent \notin Gr!IdsOf(ev) \cup {None}
         /\ i \in DOMAIN ev /\ ~Gr!IsFirst(ev, i) => A # {}
         /\ i \in DOMAIN ev /\ ev[i].call # None /\ (\E j \in 1 .. (i - 1) : ev[j].call = ev[i].call) => A # {}
         /\ i \in DOMAIN ev /\ ev[i].parent = None /\ (\E j \in 1 .. (i - 1) : ev[j].parent = None) => A # {}
<1> DEFINE ev == world.events
           A == Gr!Findings(ev)
           F(code, I) == {Gr!Finding(code, k) : k \in I}
           first == {k \in DOMAIN ev : ~Gr!IsFirst(ev, k)}
           cycle == {Gr!FirstAt(ev, id) : id \in UNION Gr!Cycles(ev)}
           astray == {k \in DOMAIN ev : ev[k].parent \notin Gr!IdsOf(ev) \cup {None}}
           called == {k \in DOMAIN ev : ev[k].call # None /\ \E j \in 1 .. (k - 1) : ev[j].call = ev[k].call}
           roots == {k \in DOMAIN ev : ev[k].parent = None /\ \E j \in 1 .. (k - 1) : ev[j].parent = None}
<1>1. A = F("duplicate_event_id", first) \cup F("parent_cycle", cycle) \cup F("missing_parent", astray)
            \cup F("duplicate_tool_call_id", called) \cup F("multiple_roots", roots)
  BY DEF Gr!Findings
<1>2. \A c, d, k, l : Gr!Finding(c, k) = Gr!Finding(d, l) => c = d /\ k = l
  BY DEF Gr!Finding
<1> HIDE DEF A, first, cycle, astray, called, roots
<1>3. /\ Gr!Finding("parent_cycle", i) \in A <=> i \in cycle
      /\ Gr!Finding("missing_parent", i) \in A <=> i \in astray
      /\ i \in first \cup called \cup roots => A # {}
  <2>1. \A c, d, I : Gr!Finding(c, i) \in F(d, I) <=> c = d /\ i \in I
    BY <1>2
  <2> HIDE DEF F
  <2>2. \A c : Gr!Finding(c, i) \in A <=>
          \/ c = "duplicate_event_id" /\ i \in first
          \/ c = "parent_cycle" /\ i \in cycle
          \/ c = "missing_parent" /\ i \in astray
          \/ c = "duplicate_tool_call_id" /\ i \in called
          \/ c = "multiple_roots" /\ i \in roots
    BY <1>1, <2>1
  <2>3. i \in first \cup called \cup roots => \E c : Gr!Finding(c, i) \in A
    BY <2>2
  <2>4. Gr!Finding("parent_cycle", i) \in A <=> i \in cycle
    BY <2>2
  <2>5. Gr!Finding("missing_parent", i) \in A <=> i \in astray
    BY <2>2
  <2> QED
    BY <2>3, <2>4, <2>5
<1>4. /\ i \in cycle <=> \E id \in UNION Gr!Cycles(ev) : i = Gr!FirstAt(ev, id)
      /\ i \in astray <=> i \in DOMAIN ev /\ ev[i].parent \notin Gr!IdsOf(ev) \cup {None}
      /\ i \in first <=> i \in DOMAIN ev /\ ~Gr!IsFirst(ev, i)
      /\ i \in called <=>
           i \in DOMAIN ev /\ ev[i].call # None /\ \E j \in 1 .. (i - 1) : ev[j].call = ev[i].call
      /\ i \in roots <=> i \in DOMAIN ev /\ ev[i].parent = None /\ \E j \in 1 .. (i - 1) : ev[j].parent = None
  BY DEF cycle, astray, first, called, roots
<1> HIDE DEF ev
<1> QED
  BY <1>3, <1>4 DEF A, ev

LEMMA GrCounted ==
  ASSUME GrInv
  PROVE  Cardinality({d \in world.diagnostics : d.by = 0}) = world.reports
<1> DEFINE m == world.reports
           D == {d \in world.diagnostics : d.by = 0}
           f == [n \in 1 .. m |-> GrReport(n)]
<1>1. m \in Nat /\ D = {GrReport(n) : n \in 1 .. m}
  BY DEF GrInv
<1>2. \A n, k : GrReport(n) = GrReport(k) => n = k
  BY DEF GrReport, Gr!Finding
<1> HIDE DEF D, m
<1>3. f \in Bijection(1 .. m, D)
  BY <1>1, <1>2 DEF Bijection, Injection, IsInjective, Surjection
<1>4. IsFiniteSet(1 .. m) /\ Cardinality(1 .. m) = m
  BY <1>1, FS_Interval
<1>5. ExistsBijection(1 .. m, D)
  BY <1>3 DEF ExistsBijection
<1>6. Cardinality(D) = m
  BY <1>4, <1>5, FS_Bijection
<1> QED
  BY <1>6 DEF D, m

LEMMA GrSaysWhy ==
  ASSUME GrInv
  PROVE  Gr!DiagnosticsSayWhy
<1> DEFINE ev == world.events
           loops == Gr!Loops(GrAsRecorded)
           lost == {i \in DOMAIN ev : GrAsRecorded[i] # None /\ GrAsDrawn[i] = None}
           adrift == {i \in lost : GrAsRecorded[i] \notin Gr!IdsOf(ev)}
           said(code) == Gr!At(code)
<1>1. GrShape
  BY DEF GrInv
<1>2. \A i \in DOMAIN ev : GrAsRecorded[i] = ev[i].parent
  BY DEF GrAsRecorded
<1>3. \A i \in lost \ adrift : \E X \in loops : i \in X /\ \A j \in X : i <= j
  BY <1>1, <1>2, GrGivenUp
<1>4. adrift = {i \in DOMAIN ev : ev[i].parent \notin Gr!IdsOf(ev) \cup {None}}
  BY <1>2 DEF GrAsDrawn, Gr!SafeParent
<1>5. ASSUME world.fresh
      PROVE  /\ said("parent_cycle") = UNION loops
             /\ said("missing_parent") = adrift
             /\ \A d \in world.diagnostics : d.by \in {0, world.runs}
             /\ (\A d \in world.diagnostics : d.by = 0) =>
                  \A i, j \in DOMAIN ev : i # j =>
                    /\ ev[i].id # ev[j].id
                    /\ ev[i].parent # None \/ ev[j].parent # None
                    /\ ev[i].call # ev[j].call \/ ev[i].call = None
  <2>1. \A i : i \in said("parent_cycle") <=> \E id \in UNION Gr!Cycles(ev) : i = Gr!FirstAt(ev, id)
    BY <1>5, GrSaid, GrFound
  <2>2. loops = {GrPlaces(C) : C \in Gr!Cycles(ev)}
    BY <1>1, GrLoops DEF GrAsRecorded
  <2>3. said("parent_cycle") = UNION loops
    <3> HIDE DEF loops, said
    <3> QED
      BY <2>1, <2>2 DEF GrPlaces
  <2>4. \A i : i \in said("missing_parent") <=> i \in adrift
    <3> HIDE DEF adrift, lost, said
    <3>1. \A i : i \in said("missing_parent") <=> Gr!Finding("missing_parent", i) \in Gr!Findings(ev)
      BY <1>5, GrSaid DEF said
    <3> QED
      BY <1>4, <3>1, GrFound
  <2>5. ASSUME \A d \in world.diagnostics : d.by = 0,
               NEW i \in DOMAIN ev, NEW j \in DOMAIN ev, j < i
        PROVE  /\ ev[i].id # ev[j].id
               /\ ev[i].parent # None \/ ev[j].parent # None
               /\ ev[i].call # ev[j].call \/ ev[i].call = None
    <3>1. GrFindings(world.runs) = {}
      BY <1>5, <2>5 DEF GrInv
    <3>2. Gr!Findings(ev) = {}
      BY <3>1 DEF GrFindings
    <3>3. i \in Nat /\ j \in Nat /\ j \in 1 .. (i - 1)
      BY <1>1, <2>5, GrEvents
    <3>4. Gr!IsFirst(ev, i)
      BY <3>2, GrFound
    <3> QED
      BY <3>2, <3>3, <3>4, GrFound DEF Gr!IsFirst
  <2>6. ASSUME \A d \in world.diagnostics : d.by = 0,
               NEW i \in DOMAIN ev, NEW j \in DOMAIN ev, i # j
        PROVE  /\ ev[i].id # ev[j].id
               /\ ev[i].parent # None \/ ev[j].parent # None
               /\ ev[i].call # ev[j].call \/ ev[i].call = None
    <3>1. i \in Nat /\ j \in Nat
      BY <1>1, GrEvents
    <3>2. i < j \/ j < i
      BY <2>6, <3>1
    <3> HIDE DEF ev
    <3>3. CASE j < i
      BY <2>5, <2>6, <3>3
    <3>4. CASE i < j
      BY <2>5, <2>6, <3>4
    <3> QED
      BY <3>2, <3>3, <3>4
  <2>7. \A d \in world.diagnostics : d.by \in {0, world.runs}
    BY DEF GrInv
  <2> HIDE DEF said, loops, adrift, ev
  <2> QED
    BY <2>3, <2>4, <2>6, <2>7
<1>6. Gr!Loops(GrAsDrawn) = {}
  BY <1>1, GrForest
<1>7. Gr!Cardinality({d \in world.diagnostics : d.by = 0}) = world.reports
  BY GrCounted, GrCardinality
<1> QED
  BY <1>3, <1>5, <1>6, <1>7 DEF Gr!DiagnosticsSayWhy, GrAsRecorded, GrAsDrawn, Gr!Ev

(* DiagnosticsSayWhy: see there.  The loops of the events are the cycles   *)
(* that EventGraph.validate finds on the ways up, which are as long as     *)
(* there are parents; so the renderer, which gives up the earliest event   *)
(* of each, makes a forest, and every edge that it gives up is explained.  *)
THEOREM GraphExplained == Spec => []DiagnosticsSayWhy
<1> DEFINE I == harness = "graph" => GrInv
<1>1. Init => I
  <2> SUFFICES ASSUME Init, harness = "graph"
               PROVE  GrInv
    OBVIOUS
  <2> QED
    BY GrInitially DEF Init
<1>2. I /\ [Next]_vars => I'
  <2> SUFFICES ASSUME I, [Next]_vars, harness' = "graph"
               PROVE  GrInv'
    OBVIOUS
  <2>1. CASE Next
    <3>1. harness = "graph" /\ Gr!Next
      BY <2>1 DEF Next
    <3> QED
      BY <3>1, GrSteps
  <2>2. CASE UNCHANGED vars
    <3>1. harness = "graph" /\ world' = world
      BY <2>2 DEF vars
    <3>2. GrInv
      BY <3>1
    <3> QED
      BY <3>1, <3>2 DEF GrInv, GrShape, GrReport, GrFindings
  <2> QED
    BY <2>1, <2>2
<1>3. I => DiagnosticsSayWhy
  BY GrSaysWhy DEF DiagnosticsSayWhy
<1> QED
  BY <1>1, <1>2, <1>3, PTL DEF Spec

-----------------------------------------------------------------------------
(* The tree of a turn: where its events are                                *)

TrMaybe == Nat \cup {None}
TrFields == {"id", "parent", "call", "message", "usage", "file", "lines", "result", "agent"}
TrEvents == [id : Tr!EventIds, parent : Tr!EventIds \cup {None}, call : TrMaybe, message : TrMaybe,
             usage : Nat, file : Tr!Files, lines : SUBSET Nat, result : TrMaybe,
             agent : Tr!SubAgents \cup {None}]

(* Each id once, each event after its parent, the first tool of a call     *)
(* before the others.                                                      *)
TrPlaces(ev) ==
  /\ \A k, l \in DOMAIN ev : ev[k].id = ev[l].id => k = l
  /\ \A k \in DOMAIN ev : k # 1 => \E j \in DOMAIN ev : j < k /\ ev[j].id = ev[k].parent
  /\ \A k, l \in DOMAIN ev : ev[k].id[1] = "tool" /\ ev[l].call = ev[k].call => k <= l

TrTree(ev) == ev \in Seq(TrEvents) /\ 1 \in DOMAIN ev /\ TrPlaces(ev)

LEMMA TrSeq ==
  ASSUME NEW ev, TrTree(ev)
  PROVE  /\ IsSeq(ev) /\ Len(ev) \in Nat /\ DOMAIN ev = 1 .. Len(ev)
         /\ \A k \in DOMAIN ev : ev[k] \in TrEvents /\ k \in Nat
         /\ Elems(ev) \in SUBSET TrEvents
<1>1. ev \in Seq(TrEvents)
  BY DEF TrTree
<1>2. Len(ev) \in Nat /\ DOMAIN ev = 1 .. Len(ev) /\ ev = [i \in 1 .. Len(ev) |-> ev[i]]
  BY <1>1
<1>3. \A k \in DOMAIN ev : ev[k] \in TrEvents /\ k \in Nat
  <2>1. \A S : \A q \in Seq(S) : \A k \in DOMAIN q : q[k] \in S
    OBVIOUS
  <2> QED
    BY <1>1, <1>2, <2>1
<1>4. Elems(ev) \in SUBSET TrEvents /\ \A k \in 1 .. Len(ev) : ev[k] \in Elems(ev)
  BY <1>2, <1>3 DEF Elems
<1>5. IsSeq(ev)
  <2>1. ev \in [1 .. Len(ev) -> Elems(ev)]
    BY <1>2, <1>4
  <2> HIDE DEF TrEvents
  <2> QED
    BY <1>2, <2>1 DEF IsSeq, Elems
<1> QED
  BY <1>2, <1>3, <1>4, <1>5

(* An event more at the end.                                               *)
LEMMA TrAppend ==
  ASSUME NEW ev, TrTree(ev), NEW e \in TrEvents,
         \A x \in Elems(ev) : x.id # e.id,
         \E x \in Elems(ev) : x.id = e.parent,
         e.id[1] = "tool" => \A x \in Elems(ev) : x.call # e.call
  PROVE  LET s == Append(ev, e) IN
         /\ TrTree(s) /\ Elems(s) = Elems(ev) \cup {e} /\ s[1] = ev[1]
         /\ DOMAIN s = DOMAIN ev \cup {Len(ev) + 1} /\ s[Len(ev) + 1] = e
         /\ \A k \in DOMAIN ev : s[k] = ev[k]
<1> DEFINE s == Append(ev, e)
           n == Len(ev) + 1
<1>1. /\ IsSeq(ev) /\ Len(ev) \in Nat /\ DOMAIN ev = 1 .. Len(ev)
      /\ ev \in Seq(TrEvents) /\ 1 \in DOMAIN ev /\ TrPlaces(ev)
  BY TrSeq DEF TrTree
<1>2. s \in Seq(TrEvents)
  BY <1>1
<1>3. /\ DOMAIN s = DOMAIN ev \cup {n} /\ n \notin DOMAIN ev
      /\ (\A k \in DOMAIN ev : s[k] = ev[k]) /\ s[n] = e
  BY <1>1, AppendAny
<1>4. \A k \in DOMAIN ev : k < n /\ k <= n /\ ev[k] \in Elems(ev)
  BY <1>1 DEF Elems
<1> HIDE DEF s, n
<1>5. Elems(s) = Elems(ev) \cup {e}
  BY <1>3 DEF Elems
<1>6. \A k, l \in DOMAIN s : s[k].id = s[l].id => k = l
  BY <1>1, <1>3, <1>4 DEF TrPlaces
<1>7. \A k \in DOMAIN s : k # 1 => \E j \in DOMAIN s : j < k /\ s[j].id = s[k].parent
  <2> SUFFICES ASSUME NEW k \in DOMAIN s, k # 1
               PROVE  \E j \in DOMAIN s : j < k /\ s[j].id = s[k].parent
    OBVIOUS
  <2>1. CASE k \in DOMAIN ev
    BY <1>1, <1>3, <2>1 DEF TrPlaces
  <2>2. CASE k = n
    <3>1. PICK j \in DOMAIN ev : ev[j].id = e.parent
      BY DEF Elems
    <3> QED
      BY <1>3, <1>4, <2>2, <3>1
  <2> QED
    BY <1>3, <2>1, <2>2
<1>8. \A k, l \in DOMAIN s : s[k].id[1] = "tool" /\ s[l].call = s[k].call => k <= l
  <2> SUFFICES ASSUME NEW k \in DOMAIN s, NEW l \in DOMAIN s, s[k].id[1] = "tool", s[l].call = s[k].call
               PROVE  k <= l
    OBVIOUS
  <2>1. CASE k \in DOMAIN ev /\ l \in DOMAIN ev
    BY <1>1, <1>3, <2>1 DEF TrPlaces
  <2>2. CASE k \in DOMAIN ev /\ l = n
    BY <1>4, <2>2
  <2>3. CASE k = n /\ l \in DOMAIN ev
    BY <1>3, <1>4, <2>3
  <2>4. CASE k = n /\ l = n
    BY <1>1, <2>4 DEF n
  <2> QED
    BY <1>3, <2>1, <2>2, <2>3, <2>4
<1>9. TrTree(s) /\ s[1] = ev[1]
  BY <1>1, <1>2, <1>3, <1>6, <1>7, <1>8 DEF TrTree, TrPlaces
<1> QED
  BY <1>3, <1>5, <1>9 DEF s, n

(* An event that changes and keeps its place.                              *)
LEMMA TrReplace ==
  ASSUME NEW ev, TrTree(ev), NEW k \in DOMAIN ev, NEW e \in TrEvents,
         e.id = ev[k].id, e.parent = ev[k].parent, e.call = ev[k].call
  PROVE  LET s == [ev EXCEPT ![k] = e] IN
         /\ TrTree(s) /\ Elems(s) = (Elems(ev) \ {ev[k]}) \cup {e} /\ s[k] = e
         /\ DOMAIN s = DOMAIN ev /\ \A l \in DOMAIN ev : l # k => s[l] = ev[l]
<1> DEFINE s == [ev EXCEPT ![k] = e]
<1>1. /\ IsSeq(ev) /\ Len(ev) \in Nat /\ DOMAIN ev = 1 .. Len(ev)
      /\ ev \in Seq(TrEvents) /\ 1 \in DOMAIN ev /\ TrPlaces(ev)
  BY TrSeq DEF TrTree
<1>2. s \in Seq(TrEvents)
  BY <1>1
<1>3. DOMAIN s = DOMAIN ev /\ s[k] = e /\ \A l \in DOMAIN ev : l # k => s[l] = ev[l]
  OBVIOUS
<1> HIDE DEF s
<1>4. \A l \in DOMAIN ev : s[l].id = ev[l].id /\ s[l].parent = ev[l].parent /\ s[l].call = ev[l].call
  BY <1>3
<1>5. TrPlaces(s)
  BY <1>1, <1>3, <1>4 DEF TrPlaces
<1>6. \A l \in DOMAIN ev : ev[l] = ev[k] => l = k
  BY <1>1 DEF TrPlaces
<1>7. Elems(s) = (Elems(ev) \ {ev[k]}) \cup {e}
  <2>1. \A l \in DOMAIN ev : s[l] \in (Elems(ev) \ {ev[k]}) \cup {e}
    BY <1>3, <1>6 DEF Elems
  <2>2. \A x \in (Elems(ev) \ {ev[k]}) \cup {e} : \E l \in DOMAIN ev : x = s[l]
    BY <1>3 DEF Elems
  <2> QED
    BY <1>3, <2>1, <2>2 DEF Elems
<1> QED
  BY <1>1, <1>2, <1>3, <1>5, <1>7 DEF s, TrTree

-----------------------------------------------------------------------------
(* The tree of a turn: no edge leads nowhere                               *)

LEMMA TrFirst ==
  ASSUME NEW ev, TrTree(ev), NEW k \in DOMAIN ev
  PROVE  Tr!IsFirst(ev, k) /\ Tr!FirstAt(ev, ev[k].id) = k
<1>1. /\ Len(ev) \in Nat /\ DOMAIN ev = 1 .. Len(ev)
      /\ \A i, j \in DOMAIN ev : ev[i].id = ev[j].id => i = j
  BY TrSeq DEF TrTree, TrPlaces
<1>2. \A i \in DOMAIN ev : Tr!IsFirst(ev, i)
  <2> SUFFICES ASSUME NEW i \in DOMAIN ev, NEW j \in 1 .. (i - 1)
               PROVE  ev[j].id # ev[i].id
    BY DEF Tr!IsFirst
  <2>1. j \in DOMAIN ev /\ j # i
    BY <1>1
  <2> QED
    BY <1>1, <2>1
<1>3. Tr!FirstAt(ev, ev[k].id) \in DOMAIN ev /\ ev[Tr!FirstAt(ev, ev[k].id)].id = ev[k].id
  BY <1>2 DEF Tr!FirstAt
<1> QED
  BY <1>1, <1>2, <1>3

LEMMA TrSameCycle == \A p, id : Tr!CycleFrom(p, id) = Gr!CycleFrom(p, id)
  BY DEF Tr!CycleFrom, Gr!CycleFrom, Tr!WayUp, Gr!WayUp, Tr!Cardinality, Gr!Cardinality

LEMMA TrUncut ==
  ASSUME NEW ev, TrTree(ev), ev[1].parent = None
  PROVE  \A k \in 2 .. Len(ev) :
           /\ Tr!SafeParent(ev, k) = ev[k].parent
           /\ \E j \in DOMAIN ev : j = Tr!FirstAt(ev, ev[k].parent) /\ j < k /\ ev[j].id = ev[k].parent
<1> DEFINE S == Tr!IdsOf(ev)
           p == Tr!ParentById(ev)
           F(id) == Tr!FirstAt(ev, id)
<1>1. /\ Len(ev) \in Nat /\ DOMAIN ev = 1 .. Len(ev) /\ 1 \in DOMAIN ev
      /\ \A k \in DOMAIN ev : ev[k] \in TrEvents /\ k \in Nat
      /\ \A k \in DOMAIN ev : k # 1 => \E j \in DOMAIN ev : j < k /\ ev[j].id = ev[k].parent
  BY TrSeq DEF TrTree, TrPlaces
<1>2. None \notin S /\ S = {ev[k].id : k \in DOMAIN ev}
  <2>1. None \notin Tr!EventIds
    BY HarnessesAssumption DEF Tr!TreeAssumption
  <2> QED
    BY <1>1, <2>1 DEF Tr!IdsOf, TrEvents
<1>3. \A id \in S : \E k \in DOMAIN ev : id = ev[k].id /\ F(id) = k
  BY <1>2, TrFirst
<1>4. IsFiniteSet(S)
  <2> DEFINE f == [k \in 1 .. Len(ev) |-> ev[k].id]
  <2>1. f \in Surjection(1 .. Len(ev), S)
    BY <1>1, <1>2 DEF Surjection
  <2>2. IsFiniteSet(1 .. Len(ev))
    BY <1>1, FS_Interval
  <2> HIDE DEF f
  <2> QED
    BY <2>1, <2>2, FS_Surjection
<1>5. /\ DOMAIN p \in SUBSET S /\ p \in [DOMAIN p -> S] /\ \A id \in DOMAIN p : p[id] = ev[F(id)].parent
  BY DEF Tr!ParentById
<1>6. IsFiniteSet(DOMAIN p)
  BY <1>4, <1>5, FS_Subset
<1> HIDE DEF S, p, F
<1>7. \A id \in DOMAIN p : F(id) \in Nat /\ F(p[id]) < F(id)
  <2> SUFFICES ASSUME NEW id \in DOMAIN p
               PROVE  F(id) \in Nat /\ F(p[id]) < F(id)
    OBVIOUS
  <2>1. PICK k \in DOMAIN ev : id = ev[k].id /\ F(id) = k
    BY <1>3, <1>5
  <2>2. p[id] = ev[k].parent /\ p[id] \in S
    BY <1>5, <2>1
  <2>3. k # 1
    BY <1>2, <2>2
  <2>4. PICK j \in DOMAIN ev : j < k /\ ev[j].id = ev[k].parent
    BY <1>1, <2>3
  <2>5. F(p[id]) = j
    BY <2>2, <2>4, TrFirst DEF F
  <2> QED
    BY <1>1, <2>1, <2>4, <2>5
<1>8. ASSUME NEW C, GrClosed(p, C)
      PROVE  FALSE
  <2> DEFINE T == {F(id) : id \in C}
  <2>1. T # {} /\ T \in SUBSET Nat
    BY <1>7, <1>8 DEF GrClosed
  <2>2. PICK x \in T : \A y \in T : x <= y
    <3> HIDE DEF T
    <3> QED
      BY <2>1, LeastNumber
  <2>3. PICK id \in C : x = F(id)
    OBVIOUS
  <2>4. F(p[id]) \in T /\ F(p[id]) < x /\ id \in DOMAIN p /\ p[id] \in DOMAIN p
    BY <1>7, <1>8, <2>3 DEF GrClosed
  <2>5. F(p[id]) \in Nat /\ x \in Nat /\ x <= F(p[id])
    <3> HIDE DEF T
    <3> QED
      BY <1>7, <2>1, <2>2, <2>4
  <2> QED
    BY <2>4, <2>5
<1>9. \A id \in S : Tr!CycleFrom(p, id) = {}
  <2> SUFFICES ASSUME NEW id \in S
               PROVE  Gr!CycleFrom(p, id) = {}
    BY TrSameCycle
  <2>1. Gr!CycleFrom(p, id) = {} \/ GrLoop(p, Gr!CycleFrom(p, id))
    BY <1>2, <1>5, <1>6, GrCycle
  <2> QED
    BY <1>8, <2>1 DEF GrLoop
<1>10. Tr!BreakAt(ev) = {}
  <2>1. Tr!Cycles(ev) = {}
    <3>1. Tr!Cycles(ev) = {Tr!CycleFrom(p, id) : id \in S} \ {{}}
      BY DEF Tr!Cycles, p, S
    <3> QED
      BY <1>9, <3>1
  <2> QED
    BY <2>1 DEF Tr!BreakAt
<1> SUFFICES ASSUME NEW k \in 2 .. Len(ev)
             PROVE  /\ Tr!SafeParent(ev, k) = ev[k].parent
                    /\ \E j \in DOMAIN ev : j = F(ev[k].parent) /\ j < k /\ ev[j].id = ev[k].parent
  BY DEF F
<1>11. k \in DOMAIN ev /\ k # 1
  BY <1>1
<1>12. PICK j \in DOMAIN ev : j < k /\ ev[j].id = ev[k].parent
  BY <1>1, <1>11
<1>13. F(ev[k].parent) = j
  BY <1>12, TrFirst DEF F
<1>14. ev[k].parent \in S
  BY <1>2, <1>12
<1>15. Tr!SafeParent(ev, k) = ev[k].parent
  BY <1>10, <1>14 DEF Tr!SafeParent, S
<1> QED
  BY <1>12, <1>13, <1>15

-----------------------------------------------------------------------------
(* The tree of a turn: what the events of a file are                       *)

TrRecords == [file : Tr!Files, answer : BOOLEAN, message : TrMaybe, call : TrMaybe, usage : Nat,
              agent : Tr!SubAgents \cup {None}]

(* The files: a result is of a call, and neither a message nor a call is   *)
(* in two of them.                                                         *)
TrLog ==
  /\ world.log \in Seq(TrRecords)
  /\ \A i \in DOMAIN world.log :
       ~world.log[i].answer => world.log[i].call # None /\ world.log[i].message = None
  /\ \A i, j \in DOMAIN world.log :
       world.log[i].call = world.log[j].call /\ world.log[i].call # None => world.log[i].file = world.log[j].file
  /\ \A i, j \in DOMAIN world.log :
       world.log[i].message = world.log[j].message /\ world.log[i].message # None =>
         world.log[i].file = world.log[j].file

(* What is made of some answers A, of the calls C of some of them and of   *)
(* some results R of a file: an answer,                                    *)
TrIsAnswer(e, f, root, A) ==
  /\ e.id \in {<<"answer", f, i>> : i \in e.lines} /\ e.parent = root.id /\ e.call = None
  /\ e.lines \subseteq A /\ \A i \in e.lines : world.log[i].message = e.message
  /\ IF e.message = None THEN \E i \in A : e.lines = {i}
     ELSE \A i \in A : world.log[i].message = e.message => i \in e.lines
  /\ \E i \in e.lines : e.usage = world.log[i].usage
  /\ \A i \in e.lines : world.log[i].usage <= e.usage

(* a tool, below the answer with its call or, if that is not there, below  *)
(* the root,                                                               *)
TrBelow(e, E, root, C) ==
  \/ e.lines = {} /\ e.parent = root.id
  \/ \E i \in C : e.lines = {i} /\ world.log[i].call = e.call
                  /\ \E a \in E : a.id[1] = "answer" /\ i \in a.lines /\ e.parent = a.id

(* the first of its call with the last result, or another one,             *)
TrFirstTool(e, R) ==
  /\ e.id = <<"tool", MainFile, e.call>>
  /\ \A i \in R : world.log[i].call = e.call =>
       /\ e.result \in R /\ world.log[e.result].call = e.call /\ i <= e.result
       /\ e.agent = world.log[e.result].agent
  /\ (\A i \in R : world.log[i].call # e.call) => e.result = None /\ e.agent = None

TrOtherTool(e, E, f) ==
  /\ \E i : e.lines = {i} /\ e.id = <<"again", f, i>>
  /\ e.result = None /\ e.agent = None
  /\ \E d \in E : d.id = <<"tool", MainFile, e.call>>

TrIsTool(e, E, f, root, A, C, R) ==
  /\ e.call # None /\ e.message = None
  /\ \E i \in A \cup R : world.log[i].call = e.call
  /\ TrBelow(e, E, root, C)
  /\ TrFirstTool(e, R) \/ TrOtherTool(e, E, f)

(* and nothing of them is left out.                                        *)
TrCovered(E, A, C, R) ==
  /\ \A i \in A : \E e \in E : e.id[1] = "answer" /\ i \in e.lines
  /\ \A d, e \in E : \A i \in A :
       d.id[1] = "answer" /\ e.id[1] = "answer" /\ i \in d.lines /\ i \in e.lines => d = e
  /\ \A i \in C : \E e \in E : e.call # None /\ e.lines = {i}
  /\ \A i \in R : \E e \in E : e.id = <<"tool", MainFile, world.log[i].call>>

TrIsRoot(root, f) ==
  /\ root.call = None /\ root.message = None /\ root.file = f
  /\ root.id \in {"turn", "agent"} \X {f} \X Nat

TrOfFile(f, answer) == {i \in DOMAIN world.log : world.log[i].file = f /\ world.log[i].answer = answer}

TrGot(E, f, root, A, C, R) ==
  /\ root \in E /\ TrIsRoot(root, f)
  /\ A \subseteq TrOfFile(f, TRUE) /\ C \subseteq A /\ R \subseteq TrOfFile(f, FALSE)
  /\ \A e \in E : e.file = f /\ (e = root \/ TrIsAnswer(e, f, root, A) \/ TrIsTool(e, E, f, root, A, C, R))
  /\ TrCovered(E, A, C, R)

TrPart(ev, f, root, A, C, R) == TrTree(ev) /\ ev[1] = root /\ TrGot(Elems(ev), f, root, A, C, R)

LEMMA TrLines ==
  ASSUME TrLog
  PROVE  /\ Len(world.log) \in Nat /\ DOMAIN world.log = 1 .. Len(world.log)
         /\ \A i \in DOMAIN world.log :
              /\ i \in Nat /\ world.log[i].file \in Tr!Files /\ world.log[i].answer \in BOOLEAN
              /\ world.log[i].message \in TrMaybe /\ world.log[i].call \in TrMaybe
              /\ world.log[i].usage \in Nat /\ world.log[i].agent \in Tr!SubAgents \cup {None}
<1>1. world.log \in Seq(TrRecords)
  BY DEF TrLog
<1>2. Len(world.log) \in Nat /\ DOMAIN world.log = 1 .. Len(world.log)
  BY <1>1
<1>3. \A i \in DOMAIN world.log : world.log[i] \in TrRecords
  <2>1. \A S : \A q \in Seq(S) : \A k \in DOMAIN q : q[k] \in S
    OBVIOUS
  <2> QED
    BY <1>1, <2>1
<1> QED
  BY <1>2, <1>3 DEF TrRecords

(* What kind of event an id is of.                                         *)
LEMMA TrKinds ==
  ASSUME NEW E, NEW f, NEW root, NEW A, NEW C, NEW R, TrGot(E, f, root, A, C, R), NEW e \in E
  PROVE  /\ e = root => e.id[1] \in {"turn", "agent"} /\ e.call = None /\ e.message = None
         /\ TrIsAnswer(e, f, root, A) => e.id[1] = "answer" /\ e.call = None /\ e # root
         /\ TrIsTool(e, E, f, root, A, C, R) =>
              e.id[1] \in {"tool", "again"} /\ e.call # None /\ e.message = None /\ e # root
         /\ e.id[1] = "answer" <=> TrIsAnswer(e, f, root, A)
         /\ e.call # None <=> TrIsTool(e, E, f, root, A, C, R)
         /\ e.id[1] = "tool" => TrIsTool(e, E, f, root, A, C, R) /\ TrFirstTool(e, R)
         /\ e.id[1] \in {"turn", "agent"} => e = root
<1>1. e = root => e.id[1] \in {"turn", "agent"} /\ e.call = None /\ e.message = None
  BY DEF TrGot, TrIsRoot
<1>2. TrIsAnswer(e, f, root, A) => e.id[1] = "answer" /\ e.call = None
  BY DEF TrIsAnswer
<1>3. TrIsTool(e, E, f, root, A, C, R) =>
        /\ e.id[1] \in {"tool", "again"} /\ e.call # None /\ e.message = None
        /\ e.id[1] = "tool" => TrFirstTool(e, R)
  BY DEF TrIsTool, TrFirstTool, TrOtherTool
<1>4. e = root \/ TrIsAnswer(e, f, root, A) \/ TrIsTool(e, E, f, root, A, C, R)
  BY DEF TrGot
<1> QED
  BY <1>1, <1>2, <1>3, <1>4

(* A tool stays one while the rest grows.                                  *)
TrKept(E, D) == \A x \in E : \E y \in D : y.id = x.id /\ x.lines \subseteq y.lines

LEMMA TrToolKept ==
  ASSUME NEW E, NEW D, TrKept(E, D), NEW f, NEW root, NEW A, NEW B, A \subseteq B,
         NEW C, NEW K, C \subseteq K, NEW R, NEW e, TrIsTool(e, E, f, root, A, C, R)
  PROVE  TrIsTool(e, D, f, root, B, K, R)
<1>1. TrBelow(e, D, root, K)
  <2>1. CASE e.lines = {} /\ e.parent = root.id
    BY <2>1 DEF TrBelow
  <2>2. ASSUME NEW i \in C, e.lines = {i}, world.log[i].call = e.call,
               NEW a \in E, a.id[1] = "answer", i \in a.lines, e.parent = a.id
        PROVE  TrBelow(e, D, root, K)
    <3>1. PICK b \in D : b.id = a.id /\ a.lines \subseteq b.lines
      BY <2>2 DEF TrKept
    <3>2. b.id[1] = "answer" /\ i \in b.lines /\ e.parent = b.id /\ i \in K
      BY <2>2, <3>1
    <3> QED
      BY <2>2, <3>2 DEF TrBelow
  <2> QED
    BY <2>1, <2>2 DEF TrIsTool, TrBelow
<1>2. TrOtherTool(e, E, f) => TrOtherTool(e, D, f)
  BY DEF TrOtherTool, TrKept
<1>3. \E i \in B \cup R : world.log[i].call = e.call
  BY DEF TrIsTool
<1> QED
  BY <1>1, <1>2, <1>3 DEF TrIsTool

(* An answer more: an event of its own,                                    *)
LEMMA TrNewAnswer ==
  ASSUME TrLog, NEW ev, NEW f, NEW root, NEW A, NEW C, NEW R, TrPart(ev, f, root, A, C, R),
         NEW i \in TrOfFile(f, TRUE), i \notin A, NEW e \in TrEvents,
         e.id = <<"answer", f, i>>, e.parent = root.id, e.call = None, e.message = world.log[i].message,
         e.usage = world.log[i].usage, e.file = f, e.lines = {i},
         e.message # None => \A x \in Elems(ev) : x.message # e.message
  PROVE  TrPart(Append(ev, e), f, root, A \cup {i}, C, R)
<1> DEFINE E == Elems(ev)
           D == E \cup {e}
           B == A \cup {i}
<1>1. TrTree(ev) /\ ev[1] = root /\ TrGot(E, f, root, A, C, R)
  BY DEF TrPart
<1>2. \A x \in E : x = root \/ TrIsAnswer(x, f, root, A) \/ TrIsTool(x, E, f, root, A, C, R)
  BY <1>1 DEF TrGot
<1>3. \A x \in E : x.id # e.id
  <2> SUFFICES ASSUME NEW x \in E, x.id = e.id
               PROVE  FALSE
    OBVIOUS
  <2>1. x.id[1] = "answer"
    OBVIOUS
  <2>2. TrIsAnswer(x, f, root, A)
    BY <1>1, <2>1, TrKinds
  <2>3. PICK j \in x.lines : x.id = <<"answer", f, j>>
    BY <2>2 DEF TrIsAnswer
  <2>4. j \in A /\ j = i
    BY <2>2, <2>3 DEF TrIsAnswer
  <2> QED
    BY <2>4
<1>4. root \in E /\ e.id[1] = "answer"
  BY <1>1 DEF TrGot
<1> HIDE DEF E, D, B
<1>5. TrTree(Append(ev, e)) /\ Elems(Append(ev, e)) = D /\ Append(ev, e)[1] = root
  BY <1>1, <1>3, <1>4, TrAppend DEF E, D
<1>6. TrIsAnswer(e, f, root, B)
  <2>1. world.log[i].usage <= e.usage
    <3>1. world.log[i].usage \in Nat
      BY TrLines DEF TrOfFile
    <3> QED
      BY <3>1
  <2>2. i \in e.lines /\ i \in B /\ e.lines \subseteq B
    BY DEF B
  <2>3. e.message # None => \A j \in B : world.log[j].message = e.message => j \in e.lines
    <3> SUFFICES ASSUME e.message # None, NEW j \in A, world.log[j].message = e.message
                 PROVE  FALSE
      BY DEF B
    <3>1. PICK x \in E : x.id[1] = "answer" /\ j \in x.lines
      BY <1>1 DEF TrGot, TrCovered
    <3>2. TrIsAnswer(x, f, root, A)
      BY <1>1, <3>1, TrKinds
    <3>3. x.message = e.message
      BY <3>1, <3>2 DEF TrIsAnswer
    <3> QED
      BY <3>3 DEF E
  <2> QED
    BY <2>1, <2>2, <2>3 DEF TrIsAnswer
<1>7. ASSUME NEW x \in E, TrIsAnswer(x, f, root, A)
      PROVE  TrIsAnswer(x, f, root, B)
  <2>1. x.message # None => x.message # world.log[i].message
    BY DEF E
  <2> QED
    BY <1>7, <2>1 DEF TrIsAnswer, B
<1>8. ASSUME NEW x, TrIsTool(x, E, f, root, A, C, R)
      PROVE  TrIsTool(x, D, f, root, B, C, R)
  <2>1. TrKept(E, D) /\ A \subseteq B /\ C \subseteq C
    BY DEF TrKept, D, B
  <2> QED
    BY <1>8, <2>1, TrToolKept
<1>9. TrCovered(D, B, C, R)
  <2>1. TrCovered(E, A, C, R) /\ C \subseteq A
    BY <1>1 DEF TrGot
  <2>2. \A j \in B : \E x \in D : x.id[1] = "answer" /\ j \in x.lines
    BY <1>4, <2>1 DEF TrCovered, D, B
  <2>3. \A x \in E : x.id[1] = "answer" => i \notin x.lines
    BY <1>1, TrKinds DEF TrIsAnswer
  <2>4. \A x, y \in D : \A j \in B :
          x.id[1] = "answer" /\ y.id[1] = "answer" /\ j \in x.lines /\ j \in y.lines => x = y
    BY <2>1, <2>3 DEF TrCovered, D, B
  <2> QED
    BY <2>1, <2>2, <2>4 DEF TrCovered, D
<1>10. TrGot(D, f, root, B, C, R)
  <2>1. root \in D /\ B \subseteq TrOfFile(f, TRUE) /\ C \subseteq B
    BY <1>1 DEF TrGot, D, B
  <2>2. \A x \in D : x.file = f /\ (x = root \/ TrIsAnswer(x, f, root, B) \/ TrIsTool(x, D, f, root, B, C, R))
    BY <1>1, <1>2, <1>6, <1>7, <1>8 DEF TrGot, D
  <2> QED
    BY <1>1, <1>9, <2>1, <2>2 DEF TrGot
<1> QED
  BY <1>5, <1>10 DEF TrPart, B

(* or a continuation of an answer that is there.                           *)
TrMore(a, e, i) ==
  /\ a.message # None /\ a.message = world.log[i].message
  /\ e.id = a.id /\ e.parent = a.parent /\ e.call = a.call /\ e.message = a.message
  /\ e.file = a.file /\ e.lines = a.lines \cup {i}
  /\ e.usage = IF world.log[i].usage > a.usage THEN world.log[i].usage ELSE a.usage

TrGoesOn(ev, f, root, A, C, R, i, k, e) ==
  /\ TrPart(ev, f, root, A, C, R) /\ i \in TrOfFile(f, TRUE) /\ i \notin A
  /\ k \in DOMAIN ev /\ e \in TrEvents /\ TrMore(ev[k], e, i)

LEMMA TrMoreAnswer ==
  ASSUME TrLog, NEW ev, NEW f, NEW root, NEW A, NEW C, NEW R, NEW i, NEW k, NEW e,
         TrGoesOn(ev, f, root, A, C, R, i, k, e)
  PROVE  TrPart([ev EXCEPT ![k] = e], f, root, A \cup {i}, C, R) /\ e.id[1] = "answer"
<1> USE DEF TrMore
<1>0. /\ TrPart(ev, f, root, A, C, R) /\ i \in TrOfFile(f, TRUE) /\ i \notin A
      /\ k \in DOMAIN ev /\ e \in TrEvents /\ TrMore(ev[k], e, i)
  BY DEF TrGoesOn
<1> USE <1>0
<1> DEFINE E == Elems(ev)
           a == ev[k]
           D == (E \ {a}) \cup {e}
           B == A \cup {i}
<1>1. TrTree(ev) /\ ev[1] = root /\ TrGot(E, f, root, A, C, R)
  BY DEF TrPart
<1>2. \A x \in E : x = root \/ TrIsAnswer(x, f, root, A) \/ TrIsTool(x, E, f, root, A, C, R)
  BY <1>1 DEF TrGot
<1>3. a \in E /\ E \subseteq TrEvents
  BY <1>1, TrSeq DEF Elems
<1>4. /\ TrTree([ev EXCEPT ![k] = e]) /\ Elems([ev EXCEPT ![k] = e]) = D
      /\ DOMAIN [ev EXCEPT ![k] = e] = DOMAIN ev /\ \A l \in DOMAIN ev : l # k => [ev EXCEPT ![k] = e][l] = ev[l]
  BY <1>1, TrReplace
<1> HIDE DEF E, D, B
<1>5. TrIsAnswer(a, f, root, A) /\ a # root /\ a.id[1] = "answer" /\ e.id[1] = "answer"
  <2>1. TrIsAnswer(a, f, root, A)
    BY <1>1, <1>2, <1>3, TrKinds
  <2> QED
    BY <1>1, <1>3, <2>1, TrKinds
<1>6. k # 1 /\ [ev EXCEPT ![k] = e][1] = root
  <2>1. 1 \in DOMAIN ev
    BY <1>1 DEF TrTree
  <2> QED
    BY <1>1, <1>4, <1>5, <2>1
<1>7. i \notin a.lines /\ e.lines \subseteq B /\ a.lines \subseteq e.lines /\ i \in e.lines
  BY <1>5 DEF TrIsAnswer, B
<1>8. TrIsAnswer(e, f, root, B)
  <2>1. \E j \in e.lines : e.usage = world.log[j].usage
    BY <1>5, <1>7 DEF TrIsAnswer
  <2>2. \A j \in e.lines : world.log[j].usage <= e.usage
    <3>1. a.usage \in Nat /\ world.log[i].usage \in Nat /\ \A j \in e.lines : world.log[j].usage \in Nat
      <4>1. A \subseteq DOMAIN world.log /\ i \in DOMAIN world.log
        BY <1>1 DEF TrGot, TrOfFile
      <4>2. \A j \in B : world.log[j].usage \in Nat
        BY <4>1, TrLines DEF B
      <4>3. a.usage \in Nat
        BY <1>3 DEF TrEvents
      <4> QED
        BY <1>7, <4>2, <4>3
    <3>2. \A j \in a.lines : world.log[j].usage <= a.usage
      BY <1>5 DEF TrIsAnswer
    <3>3. \A j \in e.lines : j \in a.lines \/ j = i
      OBVIOUS
    <3> DEFINE u == a.usage
               w == world.log[i].usage
    <3>4. e.usage = IF w > u THEN w ELSE u
      OBVIOUS
    <3>5. ASSUME NEW j \in e.lines
          PROVE  world.log[j].usage <= e.usage
      <4> DEFINE v == world.log[j].usage
      <4>1. v \in Nat /\ u \in Nat /\ w \in Nat /\ (v <= u \/ v = w)
        BY <3>1, <3>2, <3>3
      <4> HIDE DEF u, w, v
      <4>2. v <= e.usage
        BY <3>4, <4>1
      <4> QED
        BY <4>2 DEF v
    <3> QED
      BY <3>5
  <2>3. e.id \in {<<"answer", f, j>> : j \in e.lines}
    BY <1>5, <1>7 DEF TrIsAnswer
  <2>4. \A j \in e.lines : world.log[j].message = e.message
    BY <1>5 DEF TrIsAnswer
  <2>5. \A j \in B : world.log[j].message = e.message => j \in e.lines
    BY <1>5, <1>7 DEF TrIsAnswer, B
  <2> QED
    BY <1>5, <1>7, <2>1, <2>2, <2>3, <2>4, <2>5 DEF TrIsAnswer
<1>9. \A x \in E : x.message = a.message /\ TrIsAnswer(x, f, root, A) => x = a
  <2> SUFFICES ASSUME NEW x \in E, x.message = a.message, TrIsAnswer(x, f, root, A)
               PROVE  x = a
    OBVIOUS
  <2>1. PICK j \in a.lines : TRUE
    BY <1>5 DEF TrIsAnswer
  <2>2. j \in A /\ world.log[j].message = a.message
    BY <1>5, <2>1 DEF TrIsAnswer
  <2>3. j \in x.lines
    BY <2>2 DEF TrIsAnswer
  <2>4. x.id[1] = "answer"
    BY <1>1, TrKinds
  <2> QED
    BY <1>1, <1>3, <1>5, <2>1, <2>2, <2>3, <2>4 DEF TrGot, TrCovered
<1>10. ASSUME NEW x \in E, x # a, TrIsAnswer(x, f, root, A)
       PROVE  TrIsAnswer(x, f, root, B)
  <2>1. x.message # world.log[i].message
    BY <1>9, <1>10
  <2> QED
    BY <1>10, <2>1 DEF TrIsAnswer, B
<1>11. TrKept(E, D)
  BY <1>7 DEF TrKept, D
<1>12. ASSUME NEW x, TrIsTool(x, E, f, root, A, C, R)
       PROVE  TrIsTool(x, D, f, root, B, C, R)
  <2>1. A \subseteq B /\ C \subseteq C
    BY DEF B
  <2> QED
    BY <1>11, <1>12, <2>1, TrToolKept
<1>13. TrCovered(D, B, C, R)
  <2>1. TrCovered(E, A, C, R) /\ C \subseteq A
    BY <1>1 DEF TrGot
  <2>2. \A x \in E : x.id[1] = "answer" => i \notin x.lines
    BY <1>1, TrKinds DEF TrIsAnswer
  <2>3. \A j \in B : \E x \in D : x.id[1] = "answer" /\ j \in x.lines
    BY <1>5, <1>7, <2>1 DEF TrCovered, D, B
  <2>4. \A x \in E : \A j \in A : x.id[1] = "answer" /\ j \in x.lines /\ j \in e.lines => x = a
    BY <1>3, <1>5, <2>1, <2>2 DEF TrCovered
  <2>5. \A x, y \in D : \A j \in B :
          x.id[1] = "answer" /\ y.id[1] = "answer" /\ j \in x.lines /\ j \in y.lines => x = y
    <3> SUFFICES ASSUME NEW x \in D, NEW y \in D, NEW j \in B, x.id[1] = "answer", y.id[1] = "answer",
                        j \in x.lines, j \in y.lines, x # y
                 PROVE  FALSE
      OBVIOUS
    <3>1. CASE x = e
      <4>1. y \in E /\ y # a
        BY <3>1 DEF D
      <4>2. j \in A
        BY <2>2, <4>1 DEF B
      <4> QED
        BY <2>4, <3>1, <4>1, <4>2
    <3>2. CASE y = e
      <4>1. x \in E /\ x # a
        BY <3>2 DEF D
      <4>2. j \in A
        BY <2>2, <4>1 DEF B
      <4> QED
        BY <2>4, <3>2, <4>1, <4>2
    <3>3. CASE x # e /\ y # e
      <4>1. x \in E /\ y \in E
        BY <3>3 DEF D
      <4>2. j \in A
        BY <2>2, <4>1 DEF B
      <4> QED
        BY <2>1, <4>1, <4>2 DEF TrCovered
    <3> QED
      BY <3>1, <3>2, <3>3
  <2>6. \A j \in C : \E x \in D : x.call # None /\ x.lines = {j}
    BY <1>5, <2>1 DEF TrCovered, D, TrIsAnswer
  <2>7. \A j \in R : \E x \in D : x.id = <<"tool", MainFile, world.log[j].call>>
    <3> SUFFICES ASSUME NEW j \in R
                 PROVE  \E x \in D : x.id = <<"tool", MainFile, world.log[j].call>>
      OBVIOUS
    <3>1. PICK x \in E : x.id = <<"tool", MainFile, world.log[j].call>>
      BY <2>1 DEF TrCovered
    <3>2. PICK y \in D : y.id = x.id
      BY <1>11 DEF TrKept
    <3> QED
      BY <3>1, <3>2
  <2> QED
    BY <2>3, <2>5, <2>6, <2>7 DEF TrCovered
<1>14. TrGot(D, f, root, B, C, R)
  <2>1. root \in D /\ B \subseteq TrOfFile(f, TRUE) /\ C \subseteq B
    BY <1>1, <1>5 DEF TrGot, D, B
  <2>2. \A x \in D : x.file = f /\ (x = root \/ TrIsAnswer(x, f, root, B) \/ TrIsTool(x, D, f, root, B, C, R))
    BY <1>1, <1>2, <1>3, <1>8, <1>10, <1>12 DEF TrGot, D
  <2> QED
    BY <1>1, <1>13, <2>1, <2>2 DEF TrGot
<1> QED
  BY <1>4, <1>5, <1>6, <1>14 DEF TrPart, B

LEMMA TrToolOf ==
  ASSUME NEW E, NEW f, NEW root, NEW A, NEW C, NEW R, TrGot(E, f, root, A, C, R)
  PROVE  /\ \A e \in E : \A c : e.id = <<"tool", MainFile, c>> =>
              e.call = c /\ TrIsTool(e, E, f, root, A, C, R) /\ TrFirstTool(e, R)
         /\ \A i \in R : \E e \in E : e.call = world.log[i].call /\ e.id = <<"tool", MainFile, world.log[i].call>>
         /\ \A e \in E : e.call # None => \E d \in E : d.id = <<"tool", MainFile, e.call>> /\ d.call = e.call
         /\ \A e \in E : \A i : e.id = <<"again", f, i>> => i \in C
         /\ \A e \in E : e.call # None => (e.lines = {} \/ \E i \in C : e.lines = {i} /\ world.log[i].call = e.call)
<1>1. ASSUME NEW e \in E, NEW c, e.id = <<"tool", MainFile, c>>
      PROVE  e.call = c /\ TrIsTool(e, E, f, root, A, C, R) /\ TrFirstTool(e, R)
  <2>1. e.id[1] = "tool"
    BY <1>1
  <2>2. TrIsTool(e, E, f, root, A, C, R) /\ TrFirstTool(e, R)
    BY <2>1, TrKinds
  <2> QED
    BY <1>1, <2>2 DEF TrFirstTool
<1>2. ASSUME NEW i \in R
      PROVE  \E e \in E : e.call = world.log[i].call /\ e.id = <<"tool", MainFile, world.log[i].call>>
  <2>1. PICK e \in E : e.id = <<"tool", MainFile, world.log[i].call>>
    BY DEF TrGot, TrCovered
  <2> QED
    BY <1>1, <2>1
<1>3. ASSUME NEW e \in E, e.call # None
      PROVE  /\ \E d \in E : d.id = <<"tool", MainFile, e.call>> /\ d.call = e.call
             /\ e.lines = {} \/ \E i \in C : e.lines = {i} /\ world.log[i].call = e.call
  <2>1. TrIsTool(e, E, f, root, A, C, R)
    BY <1>3, TrKinds
  <2>2. PICK d \in E : d.id = <<"tool", MainFile, e.call>>
    BY <2>1 DEF TrIsTool, TrFirstTool, TrOtherTool
  <2>3. d.call = e.call
    BY <1>1, <2>2
  <2> QED
    BY <2>1, <2>2, <2>3 DEF TrIsTool, TrBelow
<1>4. ASSUME NEW e \in E, NEW i, e.id = <<"again", f, i>>
      PROVE  i \in C
  <2>1. e.id[1] = "again"
    BY <1>4
  <2>2. TrIsTool(e, E, f, root, A, C, R)
    <3>1. e = root \/ TrIsAnswer(e, f, root, A) \/ TrIsTool(e, E, f, root, A, C, R)
      BY DEF TrGot
    <3> QED
      BY <2>1, <3>1, TrKinds
  <2>3. ~TrFirstTool(e, R)
    BY <2>1 DEF TrFirstTool
  <2>4. PICK j : e.lines = {j} /\ e.id = <<"again", f, j>>
    BY <2>2, <2>3 DEF TrIsTool, TrOtherTool
  <2>5. i = j
    BY <1>4, <2>4
  <2>6. e.lines = {} \/ \E l \in C : e.lines = {l}
    BY <2>2 DEF TrIsTool, TrBelow
  <2> QED
    BY <2>4, <2>5, <2>6
<1> QED
  BY <1>1, <1>2, <1>3, <1>4

(* A call more: a tool below its answer.                                   *)
LEMMA TrNewTool ==
  ASSUME TrLog, NEW ev, NEW f, NEW root, NEW A, NEW C, NEW R, TrPart(ev, f, root, A, C, R),
         NEW i \in A, i \notin C, world.log[i].call # None,
         NEW a \in Elems(ev), a.id[1] = "answer", i \in a.lines, NEW e \in TrEvents,
         e.parent = a.id, e.call = world.log[i].call, e.message = None, e.file = f, e.lines = {i},
         e.result = None, e.agent = None,
         e.id = IF \E x \in Elems(ev) : x.call = world.log[i].call
                THEN <<"again", f, i>> ELSE <<"tool", MainFile, world.log[i].call>>
  PROVE  TrPart(Append(ev, e), f, root, A, C \cup {i}, R)
<1> DEFINE E == Elems(ev)
           D == E \cup {e}
           K == C \cup {i}
           again == \E x \in E : x.call = e.call
<1>1. TrTree(ev) /\ ev[1] = root /\ TrGot(E, f, root, A, C, R)
  BY DEF TrPart
<1>2. \A x \in E : x = root \/ TrIsAnswer(x, f, root, A) \/ TrIsTool(x, E, f, root, A, C, R)
  BY <1>1 DEF TrGot
<1>3. e.id = IF again THEN <<"again", f, i>> ELSE <<"tool", MainFile, e.call>>
  OBVIOUS
<1>4. \A x \in E : x.id # e.id
  <2> HIDE DEF E
  <2>1. CASE again
    BY <1>1, <1>3, <2>1, TrToolOf
  <2>2. CASE ~again
    BY <1>1, <1>3, <2>2, TrToolOf
  <2> QED
    BY <2>1, <2>2
<1>5. e.id[1] = "tool" => \A x \in E : x.call # e.call
  BY <1>3
<1>6. a \in E
  OBVIOUS
<1> HIDE DEF E, D, K
<1>7. TrTree(Append(ev, e)) /\ Elems(Append(ev, e)) = D /\ Append(ev, e)[1] = root
  <2>1. \E x \in E : x.id = e.parent
    BY <1>6
  <2> QED
    BY <1>1, <1>4, <1>5, <2>1, TrAppend DEF E, D
<1>8. A \subseteq A /\ C \subseteq K /\ TrKept(E, D) /\ E \subseteq D
  BY DEF K, D, TrKept
<1>9. TrBelow(e, D, root, K)
  <2>1. i \in K /\ a \in D
    BY <1>6 DEF K, D
  <2> QED
    BY <2>1 DEF TrBelow
<1>10. TrFirstTool(e, R) \/ TrOtherTool(e, D, f)
  <2>1. CASE again
    <3>1. PICK x \in E : x.call = e.call /\ x.call # None
      BY <2>1
    <3>2. \A y \in E : y.call # None => \E d \in E : d.id = <<"tool", MainFile, y.call>> /\ d.call = y.call
      BY <1>1, TrToolOf, Zenon
    <3>3. \E d \in E : d.id = <<"tool", MainFile, e.call>>
      BY <3>1, <3>2
    <3> QED
      BY <1>3, <1>8, <2>1, <3>3 DEF TrOtherTool
  <2>2. CASE ~again
    <3>1. \A j \in R : world.log[j].call # e.call
      BY <1>1, <2>2, TrToolOf
    <3> QED
      BY <1>3, <2>2, <3>1 DEF TrFirstTool
  <2> QED
    BY <2>1, <2>2
<1>11. TrIsTool(e, D, f, root, A, K, R)
  BY <1>9, <1>10 DEF TrIsTool
<1>12. \A x : TrIsTool(x, E, f, root, A, C, R) => TrIsTool(x, D, f, root, A, K, R)
  BY <1>8, TrToolKept
<1>13. TrCovered(D, A, K, R)
  <2>1. TrCovered(E, A, C, R) /\ e.id[1] # "answer"
    BY <1>1, <1>3 DEF TrGot
  <2>2. \A j \in K : \E x \in D : x.call # None /\ x.lines = {j}
    BY <2>1 DEF TrCovered, D, K
  <2> QED
    BY <2>1, <2>2 DEF TrCovered, D
<1>14. TrGot(D, f, root, A, K, R)
  <2>1. root \in D /\ K \subseteq A
    BY <1>1 DEF TrGot, D, K
  <2>2. \A x \in D : x.file = f /\ (x = root \/ TrIsAnswer(x, f, root, A) \/ TrIsTool(x, D, f, root, A, K, R))
    BY <1>1, <1>2, <1>11, <1>12 DEF TrGot, D
  <2> QED
    BY <1>1, <1>13, <2>1, <2>2 DEF TrGot
<1> QED
  BY <1>7, <1>14 DEF TrPart, K

(* A result more, of a call without a tool:                                *)
LEMMA TrLateTool ==
  ASSUME TrLog, NEW ev, NEW f, NEW root, NEW A, NEW C, NEW R, TrPart(ev, f, root, A, C, R),
         NEW i \in TrOfFile(f, FALSE), \A x \in Elems(ev) : x.call # world.log[i].call, NEW e \in TrEvents,
         e.id = <<"tool", MainFile, world.log[i].call>>, e.parent = root.id, e.call = world.log[i].call,
         e.message = None, e.file = f, e.lines = {}, e.result = i, e.agent = world.log[i].agent
  PROVE  TrPart(Append(ev, e), f, root, A, C, R \cup {i})
<1> DEFINE E == Elems(ev)
           D == E \cup {e}
           Q == R \cup {i}
<1>1. TrTree(ev) /\ ev[1] = root /\ TrGot(E, f, root, A, C, R)
  BY DEF TrPart
<1>2. \A x \in E : x = root \/ TrIsAnswer(x, f, root, A) \/ TrIsTool(x, E, f, root, A, C, R)
  BY <1>1 DEF TrGot
<1>3. \A x \in E : x.id # e.id /\ x.call # e.call
  <2> HIDE DEF E
  <2>1. \A x \in E : x.id = e.id => x.call = e.call
    BY <1>1, TrToolOf
  <2> QED
    BY <2>1 DEF E
<1>4. root \in E /\ e.call # None
  BY <1>1 DEF TrGot, TrLog, TrOfFile
<1> HIDE DEF E, D, Q
<1>5. TrTree(Append(ev, e)) /\ Elems(Append(ev, e)) = D /\ Append(ev, e)[1] = root
  <2>1. \E x \in E : x.id = e.parent
    BY <1>4
  <2> QED
    BY <1>1, <1>3, <2>1, TrAppend DEF E, D
<1>6. TrKept(E, D) /\ E \subseteq D
  BY DEF D, TrKept
<1>7. i \in Nat /\ i <= i
  BY TrLines DEF TrOfFile
<1>8. \A j \in R : world.log[j].call # e.call
  BY <1>1, <1>3, TrToolOf
<1>9. TrIsTool(e, D, f, root, A, C, Q)
  <2>1. TrBelow(e, D, root, C)
    BY DEF TrBelow
  <2>2. TrFirstTool(e, Q)
    BY <1>7, <1>8 DEF TrFirstTool, Q
  <2>3. i \in Q
    BY DEF Q
  <2> QED
    BY <1>4, <2>1, <2>2, <2>3 DEF TrIsTool
<1>10. ASSUME NEW x \in E, TrIsTool(x, E, f, root, A, C, R)
       PROVE  TrIsTool(x, D, f, root, A, C, Q)
  <2>1. TrIsTool(x, D, f, root, A, C, R)
    <3>1. A \subseteq A /\ C \subseteq C
      OBVIOUS
    <3> QED
      BY <1>6, <1>10, <3>1, TrToolKept
  <2>2. TrFirstTool(x, R) => TrFirstTool(x, Q)
    BY <1>3 DEF TrFirstTool, Q
  <2> QED
    BY <2>1, <2>2 DEF TrIsTool, Q
<1>11. TrCovered(D, A, C, Q)
  <2>1. TrCovered(E, A, C, R)
    BY <1>1 DEF TrGot
  <2> QED
    BY <2>1 DEF TrCovered, D, Q
<1>12. TrGot(D, f, root, A, C, Q)
  <2>1. root \in D /\ Q \subseteq TrOfFile(f, FALSE)
    BY <1>1 DEF TrGot, D, Q
  <2>2. \A x \in D : x.file = f /\ (x = root \/ TrIsAnswer(x, f, root, A) \/ TrIsTool(x, D, f, root, A, C, Q))
    BY <1>1, <1>2, <1>9, <1>10 DEF TrGot, D
  <2> QED
    BY <1>1, <1>11, <2>1, <2>2 DEF TrGot
<1> QED
  BY <1>5, <1>12 DEF TrPart, Q

(* or of one that has tools, the first of which it is for.                 *)
LEMMA TrSetResult ==
  ASSUME TrLog, NEW ev, NEW f, NEW root, NEW A, NEW C, NEW R, TrPart(ev, f, root, A, C, R),
         NEW i \in TrOfFile(f, FALSE), \A j \in R : j < i, NEW k \in DOMAIN ev, NEW e \in TrEvents,
         ev[k].id = <<"tool", MainFile, world.log[i].call>>,
         e.id = ev[k].id, e.parent = ev[k].parent, e.call = ev[k].call, e.message = ev[k].message,
         e.file = ev[k].file, e.lines = ev[k].lines, e.usage = ev[k].usage,
         e.result = i, e.agent = world.log[i].agent
  PROVE  TrPart([ev EXCEPT ![k] = e], f, root, A, C, R \cup {i})
<1> DEFINE E == Elems(ev)
           b == ev[k]
           D == (E \ {b}) \cup {e}
           Q == R \cup {i}
<1>1. TrTree(ev) /\ ev[1] = root /\ TrGot(E, f, root, A, C, R)
  BY DEF TrPart
<1>2. \A x \in E : x = root \/ TrIsAnswer(x, f, root, A) \/ TrIsTool(x, E, f, root, A, C, R)
  BY <1>1 DEF TrGot
<1>3. b \in E /\ b.id = <<"tool", MainFile, world.log[i].call>>
  BY DEF Elems
<1>4. /\ TrTree([ev EXCEPT ![k] = e]) /\ Elems([ev EXCEPT ![k] = e]) = D
      /\ DOMAIN [ev EXCEPT ![k] = e] = DOMAIN ev /\ \A l \in DOMAIN ev : l # k => [ev EXCEPT ![k] = e][l] = ev[l]
  BY <1>1, TrReplace
<1> HIDE DEF E, D, Q
<1>5. b.call = world.log[i].call /\ TrIsTool(b, E, f, root, A, C, R) /\ TrFirstTool(b, R)
  BY <1>1, <1>3, TrToolOf
<1>6. b # root /\ e.id[1] = "tool" /\ b.id[1] = "tool"
  BY <1>1, <1>3, <1>5, TrKinds
<1>7. k # 1 /\ [ev EXCEPT ![k] = e][1] = root
  <2>1. 1 \in DOMAIN ev
    BY <1>1 DEF TrTree
  <2> QED
    BY <1>1, <1>4, <1>6, <2>1
<1>8. TrKept(E, D)
  BY DEF TrKept, D
<1>9. ASSUME NEW x, TrIsTool(x, E, f, root, A, C, R)
      PROVE  TrIsTool(x, D, f, root, A, C, R)
  <2>1. A \subseteq A /\ C \subseteq C
    OBVIOUS
  <2> QED
    BY <1>8, <1>9, <2>1, TrToolKept
<1>10. \A x \in E : x.id = b.id => x = b
  <2>1. \A l, m \in DOMAIN ev : ev[l].id = ev[m].id => l = m
    BY <1>1 DEF TrTree, TrPlaces
  <2> QED
    BY <2>1 DEF E, Elems
<1>11. i \in Nat /\ R \subseteq Nat /\ i <= i /\ \A j \in R : j <= i
  <2>1. i \in Nat /\ R \subseteq Nat
    BY <1>1, TrLines DEF TrGot, TrOfFile
  <2> QED
    BY <2>1
<1>12. TrIsTool(e, D, f, root, A, C, Q)
  <2>1. TrIsTool(b, D, f, root, A, C, R)
    BY <1>5, <1>9
  <2>2. TrBelow(e, D, root, C)
    BY <2>1 DEF TrIsTool, TrBelow
  <2>3. TrFirstTool(e, Q)
    BY <1>3, <1>5, <1>11 DEF TrFirstTool, Q
  <2> QED
    BY <2>1, <2>2, <2>3 DEF TrIsTool, Q
<1>13. ASSUME NEW x \in E, x # b, TrIsTool(x, E, f, root, A, C, R)
       PROVE  TrIsTool(x, D, f, root, A, C, Q)
  <2>1. TrIsTool(x, D, f, root, A, C, R)
    BY <1>9, <1>13
  <2>2. TrFirstTool(x, R) => x.call # b.call
    BY <1>3, <1>5, <1>10, <1>13 DEF TrFirstTool
  <2>3. TrFirstTool(x, R) => TrFirstTool(x, Q)
    BY <1>5, <2>2 DEF TrFirstTool, Q
  <2> QED
    BY <2>1, <2>3 DEF TrIsTool, Q
<1>14. TrCovered(D, A, C, Q)
  <2>1. TrCovered(E, A, C, R)
    BY <1>1 DEF TrGot
  <2>2. \A j \in A : \E x \in D : x.id[1] = "answer" /\ j \in x.lines
    BY <1>6, <2>1 DEF TrCovered, D
  <2>3. \A x, y \in D : \A j \in A :
          x.id[1] = "answer" /\ y.id[1] = "answer" /\ j \in x.lines /\ j \in y.lines => x = y
    BY <1>6, <2>1 DEF TrCovered, D
  <2>4. \A j \in C : \E x \in D : x.call # None /\ x.lines = {j}
    BY <2>1 DEF TrCovered, D
  <2>5. \A j \in Q : \E x \in D : x.id = <<"tool", MainFile, world.log[j].call>>
    <3> SUFFICES ASSUME NEW j \in R
                 PROVE  \E x \in D : x.id = <<"tool", MainFile, world.log[j].call>>
      BY <1>3 DEF D, Q
    <3>1. PICK x \in E : x.id = <<"tool", MainFile, world.log[j].call>>
      BY <2>1 DEF TrCovered
    <3>2. PICK y \in D : y.id = x.id
      BY <1>8 DEF TrKept
    <3> QED
      BY <3>1, <3>2
  <2> QED
    BY <2>2, <2>3, <2>4, <2>5 DEF TrCovered
<1>15. TrGot(D, f, root, A, C, Q)
  <2>1. root \in D /\ Q \subseteq TrOfFile(f, FALSE)
    BY <1>1, <1>6 DEF TrGot, D, Q
  <2>2. \A x \in D : x.file = f /\ (x = root \/ TrIsAnswer(x, f, root, A) \/ TrIsTool(x, D, f, root, A, C, Q))
    BY <1>1, <1>2, <1>3, <1>9, <1>12, <1>13 DEF TrGot, D
  <2> QED
    BY <1>1, <1>14, <2>1, <2>2 DEF TrGot
<1> QED
  BY <1>4, <1>7, <1>15 DEF TrPart, Q

-----------------------------------------------------------------------------
(* The tree of a turn: a line more                                         *)

LEMMA TrAppendSet ==
  ASSUME NEW S, NEW q \in Seq(S), NEW x \in S, NEW y \in S
  PROVE  [Append(q, x) EXCEPT ![Len(q) + 1] = y] = Append(q, y)
<1> DEFINE n == Len(q) + 1
<1>1. Len(q) \in Nat /\ DOMAIN q = 1 .. Len(q)
  OBVIOUS
<1>2. /\ Append(q, x) \in Seq(S) /\ Append(q, y) \in Seq(S)
      /\ Len(Append(q, x)) = n /\ Len(Append(q, y)) = n
      /\ Append(q, y)[n] = y /\ \A k \in 1 .. Len(q) : Append(q, x)[k] = q[k] /\ Append(q, y)[k] = q[k]
  OBVIOUS
<1>3. /\ Append(q, x) = [k \in 1 .. n |-> Append(q, x)[k]]
      /\ Append(q, y) = [k \in 1 .. n |-> Append(q, y)[k]]
  <2>1. \A p \in Seq(S) : p = [k \in 1 .. Len(p) |-> p[k]]
    OBVIOUS
  <2> QED
    BY <1>2, <2>1, Zenon
<1>4. \A k \in 1 .. n : k = n \/ k \in 1 .. Len(q)
  BY <1>1
<1> HIDE DEF n
<1>5. \A k \in 1 .. n : [Append(q, x) EXCEPT ![n] = y][k] = Append(q, y)[k]
  BY <1>2, <1>3, <1>4
<1>6. [Append(q, x) EXCEPT ![n] = y] = [k \in 1 .. n |-> [Append(q, x) EXCEPT ![n] = y][k]]
  BY <1>3
<1> QED
  BY <1>3, <1>5, <1>6 DEF n

LEMMA TrFirstOf ==
  ASSUME NEW T \in SUBSET Nat, T # {}
  PROVE  Tr!First(T) \in T /\ \A l \in T : Tr!First(T) <= l
<1>1. \E k \in T : \A l \in T : k <= l
  BY LeastNumber
<1> QED
  BY <1>1 DEF Tr!First

(* What the model makes of a record: an answer,                            *)
LEMMA TrMadeAnswer ==
  ASSUME NEW f \in Tr!Files, NEW i \in Nat, NEW m \in TrMaybe, NEW pid \in Tr!EventIds,
         NEW r, r.usage \in Nat
  PROVE  LET n == [Tr!Event("answer", f, i, pid) EXCEPT !.message = m]
             e == Tr!Extended(n, i, r) IN
         /\ n \in TrEvents /\ e \in TrEvents
         /\ e.id = <<"answer", f, i>> /\ e.parent = pid /\ e.call = None
         /\ e.message = m /\ e.usage = r.usage /\ e.file = f /\ e.lines = {i}
<1> DEFINE id == <<"answer", f, i>>
           n == [Tr!Event("answer", f, i, pid) EXCEPT !.message = m]
           e == Tr!Extended(n, i, r)
           u == r.usage
           L == {i}
<1>1. id \in Tr!EventIds /\ L \in SUBSET Nat /\ u \in Nat
  BY DEF Tr!EventIds, Tr!Kinds
<1>2. Tr!Event("answer", f, i, pid)
        = [id |-> id, parent |-> pid, call |-> None, message |-> None, usage |-> 0,
           file |-> f, lines |-> {}, result |-> None, agent |-> None]
  BY DEF Tr!Event
<1> HIDE DEF id
<1>3. n = [id |-> id, parent |-> pid, call |-> None, message |-> m, usage |-> 0,
           file |-> f, lines |-> {}, result |-> None, agent |-> None]
  BY <1>2
<1> HIDE DEF n
<1>4. n.lines \cup {i} = L /\ (IF r.usage > n.usage THEN r.usage ELSE n.usage) = u
  BY <1>3
<1>5. e = [n EXCEPT !.lines = n.lines \cup {i}, !.usage = IF r.usage > n.usage THEN r.usage ELSE n.usage]
  BY DEF Tr!Extended
<1>6. e = [n EXCEPT !.lines = L, !.usage = u]
  BY <1>4, <1>5
<1> HIDE DEF e, L, u
<1>7. e = [id |-> id, parent |-> pid, call |-> None, message |-> m, usage |-> u,
           file |-> f, lines |-> L, result |-> None, agent |-> None]
  BY <1>3, <1>6
<1>8. n \in TrEvents /\ e \in TrEvents
  BY <1>1, <1>3, <1>7 DEF TrEvents, TrMaybe
<1>9. e.id = id /\ e.parent = pid /\ e.call = None /\ e.message = m /\ e.usage = u /\ e.file = f /\ e.lines = L
  BY <1>7
<1> QED
  BY <1>8, <1>9 DEF n, e, id, L, u

(* and a tool, of an answer or of a result that comes without one.         *)
LEMMA TrMadeTool ==
  ASSUME NEW f \in Tr!Files, NEW i \in Nat, NEW c \in Nat, NEW pid \in Tr!EventIds, NEW events
  PROVE  LET t == Tr!Tool(events, f, i, c, pid) IN
         /\ t \in TrEvents
         /\ t.id = IF Tr!ToolsOf(events, c) = {} THEN <<"tool", MainFile, c>> ELSE <<"again", f, i>>
         /\ t.parent = pid /\ t.call = c /\ t.message = None /\ t.file = f /\ t.lines = {i}
         /\ t.result = None /\ t.agent = None
<1> DEFINE id == IF Tr!ToolsOf(events, c) = {} THEN <<"tool", MainFile, c>> ELSE <<"again", f, i>>
           old == <<"tool", f, i>>
           t == Tr!Tool(events, f, i, c, pid)
           L == {i}
<1>1. id \in Tr!EventIds /\ L \in SUBSET Nat
  BY DEF Tr!EventIds, Tr!Kinds, Tr!Files
<1>2. Tr!Event("tool", f, i, pid)
        = [id |-> old, parent |-> pid, call |-> None, message |-> None, usage |-> 0,
           file |-> f, lines |-> {}, result |-> None, agent |-> None]
  BY DEF Tr!Event
<1> DEFINE b == Tr!Event("tool", f, i, pid)
<1>3. t = [b EXCEPT !.id = id, !.call = c, !.lines = L]
  BY DEF Tr!Tool
<1>4. b = [id |-> old, parent |-> pid, call |-> None, message |-> None, usage |-> 0,
           file |-> f, lines |-> {}, result |-> None, agent |-> None]
  BY <1>2 DEF b
<1> HIDE DEF id, t, L, old, b
<1>10. t = [id |-> id, parent |-> pid, call |-> c, message |-> None, usage |-> 0,
           file |-> f, lines |-> L, result |-> None, agent |-> None]
  BY <1>3, <1>4
<1>5. t \in TrEvents
  BY <1>1, <1>10 DEF TrEvents, TrMaybe
<1>6. /\ t.id = id /\ t.parent = pid /\ t.call = c /\ t.message = None /\ t.file = f /\ t.lines = L
      /\ t.result = None /\ t.agent = None
  BY <1>10
<1> QED
  BY <1>5, <1>6 DEF id, t, L

(* An answer: its event, and that of its call.                             *)
LEMMA TrAnswerLine ==
  ASSUME TrLog, NEW ev, NEW f, NEW root, NEW A, NEW C, NEW R, TrPart(ev, f, root, A, C, R),
         NEW i \in TrOfFile(f, TRUE), i \notin A
  PROVE  TrPart(Tr!AddAnswer(ev, f, i, world.log[i]), f, root, A \cup {i},
                IF world.log[i].call = None THEN C ELSE C \cup {i}, R)
<1> DEFINE r == world.log[i]
           models == Tr!ModelsOf(ev, r.message)
           at == IF models = {} THEN Len(ev) + 1 ELSE Tr!First(models)
           new == [Tr!Event("answer", f, i, ev[1].id) EXCEPT !.message = r.message]
           more == IF models = {} THEN Append(ev, new) ELSE ev
           s == [more EXCEPT ![at] = Tr!Extended(@, i, r)]
           t == Tr!Tool(s, f, i, r.call, s[at].id)
<1>1. /\ TrTree(ev) /\ ev[1] = root /\ TrGot(Elems(ev), f, root, A, C, R) /\ 1 \in DOMAIN ev
      /\ Len(ev) \in Nat /\ DOMAIN ev = 1 .. Len(ev) /\ \A k \in DOMAIN ev : ev[k] \in TrEvents /\ k \in Nat
      /\ ev \in Seq(TrEvents)
  BY TrSeq DEF TrPart, TrTree
<1>2. /\ i \in Nat /\ f \in Tr!Files /\ r.message \in TrMaybe /\ r.call \in TrMaybe /\ r.usage \in Nat
      /\ r.file = f /\ r.answer
  BY TrLines DEF TrOfFile
<1>3. root.id \in Tr!EventIds
  BY <1>1, Zenon DEF TrEvents
<1>4. /\ TrPart(s, f, root, A \cup {i}, C, R) /\ at \in DOMAIN s
      /\ s[at].id[1] = "answer" /\ i \in s[at].lines /\ s[at] \in TrEvents
  <2>1. CASE models = {}
    <3> DEFINE e == Tr!Extended(new, i, r)
    <3>1. /\ e \in TrEvents /\ e.id = <<"answer", f, i>> /\ e.parent = root.id /\ e.call = None
          /\ e.message = r.message /\ e.usage = r.usage /\ e.file = f /\ e.lines = {i}
          /\ new \in TrEvents
      <4>1. ev[1].id = root.id
        BY <1>1
      <4> HIDE DEF r
      <4> QED
        BY <1>2, <1>3, <4>1, TrMadeAnswer
    <3>2. s = [Append(ev, new) EXCEPT ![Len(ev) + 1] = Tr!Extended(Append(ev, new)[Len(ev) + 1], i, r)]
      BY <2>1
    <3>3. Append(ev, new)[Len(ev) + 1] = new
      <4> HIDE DEF new
      <4> QED
        BY <1>1, <3>1
    <3>4. s = Append(ev, e)
      <4>1. s = [Append(ev, new) EXCEPT ![Len(ev) + 1] = e]
        BY <3>2, <3>3
      <4> HIDE DEF new, e, s
      <4> QED
        BY <1>1, <3>1, <4>1, TrAppendSet
    <3>5. e.message # None => \A x \in Elems(ev) : x.message # e.message
      <4>1. \A k \in DOMAIN ev : r.message # None => ev[k].message # r.message
        BY <2>1 DEF Tr!ModelsOf
      <4> HIDE DEF e, r
      <4> QED
        BY <3>1, <4>1 DEF Elems
    <3> HIDE DEF e, s, new, models
    <3>6. TrPart(Append(ev, e), f, root, A \cup {i}, C, R)
      BY <3>1, <3>5, TrNewAnswer DEF r
    <3>7. at = Len(ev) + 1 /\ at \in DOMAIN s /\ s[at] = e
      BY <1>1, <2>1, <3>1, <3>4
    <3> HIDE DEF at
    <3>8. s[at].id[1] = "answer" /\ i \in s[at].lines /\ s[at] \in TrEvents
      BY <3>1, <3>7
    <3> QED
      BY <3>4, <3>6, <3>7, <3>8
  <2>2. CASE models # {}
    <3>1. models \in SUBSET Nat /\ models \in SUBSET DOMAIN ev
          /\ \A k \in models : ev[k].message = r.message /\ r.message # None
      BY <1>1 DEF Tr!ModelsOf
    <3>2. at = Tr!First(models) /\ at \in models
      <4> HIDE DEF models
      <4> QED
        BY <2>2, <3>1, TrFirstOf
    <3> DEFINE e == Tr!Extended(ev[at], i, r)
    <3>3. s = [ev EXCEPT ![at] = e]
      BY <2>2
    <3> HIDE DEF models, at, s
    <3>4. at \in DOMAIN ev /\ ev[at].message = r.message /\ r.message # None /\ ev[at] \in TrEvents
      BY <1>1, <3>1, <3>2
    <3> DEFINE x == ev[at]
    <3>5. e = [x EXCEPT !.lines = @ \cup {i}, !.usage = IF r.usage > @ THEN r.usage ELSE @]
      BY DEF Tr!Extended
    <3> DEFINE w == IF r.usage > x.usage THEN r.usage ELSE x.usage
               L == x.lines \cup {i}
    <3>6. w \in Nat /\ L \in SUBSET Nat /\ x \in TrEvents
      BY <1>2, <3>4 DEF TrEvents
    <3>7. e = [x EXCEPT !.lines = L, !.usage = w]
      BY <3>5, <3>6 DEF TrEvents
    <3> HIDE DEF w, L, x, e
    <3>8. /\ e \in TrEvents /\ e.id = x.id /\ e.parent = x.parent /\ e.call = x.call /\ e.message = x.message
          /\ e.file = x.file /\ e.lines = L /\ e.usage = w
      BY <3>6, <3>7 DEF TrEvents
    <3>9. TrPart(s, f, root, A \cup {i}, C, R) /\ e.id[1] = "answer"
      <4>1. TrMore(ev[at], e, i)
        BY <3>4, <3>8 DEF x, w, L, TrMore
      <4>2. at \in DOMAIN ev /\ e \in TrEvents /\ i \notin A /\ i \in TrOfFile(f, TRUE)
        BY <3>4, <3>8
      <4>3. TrGoesOn(ev, f, root, A, C, R, i, at, e)
        BY <4>1, <4>2 DEF TrGoesOn
      <4> HIDE DEF r, new, more, t
      <4>4. TrPart([ev EXCEPT ![at] = e], f, root, A \cup {i}, C, R) /\ e.id[1] = "answer"
        BY <4>3, TrMoreAnswer
      <4> QED
        BY <3>3, <4>4
    <3>10. at \in DOMAIN s /\ s[at] = e
      BY <1>1, <3>3, <3>4
    <3>11. i \in s[at].lines
      BY <3>8, <3>10 DEF L
    <3> QED
      BY <3>3, <3>8, <3>9, <3>10, <3>11
  <2> QED
    BY <2>1, <2>2, Zenon
<1>5. Tr!AddAnswer(ev, f, i, r) = IF r.call = None THEN s ELSE Append(s, t)
  BY DEF Tr!AddAnswer
<1> HIDE DEF s, at, models
<1>6. ASSUME r.call # None
      PROVE  TrPart(Append(s, t), f, root, A \cup {i}, C \cup {i}, R)
  <2>1. s[at].id \in Tr!EventIds /\ r.call \in Nat
    BY <1>2, <1>4, <1>6 DEF TrEvents, TrMaybe
  <2>2. /\ t \in TrEvents /\ t.parent = s[at].id /\ t.call = r.call /\ t.message = None /\ t.file = f
        /\ t.lines = {i} /\ t.result = None /\ t.agent = None
        /\ t.id = IF Tr!ToolsOf(s, r.call) = {} THEN <<"tool", MainFile, r.call>> ELSE <<"again", f, i>>
    <3> HIDE DEF r
    <3> QED
      BY <1>2, <2>1, TrMadeTool
  <2>3. Tr!ToolsOf(s, r.call) = {} <=> ~ \E x \in Elems(s) : x.call = r.call
    BY DEF Tr!ToolsOf, Elems
  <2>4. t.id = IF \E x \in Elems(s) : x.call = r.call THEN <<"again", f, i>> ELSE <<"tool", MainFile, r.call>>
    BY <2>2, <2>3
  <2>5. s[at] \in Elems(s)
    BY <1>4 DEF Elems
  <2>6. i \in A \cup {i} /\ i \notin C
    BY <1>1 DEF TrGot
  <2> HIDE DEF t
  <2> QED
    BY <1>4, <1>6, <2>2, <2>4, <2>5, <2>6, TrNewTool DEF r
<1> QED
  BY <1>4, <1>5, <1>6

(* A result: the event of its call.                                        *)
LEMMA TrResultLine ==
  ASSUME TrLog, NEW ev, NEW f, NEW root, NEW A, NEW C, NEW R, TrPart(ev, f, root, A, C, R),
         NEW i \in TrOfFile(f, FALSE), \A j \in R : j < i
  PROVE  TrPart(Tr!AddResult(ev, f, i, world.log[i]), f, root, A, C, R \cup {i})
<1> DEFINE r == world.log[i]
           tools == Tr!ToolsOf(ev, r.call)
           new == [Tr!Tool(ev, f, i, r.call, ev[1].id) EXCEPT !.lines = {}]
           more == IF tools = {} THEN Append(ev, new) ELSE ev
           at == Tr!First(Tr!ToolsOf(more, r.call))
           s == [more EXCEPT ![at] = [@ EXCEPT !.result = i, !.agent = r.agent]]
<1>1. /\ TrTree(ev) /\ ev[1] = root /\ TrGot(Elems(ev), f, root, A, C, R) /\ 1 \in DOMAIN ev
      /\ Len(ev) \in Nat /\ DOMAIN ev = 1 .. Len(ev) /\ \A k \in DOMAIN ev : ev[k] \in TrEvents /\ k \in Nat
      /\ ev \in Seq(TrEvents)
  BY TrSeq DEF TrPart, TrTree
<1>2. /\ i \in Nat /\ f \in Tr!Files /\ r.call \in TrMaybe /\ r.call # None /\ r.call \in Nat
      /\ r.agent \in Tr!SubAgents \cup {None} /\ r.usage \in Nat
  BY TrLines DEF TrOfFile, TrLog, TrMaybe
<1>3. root.id \in Tr!EventIds
  BY <1>1 DEF TrEvents
<1>4. Tr!AddResult(ev, f, i, r) = s
  BY DEF Tr!AddResult
<1>5. CASE tools = {}
  <2> DEFINE e == [new EXCEPT !.result = i, !.agent = r.agent]
  <2>1. /\ new \in TrEvents /\ e \in TrEvents /\ e.parent = root.id /\ e.call = r.call /\ e.message = None
        /\ e.file = f /\ e.lines = {} /\ e.result = i /\ e.agent = r.agent /\ new.call = r.call
        /\ e.id = <<"tool", MainFile, r.call>>
    <3> DEFINE x == Tr!Tool(ev, f, i, r.call, ev[1].id)
               n == r.agent
    <3>1. ev[1].id = root.id
      BY <1>1
    <3>2. /\ x \in TrEvents /\ x.id = <<"tool", MainFile, r.call>> /\ x.parent = root.id /\ x.call = r.call
          /\ x.message = None /\ x.file = f
      <4>1. Tr!ToolsOf(ev, r.call) = {}
        BY <1>5
      <4> DEFINE c == r.call
                 p == ev[1].id
      <4>2. c \in Nat /\ p \in Tr!EventIds
        BY <1>2, <1>3, <3>1
      <4> HIDE DEF c, p
      <4>3. LET t == Tr!Tool(ev, f, i, c, p) IN
            /\ t \in TrEvents
            /\ t.id = IF Tr!ToolsOf(ev, c) = {} THEN <<"tool", MainFile, c>> ELSE <<"again", f, i>>
            /\ t.parent = p /\ t.call = c /\ t.message = None /\ t.file = f
        BY <1>2, <4>2, TrMadeTool
      <4> QED
        BY <3>1, <4>1, <4>3 DEF c, p
    <3>3. new = [x EXCEPT !.lines = {}] /\ e = [new EXCEPT !.result = i, !.agent = n]
      OBVIOUS
    <3>4. n \in Tr!SubAgents \cup {None}
      BY <1>2
    <3> HIDE DEF x, n, new, e
    <3>5. /\ new \in TrEvents /\ new.lines = {} /\ new.call = x.call /\ new.id = x.id
          /\ new.parent = x.parent /\ new.message = x.message /\ new.file = x.file
      BY <3>2, <3>3 DEF TrEvents
    <3>6. i \in TrMaybe
      BY <1>2 DEF TrMaybe
    <3>7. /\ e \in TrEvents /\ e.lines = new.lines /\ e.call = new.call /\ e.id = new.id
          /\ e.parent = new.parent /\ e.message = new.message /\ e.file = new.file
          /\ e.result = i /\ e.agent = n
      BY <3>3, <3>4, <3>5, <3>6 DEF TrEvents
    <3> QED
      BY <3>2, <3>5, <3>7 DEF n
  <2> DEFINE q == Append(ev, new)
  <2>2. more = q /\ at = Tr!First(Tr!ToolsOf(q, r.call))
    BY <1>5
  <2> HIDE DEF new, tools
  <2>3. q[Len(ev) + 1] = new /\ DOMAIN q = 1 .. Len(ev) + 1 /\ \A k \in DOMAIN ev : q[k] = ev[k]
    BY <1>1, <2>1
  <2>4. \A k \in DOMAIN ev : ev[k].call # r.call
    BY <1>5 DEF tools, Tr!ToolsOf
  <2>5. Tr!ToolsOf(q, r.call) = {Len(ev) + 1}
    <3>1. \A k \in DOMAIN q : k \in DOMAIN ev \/ k = Len(ev) + 1
      BY <1>1, <2>3
    <3>2. Len(ev) + 1 \in DOMAIN q
      BY <1>1, <2>3
    <3> HIDE DEF q
    <3> QED
      BY <2>1, <2>3, <2>4, <3>1, <3>2 DEF Tr!ToolsOf
  <2>6. at = Len(ev) + 1
    <3>1. {Len(ev) + 1} \in SUBSET Nat /\ {Len(ev) + 1} # {}
      BY <1>1
    <3>2. Tr!First({Len(ev) + 1}) = Len(ev) + 1
      BY <3>1, TrFirstOf
    <3> QED
      BY <2>2, <2>5, <3>2
  <2>7. s = [q EXCEPT ![Len(ev) + 1] = e]
    BY <2>2, <2>3, <2>6
  <2> HIDE DEF e, s, q
  <2>8. s = Append(ev, e)
    BY <1>1, <2>1, <2>7, TrAppendSet DEF q
  <2>9. \A x \in Elems(ev) : x.call # r.call
    BY <2>4 DEF Elems
  <2>10. TrPart(Append(ev, e), f, root, A, C, R \cup {i})
    BY <2>1, <2>9, TrLateTool DEF r
  <2> QED
    BY <1>4, <2>8, <2>10
<1>6. CASE tools # {}
  <2>1. tools \in SUBSET Nat /\ \A k : k \in tools <=> k \in DOMAIN ev /\ ev[k].call = r.call
    BY <1>1 DEF Tr!ToolsOf
  <2>2. more = ev /\ at = Tr!First(tools)
    BY <1>6
  <2> HIDE DEF tools
  <2>3. at \in DOMAIN ev /\ ev[at].call = r.call /\ \A l \in tools : at <= l
    BY <1>6, <2>1, <2>2, TrFirstOf
  <2>4. PICK d \in Elems(ev) : d.id = <<"tool", MainFile, r.call>> /\ d.call = r.call
    <3>1. ev[at] \in Elems(ev) /\ ev[at].call # None
      BY <1>2, <2>3 DEF Elems
    <3>2. \A x \in Elems(ev) : x.call # None => \E d \in Elems(ev) : d.id = <<"tool", MainFile, x.call>> /\ d.call = x.call
      BY <1>1, TrToolOf, Zenon
    <3>3. ev[at].call = world.log[i].call
      BY <2>3
    <3> HIDE DEF r, at
    <3>4. \E d \in Elems(ev) : d.id = <<"tool", MainFile, ev[at].call>> /\ d.call = ev[at].call
      BY <3>1, <3>2
    <3> QED
      BY <3>3, <3>4 DEF r
  <2>5. PICK p \in DOMAIN ev : d = ev[p]
    BY DEF Elems
  <2>6. p = at
    <3>1. p \in tools
      BY <2>1, <2>4, <2>5
    <3>2. p <= at
      <4>1. ev[p].id[1] = "tool" /\ ev[at].call = ev[p].call
        BY <2>3, <2>4, <2>5
      <4> QED
        BY <1>1, <2>3, <4>1 DEF TrTree, TrPlaces
    <3>3. p \in Nat /\ at \in Nat /\ at <= p
      BY <1>1, <2>3, <3>1
    <3> HIDE DEF at
    <3> QED
      BY <3>2, <3>3
  <2> DEFINE x == ev[at]
             n == r.agent
             e == [x EXCEPT !.result = i, !.agent = n]
  <2>7. s = [ev EXCEPT ![at] = e]
    BY <2>2
  <2>8. x \in TrEvents /\ i \in TrMaybe /\ n \in Tr!SubAgents \cup {None}
    BY <1>1, <1>2, <2>3 DEF TrMaybe
  <2> HIDE DEF x, n, at, s
  <2>9. /\ e \in TrEvents /\ e.id = x.id /\ e.parent = x.parent /\ e.call = x.call /\ e.message = x.message
        /\ e.file = x.file /\ e.lines = x.lines /\ e.usage = x.usage /\ e.result = i /\ e.agent = n
    BY <2>8 DEF TrEvents
  <2> HIDE DEF e
  <2>10. x.id = <<"tool", MainFile, r.call>>
    BY <2>4, <2>5, <2>6 DEF x
  <2>11. TrPart([ev EXCEPT ![at] = e], f, root, A, C, R \cup {i})
    BY <2>3, <2>9, <2>10, TrSetResult DEF x, n, r
  <2> QED
    BY <1>4, <2>7, <2>11
<1> QED
  BY <1>5, <1>6

-----------------------------------------------------------------------------
(* The tree of a turn: the events of a file                                *)

TrUpTo(f, answer, start, n) == {i \in TrOfFile(f, answer) : start < i /\ i <= n}
TrCalls(A) == {i \in A : world.log[i].call # None}

(* What is made of the lines after start and up to n.                      *)
TrAt(ev, f, root, start, n) ==
  TrPart(ev, f, root, TrUpTo(f, TRUE, start, n), TrCalls(TrUpTo(f, TRUE, start, n)),
         TrUpTo(f, FALSE, start, n))

LEMMA TrLine ==
  ASSUME TrLog, NEW ev, NEW f, NEW root, NEW start \in Nat, NEW n \in DOMAIN world.log, start < n,
         TrAt(ev, f, root, start, n - 1)
  PROVE  TrAt(Tr!AddLine(ev, f, n), f, root, start, n)
<1> DEFINE A == TrUpTo(f, TRUE, start, n - 1)
           R == TrUpTo(f, FALSE, start, n - 1)
           B == TrUpTo(f, TRUE, start, n)
           Q == TrUpTo(f, FALSE, start, n)
<1>1. /\ DOMAIN world.log \subseteq Nat /\ n \in Nat
      /\ \A i \in DOMAIN world.log : i \in Nat /\ world.log[i].answer \in BOOLEAN
  BY TrLines
<1>2. TrPart(ev, f, root, A, TrCalls(A), R)
  BY DEF TrAt
<1>3. \A i \in DOMAIN world.log : i <= n <=> i <= n - 1 \/ i = n
  BY <1>1
<1>4. n \notin A /\ \A j \in R : j < n
  BY <1>1 DEF TrUpTo, TrOfFile
<1>5. \A i : i \in B <=> i \in A \/ (i = n /\ world.log[n].file = f /\ world.log[n].answer = TRUE)
  BY <1>3 DEF TrUpTo, TrOfFile
<1>6. \A i : i \in Q <=> i \in R \/ (i = n /\ world.log[n].file = f /\ world.log[n].answer = FALSE)
  BY <1>3 DEF TrUpTo, TrOfFile
<1>7. TrAt(Tr!AddLine(ev, f, n), f, root, start, n) <=> TrPart(Tr!AddLine(ev, f, n), f, root, B, TrCalls(B), Q)
  BY DEF TrAt
<1> HIDE DEF A, R, B, Q
<1>8. CASE world.log[n].file # f
  <2>1. Tr!AddLine(ev, f, n) = ev
    BY <1>8 DEF Tr!AddLine
  <2>2. B = A /\ Q = R
    BY <1>5, <1>6, <1>8
  <2> QED
    BY <1>2, <1>7, <2>1, <2>2
<1>9. CASE world.log[n].file = f /\ world.log[n].answer = TRUE
  <2>1. Tr!AddLine(ev, f, n) = Tr!AddAnswer(ev, f, n, world.log[n])
    BY <1>9 DEF Tr!AddLine
  <2>2. n \in TrOfFile(f, TRUE)
    BY <1>9 DEF TrOfFile
  <2>3. B = A \cup {n} /\ Q = R
    BY <1>5, <1>6, <1>9
  <2>4. TrCalls(B) = IF world.log[n].call = None THEN TrCalls(A) ELSE TrCalls(A) \cup {n}
    BY <2>3 DEF TrCalls
  <2>5. TrPart(Tr!AddAnswer(ev, f, n, world.log[n]), f, root, A \cup {n},
               IF world.log[n].call = None THEN TrCalls(A) ELSE TrCalls(A) \cup {n}, R)
    BY <1>2, <1>4, <2>2, TrAnswerLine
  <2> QED
    BY <1>7, <2>1, <2>3, <2>4, <2>5
<1>10. CASE world.log[n].file = f /\ world.log[n].answer = FALSE
  <2>1. Tr!AddLine(ev, f, n) = Tr!AddResult(ev, f, n, world.log[n])
    BY <1>10 DEF Tr!AddLine
  <2>2. n \in TrOfFile(f, FALSE)
    BY <1>10 DEF TrOfFile
  <2>3. B = A /\ Q = R \cup {n}
    BY <1>5, <1>6, <1>10
  <2>4. TrPart(Tr!AddResult(ev, f, n, world.log[n]), f, root, A, TrCalls(A), R \cup {n})
    BY <1>2, <1>4, <2>2, TrResultLine
  <2> QED
    BY <1>7, <2>1, <2>3, <2>4
<1> QED
  BY <1>1, <1>8, <1>9, <1>10

LEMMA TrStart ==
  ASSUME TrLog, NEW f, NEW root \in TrEvents, TrIsRoot(root, f), NEW start \in Nat
  PROVE  TrAt(<<root>>, f, root, start, start) /\ <<root>> \in Seq(TrEvents)
<1> DEFINE s == <<root>>
<1>1. s \in Seq(TrEvents) /\ DOMAIN s = {1} /\ s[1] = root
  OBVIOUS
<1> HIDE DEF s
<1>2. Elems(s) = {root}
  BY <1>1 DEF Elems
<1>3. TrTree(s)
  <2>1. root.id[1] # "tool"
    BY DEF TrIsRoot
  <2> QED
    BY <1>1, <2>1 DEF TrTree, TrPlaces
<1>4. TrUpTo(f, TRUE, start, start) = {} /\ TrUpTo(f, FALSE, start, start) = {}
  <2>1. \A i \in DOMAIN world.log : ~ (start < i /\ i <= start)
    BY TrLines
  <2> QED
    BY <2>1 DEF TrUpTo, TrOfFile
<1>5. TrCalls({}) = {}
  BY DEF TrCalls
<1>6. TrGot({root}, f, root, {}, {}, {})
  BY DEF TrGot, TrIsRoot, TrCovered
<1> QED
  BY <1>1, <1>2, <1>3, <1>4, <1>5, <1>6 DEF TrAt, TrPart, s

LEMMA TrParse ==
  ASSUME TrLog, NEW f, NEW root \in TrEvents, TrIsRoot(root, f),
         NEW start \in Nat, start <= Len(world.log)
  PROVE  TrAt(Tr!Parse(f, start, root), f, root, start, Len(world.log))
<1> DEFINE N == Len(world.log)
           m == N - start
           S == Seq(TrEvents)
           b == <<root>>
           step(x, n) == Tr!AddLine(x, f, n)
           g == [q \in S \X (1 .. m) |->
                   IF step(q[1], start + q[2]) \in S THEN step(q[1], start + q[2]) ELSE q[1]]
           At(x, n) == TrAt(x, f, root, start, n)
           ev == Tr!Parsed(f, start, root)
<1>1. N \in Nat /\ DOMAIN world.log = 1 .. N
  BY TrLines
<1>2. m \in Nat /\ start \in start .. N
  BY <1>1
<1>3. At(b, start) /\ b \in S
  BY TrStart
<1>4. \A x : \A n \in start + 1 .. N : At(x, n - 1) => At(step(x, n), n)
  <2>1. \A n \in start + 1 .. N : n \in DOMAIN world.log /\ start < n
    BY <1>1
  <2> QED
    BY <2>1, TrLine
<1>5. \A x, n : At(x, n) => x \in S
  BY DEF TrAt, TrPart, TrTree
<1> HIDE DEF step, S, b, At, N
<1>6. g \in [S \X (1 .. m) -> S] /\ \A x \in S, d \in 1 .. m :
        g[<<x, d>>] = IF step(x, start + d) \in S THEN step(x, start + d) ELSE x
  OBVIOUS
<1> HIDE DEF g
<1>7. PICK h \in [0 .. m -> S] : Follows(h, b, g, m)
  BY <1>2, <1>3, <1>6, Recursion
<1>8. \A d \in 0 .. m : At(h[d], start + d)
  <2> DEFINE T == {d \in 0 .. m : At(h[d], start + d)}
  <2>1. 0 \in T
    <3>1. 0 \in 0 .. m /\ start + 0 = start
      BY <1>2
    <3> QED
      BY <1>3, <1>7, <3>1 DEF Follows
  <2>2. ASSUME NEW d \in 1 .. m, d - 1 \in T
        PROVE  d \in T
    <3>1. /\ d \in 0 .. m /\ d - 1 \in 0 .. m /\ start + d \in start + 1 .. N
          /\ start + (d - 1) = start + d - 1
      BY <1>1, <1>2
    <3>2. At(h[d - 1], start + (d - 1)) /\ h[d - 1] \in S
      BY <2>2, <3>1
    <3>3. At(step(h[d - 1], start + d), start + d) /\ step(h[d - 1], start + d) \in S
      BY <1>4, <1>5, <3>1, <3>2
    <3>4. h[d] = step(h[d - 1], start + d)
      BY <1>6, <1>7, <3>2, <3>3 DEF Follows
    <3> QED
      BY <3>1, <3>3, <3>4
  <2>3. T \in SUBSET (0 .. m)
    OBVIOUS
  <2> HIDE DEF T
  <2>4. T = 0 .. m
    BY <1>2, <2>1, <2>2, <2>3, UpTo
  <2> QED
    BY <2>4 DEF T
<1>9. \A d \in 1 .. m : h[d] = step(h[d - 1], start + d)
  <2> SUFFICES ASSUME NEW d \in 1 .. m
               PROVE  h[d] = step(h[d - 1], start + d)
    OBVIOUS
  <2>1. /\ d - 1 \in 0 .. m /\ start + d \in start + 1 .. N
        /\ start + (d - 1) = start + d - 1
    BY <1>1, <1>2
  <2>2. At(h[d - 1], start + (d - 1)) /\ h[d - 1] \in S
    BY <1>8, <2>1
  <2>3. step(h[d - 1], start + d) \in S
    BY <1>4, <1>5, <2>1, <2>2
  <2> QED
    BY <1>6, <1>7, <2>2, <2>3 DEF Follows
<1> DEFINE q == [n \in start .. N |-> h[n - start]]
<1>10. q = [n \in start .. N |-> IF n = start THEN b ELSE step(q[n - 1], n)]
  <2>1. ASSUME NEW n \in start .. N
        PROVE  h[n - start] = IF n = start THEN b ELSE step(q[n - 1], n)
    <3>1. CASE n = start
      BY <1>7, <3>1 DEF Follows
    <3>2. CASE n # start
      <4>1. /\ n - 1 \in start .. N /\ n - start \in 1 .. m /\ start + (n - start) = n
            /\ (n - 1) - start = (n - start) - 1
        BY <1>1, <3>2
      <4>2. q[n - 1] = h[(n - start) - 1]
        BY <4>1
      <4> QED
        BY <1>9, <3>2, <4>1, <4>2
    <3> QED
      BY <3>1, <3>2
  <2> QED
    BY <2>1
<1>11. ev = [n \in start .. N |-> IF n = start THEN b ELSE step(ev[n - 1], n)]
  <2> HIDE DEF q
  <2> QED
    BY <1>10 DEF Tr!Parsed, step, b, N
<1> HIDE DEF ev
<1>12. \A n \in start .. N : At(ev[n], n)
  <2> DEFINE T == {n \in start .. N : At(ev[n], n)}
  <2>1. start \in T
    BY <1>2, <1>3, <1>11
  <2>2. ASSUME NEW n \in start + 1 .. N, n - 1 \in T
        PROVE  n \in T
    <3>1. n \in start .. N /\ n # start
      BY <1>1
    <3>2. ev[n] = step(ev[n - 1], n)
      BY <1>11, <3>1
    <3> QED
      BY <1>4, <2>2, <3>1, <3>2
  <2>3. T \in SUBSET (start .. N) /\ start <= N
    BY DEF N
  <2> HIDE DEF T
  <2>4. T = start .. N
    BY <1>1, <2>1, <2>2, <2>3, Between
  <2> QED
    BY <2>4 DEF T
<1>13. N \in start .. N /\ Tr!Parse(f, start, root) = ev[N]
  BY <1>1 DEF Tr!Parse, ev, N
<1> QED
  BY <1>12, <1>13 DEF At, N

-----------------------------------------------------------------------------
(* The tree of a turn: one tree in another                                 *)

(* The event that was at j when m others have come after place k.          *)
TrMoved(j, k, m) == IF j <= k THEN j ELSE j + m

TrInsertion(ev, p, k) == SubSeq(ev, 1, k) \o p \o SubSeq(ev, k + 1, Len(ev))

TrSpread(s, ev, p, k, m) ==
  /\ s \in Seq(TrEvents)
  /\ \A j \in DOMAIN ev : TrMoved(j, k, m) \in DOMAIN s /\ s[TrMoved(j, k, m)] = ev[j]
  /\ \A j \in DOMAIN p : k + j \in DOMAIN s /\ s[k + j] = p[j]
  /\ \A i \in DOMAIN s : (\E j \in DOMAIN ev : i = TrMoved(j, k, m)) \/ \E j \in DOMAIN p : i = k + j

LEMMA TrInserted ==
  ASSUME NEW ev, TrTree(ev), NEW p, TrTree(p), NEW k \in DOMAIN ev
  PROVE  TrSpread(TrInsertion(ev, p, k), ev, p, k, Len(p))
<1> DEFINE n == Len(ev)
           m == Len(p)
           a == SubSeq(ev, 1, k)
           b == SubSeq(ev, k + 1, Len(ev))
           s == a \o p \o b
           S == TrEvents
<1>1. /\ ev \in Seq(S) /\ p \in Seq(S) /\ n \in Nat /\ m \in Nat /\ DOMAIN ev = 1 .. n /\ DOMAIN p = 1 .. m
      /\ \A j \in DOMAIN ev : ev[j] \in S
  BY TrSeq DEF TrTree
<1>2. k \in 1 .. n /\ k \in Nat
  BY <1>1
<1> HIDE DEF S
<1>3. a \in Seq(S) /\ Len(a) = k /\ \A i \in 1 .. k : a[i] = ev[i]
  <2>1. 1 \in Int /\ k \in Int /\ (\A i \in 1 .. k : ev[i] \in S) /\ 1 <= k /\ k - 1 + 1 = k
        /\ \A i \in 1 .. k : 1 + i - 1 = i
    BY <1>1, <1>2
  <2> HIDE DEF n, a
  <2>2. SubSeq(ev, 1, k) \in Seq(S) /\ Len(SubSeq(ev, 1, k)) = (IF 1 <= k THEN k - 1 + 1 ELSE 0)
        /\ \A i \in 1 .. k - 1 + 1 : SubSeq(ev, 1, k)[i] = ev[1 + i - 1]
    BY <2>1, SubSeqProperties
  <2> QED
    BY <2>1, <2>2 DEF a
<1>4. b \in Seq(S) /\ Len(b) = n - k /\ \A i \in 1 .. n - k : b[i] = ev[k + i]
  <2>1. k + 1 \in Int /\ n \in Int /\ (\A i \in k + 1 .. n : ev[i] \in S) /\ n - (k + 1) + 1 = n - k
        /\ (k + 1 <= n \/ n - k = 0) /\ \A i \in 1 .. n - k : k + 1 + i - 1 = k + i
    BY <1>1, <1>2
  <2> HIDE DEF b
  <2>2. SubSeq(ev, k + 1, n) \in Seq(S) /\ Len(SubSeq(ev, k + 1, n)) = (IF k + 1 <= n THEN n - (k + 1) + 1 ELSE 0)
        /\ \A i \in 1 .. n - (k + 1) + 1 : SubSeq(ev, k + 1, n)[i] = ev[k + 1 + i - 1]
    BY <2>1, SubSeqProperties
  <2>3. SubSeq(ev, k + 1, n) = b
    BY DEF b
  <2> HIDE DEF n
  <2>4. Len(b) = n - k
    BY <1>2, <2>1, <2>2, <2>3
  <2>5. \A i \in 1 .. n - k : b[i] = ev[k + i]
    BY <2>1, <2>2, <2>3
  <2> QED
    BY <2>2, <2>3, <2>4, <2>5
<1> HIDE DEF a, b, n, m
<1>5. a \o p \in Seq(S) /\ Len(a \o p) = k + m
      /\ \A i \in 1 .. k + m : (a \o p)[i] = IF i <= k THEN a[i] ELSE p[i - k]
  BY <1>1, <1>3, ConcatProperties DEF m
<1> DEFINE c == a \o p
<1> HIDE DEF c
<1>6. c \o b \in Seq(S) /\ Len(c \o b) = k + m + (n - k)
      /\ \A i \in 1 .. k + m + (n - k) : (c \o b)[i] = IF i <= k + m THEN c[i] ELSE b[i - (k + m)]
  <2>1. c \in Seq(S) /\ Len(c) = k + m
    BY <1>5 DEF c
  <2>2. c \o b \in Seq(S) /\ Len(c \o b) = Len(c) + Len(b)
        /\ \A i \in 1 .. Len(c) + Len(b) : (c \o b)[i] = IF i <= Len(c) THEN c[i] ELSE b[i - Len(c)]
    BY <1>4, <2>1, ConcatProperties
  <2> QED
    BY <1>4, <2>1, <2>2
<1>7. s = c \o b
  BY DEF c
<1> HIDE DEF s
<1>8. s \in Seq(S) /\ DOMAIN s = 1 .. n + m
  <2>1. k + m + (n - k) = n + m
    BY <1>1, <1>2
  <2> QED
    BY <1>6, <1>7, <2>1
<1>9. \A i \in 1 .. n + m : s[i] = IF i <= k THEN ev[i] ELSE IF i <= k + m THEN p[i - k] ELSE ev[i - m]
  <2> SUFFICES ASSUME NEW i \in 1 .. n + m
               PROVE  s[i] = IF i <= k THEN ev[i] ELSE IF i <= k + m THEN p[i - k] ELSE ev[i - m]
    OBVIOUS
  <2>1. i \in 1 .. k + m + (n - k)
    BY <1>1, <1>2
  <2>2. s[i] = IF i <= k + m THEN c[i] ELSE b[i - (k + m)]
    BY <1>6, <1>7, <2>1
  <2>3. CASE i <= k
    <3>1. i \in 1 .. k + m /\ i \in 1 .. k /\ i <= k + m
      BY <1>1, <1>2, <2>3
    <3> QED
      BY <1>3, <1>5, <2>2, <2>3, <3>1 DEF c
  <2>4. CASE ~ (i <= k) /\ i <= k + m
    <3>1. i \in 1 .. k + m
      BY <1>1, <1>2, <2>4
    <3> QED
      BY <1>5, <2>2, <2>4, <3>1 DEF c
  <2>5. CASE ~ (i <= k) /\ ~ (i <= k + m)
    <3>1. i - (k + m) \in 1 .. n - k /\ k + (i - (k + m)) = i - m
      BY <1>1, <1>2, <2>5
    <3> QED
      BY <1>4, <2>2, <2>5, <3>1
  <2> QED
    BY <2>3, <2>4, <2>5
<1>10. \A j \in 1 .. n : TrMoved(j, k, m) \in 1 .. n + m /\ s[TrMoved(j, k, m)] = ev[j]
  <2> SUFFICES ASSUME NEW j \in 1 .. n
               PROVE  TrMoved(j, k, m) \in 1 .. n + m /\ s[TrMoved(j, k, m)] = ev[j]
    OBVIOUS
  <2>1. CASE j <= k
    <3>1. TrMoved(j, k, m) = j /\ j \in 1 .. n + m
      BY <1>1, <2>1 DEF TrMoved
    <3> QED
      BY <1>9, <2>1, <3>1
  <2>2. CASE ~ (j <= k)
    <3> DEFINE i == j + m
    <3>1. TrMoved(j, k, m) = i /\ i \in 1 .. n + m /\ ~ (i <= k) /\ ~ (i <= k + m) /\ i - m = j
      BY <1>1, <1>2, <2>2 DEF TrMoved
    <3> HIDE DEF i
    <3>2. s[i] = ev[i - m]
      BY <1>9, <3>1
    <3> QED
      BY <3>1, <3>2
  <2> QED
    BY <2>1, <2>2
<1>11. \A j \in 1 .. m : k + j \in 1 .. n + m /\ s[k + j] = p[j]
  <2> SUFFICES ASSUME NEW j \in 1 .. m
               PROVE  k + j \in 1 .. n + m /\ s[k + j] = p[j]
    OBVIOUS
  <2> DEFINE i == k + j
  <2>1. i \in 1 .. n + m /\ ~ (i <= k) /\ i <= k + m /\ i - k = j
    BY <1>1, <1>2
  <2> HIDE DEF i
  <2>2. s[i] = p[i - k]
    BY <1>9, <2>1
  <2>3. s[i] = p[j]
    BY <2>1, <2>2
  <2> QED
    BY <2>1, <2>3 DEF i
<1>12. \A i \in 1 .. n + m : (\E j \in 1 .. n : i = TrMoved(j, k, m)) \/ \E j \in 1 .. m : i = k + j
  <2> SUFFICES ASSUME NEW i \in 1 .. n + m
               PROVE  (\E j \in 1 .. n : i = TrMoved(j, k, m)) \/ \E j \in 1 .. m : i = k + j
    OBVIOUS
  <2>1. CASE i <= k
    <3>1. i \in 1 .. n /\ i = TrMoved(i, k, m)
      BY <1>1, <1>2, <2>1 DEF TrMoved
    <3> QED
      BY <3>1
  <2>2. CASE ~ (i <= k) /\ i <= k + m
    <3>1. i - k \in 1 .. m /\ i = k + (i - k)
      BY <1>1, <1>2, <2>2
    <3> QED
      BY <3>1
  <2>3. CASE ~ (i <= k + m)
    <3>1. i - m \in 1 .. n /\ i = TrMoved(i - m, k, m)
      BY <1>1, <1>2, <2>3 DEF TrMoved
    <3> QED
      BY <3>1
  <2> QED
    BY <2>1, <2>2, <2>3
<1> HIDE DEF c
<1>13. /\ s \in Seq(S)
       /\ \A j \in DOMAIN ev : TrMoved(j, k, m) \in DOMAIN s /\ s[TrMoved(j, k, m)] = ev[j]
       /\ \A j \in DOMAIN p : k + j \in DOMAIN s /\ s[k + j] = p[j]
       /\ \A i \in DOMAIN s : (\E j \in DOMAIN ev : i = TrMoved(j, k, m)) \/ \E j \in DOMAIN p : i = k + j
  BY <1>1, <1>8, <1>10, <1>11, <1>12
<1> QED
  BY <1>13 DEF s, a, b, m, S, TrInsertion, TrSpread

(* Trees of which none has an id or a call of the other.                   *)
LEMMA TrInsert ==
  ASSUME NEW ev, TrTree(ev), NEW p, TrTree(p), NEW k \in DOMAIN ev, p[1].parent = ev[k].id,
         \A x \in Elems(ev), y \in Elems(p) :
           x.id # y.id /\ (x.id[1] = "tool" \/ y.id[1] = "tool" => x.call # y.call)
  PROVE  LET s == TrInsertion(ev, p, k) IN
         TrTree(s) /\ Elems(s) = Elems(ev) \cup Elems(p) /\ s[1] = ev[1]
<1> DEFINE m == Len(p)
           s == TrInsertion(ev, p, k)
           P(j) == TrMoved(j, k, m)
           Q(j) == k + j
<1>1. /\ TrPlaces(ev) /\ TrPlaces(p) /\ m \in Nat /\ DOMAIN p = 1 .. m /\ DOMAIN ev \subseteq Nat
      /\ 1 \in DOMAIN ev /\ 1 \in DOMAIN p /\ \A j \in DOMAIN ev : 1 <= j
  BY TrSeq DEF TrTree
<1>2. /\ s \in Seq(TrEvents)
      /\ \A j \in DOMAIN ev : P(j) \in DOMAIN s /\ s[P(j)] = ev[j]
      /\ \A j \in DOMAIN p : Q(j) \in DOMAIN s /\ s[Q(j)] = p[j]
      /\ \A i \in DOMAIN s : (\E j \in DOMAIN ev : i = P(j)) \/ \E j \in DOMAIN p : i = Q(j)
  <2>1. TrSpread(s, ev, p, k, m)
    BY TrInserted
  <2> QED
    BY <2>1 DEF TrSpread
<1>3. /\ \A i, j \in DOMAIN ev : i < j => P(i) < P(j)
      /\ \A i, j \in DOMAIN ev : i <= j => P(i) <= P(j)
      /\ \A i, j \in DOMAIN p : i < j => Q(i) < Q(j)
      /\ \A i, j \in DOMAIN p : i <= j => Q(i) <= Q(j)
  BY <1>1 DEF TrMoved
<1>4. P(1) = 1 /\ P(k) < Q(1)
  BY <1>1 DEF TrMoved
<1> HIDE DEF s, m, P, Q
<1>5. Elems(s) = Elems(ev) \cup Elems(p)
  <2>1. \A x : x \in Elems(s) <=> \E i \in DOMAIN s : x = s[i]
    BY DEF Elems
  <2>2. \A x : x \in Elems(ev) <=> \E i \in DOMAIN ev : x = ev[i]
    BY DEF Elems
  <2>3. \A x : x \in Elems(p) <=> \E i \in DOMAIN p : x = p[i]
    BY DEF Elems
  <2>4. \A x : x \in Elems(s) <=> x \in Elems(ev) \/ x \in Elems(p)
    BY <1>2, <2>1, <2>2, <2>3
  <2> QED
    BY <2>4
<1>6. \A i \in DOMAIN ev, j \in DOMAIN p :
        ev[i].id # p[j].id /\ (ev[i].id[1] = "tool" \/ p[j].id[1] = "tool" => ev[i].call # p[j].call)
  BY DEF Elems
<1>7. \A i, j \in DOMAIN s : s[i].id = s[j].id => i = j
  <2> SUFFICES ASSUME NEW i \in DOMAIN s, NEW j \in DOMAIN s, s[i].id = s[j].id
               PROVE  i = j
    OBVIOUS
  <2>1. ASSUME NEW x \in DOMAIN ev, i = P(x), NEW y \in DOMAIN ev, j = P(y)
        PROVE  i = j
    BY <1>1, <1>2, <2>1 DEF TrPlaces
  <2>2. ASSUME NEW x \in DOMAIN p, i = Q(x), NEW y \in DOMAIN p, j = Q(y)
        PROVE  i = j
    BY <1>1, <1>2, <2>2 DEF TrPlaces
  <2>3. ASSUME NEW x \in DOMAIN ev, i = P(x), NEW y \in DOMAIN p, j = Q(y)
        PROVE  FALSE
    BY <1>2, <1>6, <2>3
  <2>4. ASSUME NEW x \in DOMAIN p, i = Q(x), NEW y \in DOMAIN ev, j = P(y)
        PROVE  FALSE
    BY <1>2, <1>6, <2>4
  <2> QED
    BY <1>2, <2>1, <2>2, <2>3, <2>4
<1>8. \A i \in DOMAIN s : i # 1 => \E j \in DOMAIN s : j < i /\ s[j].id = s[i].parent
  <2> SUFFICES ASSUME NEW i \in DOMAIN s, i # 1
               PROVE  \E j \in DOMAIN s : j < i /\ s[j].id = s[i].parent
    OBVIOUS
  <2>1. ASSUME NEW x \in DOMAIN ev, i = P(x)
        PROVE  \E j \in DOMAIN s : j < i /\ s[j].id = s[i].parent
    <3>1. PICK y \in DOMAIN ev : y < x /\ ev[y].id = ev[x].parent
      BY <1>1, <1>4, <2>1 DEF TrPlaces
    <3>2. P(y) \in DOMAIN s /\ P(y) < i /\ s[P(y)].id = s[i].parent
      BY <1>2, <1>3, <2>1, <3>1
    <3> QED
      BY <3>2
  <2>2. ASSUME NEW x \in DOMAIN p, i = Q(x)
        PROVE  \E j \in DOMAIN s : j < i /\ s[j].id = s[i].parent
    <3>1. CASE x = 1
      <4>1. P(k) \in DOMAIN s /\ P(k) < i /\ s[P(k)].id = s[i].parent
        BY <1>2, <1>4, <2>2, <3>1
      <4> QED
        BY <4>1
    <3>2. CASE x # 1
      <4>1. PICK y \in DOMAIN p : y < x /\ p[y].id = p[x].parent
        BY <1>1, <3>2 DEF TrPlaces
      <4>2. Q(y) \in DOMAIN s /\ Q(y) < i /\ s[Q(y)].id = s[i].parent
        BY <1>2, <1>3, <2>2, <4>1
      <4> QED
        BY <4>2
    <3> QED
      BY <3>1, <3>2
  <2> QED
    BY <1>2, <2>1, <2>2
<1>9. \A i, j \in DOMAIN s : s[i].id[1] = "tool" /\ s[j].call = s[i].call => i <= j
  <2> SUFFICES ASSUME NEW i \in DOMAIN s, NEW j \in DOMAIN s, s[i].id[1] = "tool", s[j].call = s[i].call
               PROVE  i <= j
    OBVIOUS
  <2>1. ASSUME NEW x \in DOMAIN ev, i = P(x), NEW y \in DOMAIN ev, j = P(y)
        PROVE  i <= j
    BY <1>1, <1>2, <1>3, <2>1 DEF TrPlaces
  <2>2. ASSUME NEW x \in DOMAIN p, i = Q(x), NEW y \in DOMAIN p, j = Q(y)
        PROVE  i <= j
    BY <1>1, <1>2, <1>3, <2>2 DEF TrPlaces
  <2>3. ASSUME NEW x \in DOMAIN ev, i = P(x), NEW y \in DOMAIN p, j = Q(y)
        PROVE  FALSE
    BY <1>2, <1>6, <2>3
  <2>4. ASSUME NEW x \in DOMAIN p, i = Q(x), NEW y \in DOMAIN ev, j = P(y)
        PROVE  FALSE
    BY <1>2, <1>6, <2>4
  <2> QED
    BY <1>2, <2>1, <2>2, <2>3, <2>4
<1>10. s[1] = ev[1] /\ 1 \in DOMAIN s
  BY <1>1, <1>2, <1>4
<1>11. TrTree(s)
  BY <1>2, <1>7, <1>8, <1>9, <1>10 DEF TrTree, TrPlaces
<1> QED
  BY <1>5, <1>10, <1>11 DEF s

-----------------------------------------------------------------------------
(* The tree of a turn: the agents                                          *)

(* Whose an event is, its id says, or its call.                            *)
TrMarked(x, f) ==
  /\ x.id = <<"tool", MainFile, x.call>> \/ (x.id[1] # "tool" /\ x.id[2] = f)
  /\ x.id = <<"tool", MainFile, x.call>> => x.call # None
  /\ x.call # None => \E i \in DOMAIN world.log : world.log[i].file = f /\ world.log[i].call = x.call

LEMMA TrMark ==
  ASSUME NEW E, NEW f, NEW root, NEW A, NEW C, NEW R, TrGot(E, f, root, A, C, R), NEW x \in E
  PROVE  TrMarked(x, f)
<1> USE DEF TrMarked
<1>1. x = root \/ TrIsAnswer(x, f, root, A) \/ TrIsTool(x, E, f, root, A, C, R)
  BY DEF TrGot
<1>2. CASE x = root
  <2>1. x.id \in {"turn", "agent"} \X {f} \X Nat /\ x.call = None
    BY <1>2 DEF TrGot, TrIsRoot
  <2> QED
    BY <2>1
<1>3. CASE TrIsAnswer(x, f, root, A)
  <2>1. x.call = None /\ \E i : x.id = <<"answer", f, i>>
    BY <1>3 DEF TrIsAnswer
  <2> QED
    BY <2>1
<1>4. CASE TrIsTool(x, E, f, root, A, C, R)
  <2>1. x.call # None /\ \E i \in A \cup R : world.log[i].call = x.call
    BY <1>4 DEF TrIsTool
  <2>2. \A i \in A \cup R : i \in DOMAIN world.log /\ world.log[i].file = f
    BY DEF TrGot, TrOfFile
  <2>3. x.id = <<"tool", MainFile, x.call>> \/ \E i : x.id = <<"again", f, i>>
    BY <1>4 DEF TrIsTool, TrFirstTool, TrOtherTool
  <2> QED
    BY <2>1, <2>2, <2>3
<1> QED
  BY <1>1, <1>2, <1>3, <1>4

LEMMA TrApart ==
  ASSUME TrLog, NEW x, NEW f, TrMarked(x, f), NEW y, NEW g, TrMarked(y, g), f # g
  PROVE  x.id # y.id /\ (x.id[1] = "tool" \/ y.id[1] = "tool" => x.call # y.call)
<1>1. /\ x.id = <<"tool", MainFile, x.call>> \/ (x.id[1] # "tool" /\ x.id[2] = f)
      /\ x.id = <<"tool", MainFile, x.call>> => x.call # None
      /\ x.call # None => \E i \in DOMAIN world.log : world.log[i].file = f /\ world.log[i].call = x.call
  BY DEF TrMarked
<1>2. /\ y.id = <<"tool", MainFile, y.call>> \/ (y.id[1] # "tool" /\ y.id[2] = g)
      /\ y.id = <<"tool", MainFile, y.call>> => y.call # None
      /\ y.call # None => \E i \in DOMAIN world.log : world.log[i].file = g /\ world.log[i].call = y.call
  BY DEF TrMarked
<1>3. x.call # None => x.call # y.call
  <2> SUFFICES ASSUME x.call # None, x.call = y.call
               PROVE  FALSE
    OBVIOUS
  <2>1. PICK i \in DOMAIN world.log : world.log[i].file = f /\ world.log[i].call = x.call
    BY <1>1
  <2>2. PICK j \in DOMAIN world.log : world.log[j].file = g /\ world.log[j].call = x.call
    BY <1>2
  <2> QED
    BY <2>1, <2>2 DEF TrLog
<1>4. x.id[1] = "tool" \/ y.id[1] = "tool" => x.call # y.call
  BY <1>1, <1>2, <1>3
<1>5. x.id # y.id
  <2>1. ASSUME x.id = <<"tool", MainFile, x.call>>, y.id = <<"tool", MainFile, y.call>>
        PROVE  x.id # y.id
    BY <1>1, <1>3, <2>1
  <2>2. ASSUME x.id = <<"tool", MainFile, x.call>>, y.id[1] # "tool"
        PROVE  x.id # y.id
    BY <2>2
  <2>3. ASSUME y.id = <<"tool", MainFile, y.call>>, x.id[1] # "tool"
        PROVE  x.id # y.id
    BY <2>3
  <2>4. ASSUME x.id[2] = f, y.id[2] = g
        PROVE  x.id # y.id
    BY <2>4
  <2> QED
    BY <1>1, <1>2, <2>1, <2>2, <2>3, <2>4
<1> QED
  BY <1>4, <1>5

(* The events of each file in a tree that is whole: those of the turn, and *)
(* those of agents below a tool that ran them.                             *)
TrPartOf(ev, f) == {x \in Elems(ev) : x.file = f}
TrFiles(ev) == {x.file : x \in Elems(ev)}
TrHas(E, f, root, start) ==
  LET N == Len(world.log) IN
  TrGot(E, f, root, TrUpTo(f, TRUE, start, N), TrCalls(TrUpTo(f, TRUE, start, N)), TrUpTo(f, FALSE, start, N))
TrRunBy(E, f, root) ==
  root.id[1] = "agent" /\ \E t \in E : t.id = root.parent /\ t.call # None /\ t.agent = f

TrWhole(ev, start) ==
  /\ TrTree(ev) /\ ev[1] = Tr!Turn(start)
  /\ TrHas(TrPartOf(ev, MainFile), MainFile, ev[1], start)
  /\ \A f \in TrFiles(ev) \ {MainFile} :
       \E root : TrHas(TrPartOf(ev, f), f, root, 0) /\ TrRunBy(Elems(ev), f, root)

LEMMA TrRootEvent ==
  ASSUME NEW f \in Tr!Files, NEW n \in Nat, NEW pid \in Tr!EventIds \cup {None}, NEW kind \in {"turn", "agent"}
  PROVE  LET e == Tr!Event(kind, f, n, pid) IN
         e \in TrEvents /\ TrIsRoot(e, f) /\ e.id = <<kind, f, n>> /\ e.parent = pid /\ e.file = f
<1> DEFINE id == <<kind, f, n>>
           e == Tr!Event(kind, f, n, pid)
<1>1. id \in Tr!EventIds /\ id \in {"turn", "agent"} \X {f} \X Nat
  BY DEF Tr!EventIds, Tr!Kinds
<1>2. e = [id |-> id, parent |-> pid, call |-> None, message |-> None, usage |-> 0,
           file |-> f, lines |-> {}, result |-> None, agent |-> None]
  BY DEF Tr!Event
<1> HIDE DEF id, e
<1>3. e \in TrEvents
  BY <1>1, <1>2 DEF TrEvents, TrMaybe
<1>4. e.call = None /\ e.message = None /\ e.file = f /\ e.id = id /\ e.parent = pid
  BY <1>2
<1>5. TrIsRoot(e, f)
  BY <1>1, <1>4 DEF TrIsRoot
<1> QED
  BY <1>3, <1>4, <1>5 DEF id, e

(* The tree that is whole before there are agents in it,                   *)
LEMMA TrTurnWhole ==
  ASSUME TrLog, NEW start \in Nat, start <= Len(world.log)
  PROVE  LET ev == Tr!Parse(MainFile, start, Tr!Turn(start)) IN TrWhole(ev, start) /\ TrFiles(ev) = {MainFile}
<1> DEFINE root == Tr!Turn(start)
           ev == Tr!Parse(MainFile, start, root)
<1>1. root \in TrEvents /\ TrIsRoot(root, MainFile)
  <2>1. MainFile \in Tr!Files /\ None \in Tr!EventIds \cup {None} /\ "turn" \in {"turn", "agent"}
    BY DEF Tr!Files
  <2>2. root = Tr!Event("turn", MainFile, start, None)
    BY DEF Tr!Turn
  <2> HIDE DEF root
  <2> QED
    BY <2>1, <2>2, TrRootEvent
<1>2. TrAt(ev, MainFile, root, start, Len(world.log))
  BY <1>1, TrParse
<1> HIDE DEF ev
<1>3. TrTree(ev) /\ ev[1] = root /\ TrHas(Elems(ev), MainFile, root, start)
  BY <1>2 DEF TrAt, TrPart, TrHas
<1>4. (\A x \in Elems(ev) : x.file = MainFile) /\ root \in Elems(ev)
  BY <1>3 DEF TrHas, TrGot
<1>5. TrPartOf(ev, MainFile) = Elems(ev) /\ TrFiles(ev) = {MainFile}
  BY <1>4 DEF TrPartOf, TrFiles
<1> QED
  BY <1>3, <1>5 DEF TrWhole, ev

(* and after one has come.                                                 *)
LEMMA TrMergeWhole ==
  ASSUME TrLog, NEW ev, NEW start, TrWhole(ev, start), NEW a \in Tr!SubAgents \ TrFiles(ev)
  PROVE  LET s == Tr!MergeAgent(ev, a) IN
         /\ TrWhole(s, start) /\ TrPartOf(s, MainFile) = TrPartOf(ev, MainFile)
         /\ TrFiles(ev) \subseteq TrFiles(s) /\ TrFiles(s) \subseteq TrFiles(ev) \cup {a}
         /\ (\E x \in Elems(ev) : x.call # None /\ x.agent = a) => a \in TrFiles(s)
<1> DEFINE tools == {k \in DOMAIN ev : ev[k].call # None /\ ev[k].agent = a}
           k == Tr!First(tools)
           s == Tr!MergeAgent(ev, a)
<1>1. /\ TrTree(ev) /\ ev[1] = Tr!Turn(start) /\ TrHas(TrPartOf(ev, MainFile), MainFile, ev[1], start)
      /\ \A f \in TrFiles(ev) \ {MainFile} :
           \E root : TrHas(TrPartOf(ev, f), f, root, 0) /\ TrRunBy(Elems(ev), f, root)
  BY DEF TrWhole
<1>2. DOMAIN ev \subseteq Nat /\ \A j \in DOMAIN ev : ev[j] \in TrEvents
  BY <1>1, TrSeq
<1>3. tools \in SUBSET Nat /\ (tools = {} <=> ~ \E x \in Elems(ev) : x.call # None /\ x.agent = a)
  BY <1>2 DEF Elems
<1>4. CASE tools = {}
  <2>1. s = ev
    BY <1>4 DEF Tr!MergeAgent
  <2> QED
    BY <1>3, <1>4, <2>1
<1>5. CASE tools # {}
  <2>1. k \in DOMAIN ev /\ ev[k].call # None /\ ev[k].agent = a
    <3>1. k \in tools
      <4> HIDE DEF tools
      <4> QED
        BY <1>3, <1>5, TrFirstOf, Zenon
    <3> QED
      BY <3>1
  <2> DEFINE root == Tr!Event("agent", a, 0, ev[k].id)
             p == Tr!Parse(a, 0, root)
  <2>2. s = TrInsertion(ev, p, k)
    BY <1>5, Zenon DEF Tr!MergeAgent, TrInsertion
  <2> HIDE DEF k, s
  <2>3. root \in TrEvents /\ TrIsRoot(root, a) /\ root.id[1] = "agent" /\ root.parent = ev[k].id /\ root.file = a
    <3>1. a \in Tr!Files /\ ev[k].id \in Tr!EventIds \cup {None} /\ 0 \in Nat /\ "agent" \in {"turn", "agent"}
      BY <1>2, <2>1 DEF Tr!Files, TrEvents
    <3> QED
      BY <3>1, TrRootEvent
  <2> HIDE DEF root
  <2>4. TrAt(p, a, root, 0, Len(world.log))
    <3>1. 0 \in Nat /\ 0 <= Len(world.log)
      BY TrLines
    <3> QED
      BY <2>3, <3>1, TrParse
  <2> HIDE DEF p
  <2>5. TrTree(p) /\ p[1] = root /\ TrHas(Elems(p), a, root, 0) /\ root \in Elems(p)
        /\ \A y \in Elems(p) : y.file = a
    BY <2>4 DEF TrAt, TrPart, TrHas, TrGot
  <2>6. \A x \in Elems(ev) : x.file # a /\ x \in TrPartOf(ev, x.file) /\ \E top, n : TrHas(TrPartOf(ev, x.file), x.file, top, n)
    BY <1>1 DEF TrFiles, TrPartOf
  <2>7. \A x \in Elems(ev), y \in Elems(p) :
          x.id # y.id /\ (x.id[1] = "tool" \/ y.id[1] = "tool" => x.call # y.call)
    <3> SUFFICES ASSUME NEW x \in Elems(ev), NEW y \in Elems(p)
                 PROVE  x.id # y.id /\ (x.id[1] = "tool" \/ y.id[1] = "tool" => x.call # y.call)
      OBVIOUS
    <3>1. PICK top, n : TrHas(TrPartOf(ev, x.file), x.file, top, n)
      BY <2>6
    <3>2. x \in TrPartOf(ev, x.file) /\ x.file # a
      BY <2>6
    <3>3. TrMarked(x, x.file)
      BY <3>1, <3>2, TrMark DEF TrHas
    <3>4. TrMarked(y, a)
      BY <2>5, TrMark DEF TrHas
    <3> QED
      BY <3>2, <3>3, <3>4, TrApart
  <2>8. TrTree(s) /\ Elems(s) = Elems(ev) \cup Elems(p) /\ s[1] = ev[1]
    BY <1>1, <2>1, <2>2, <2>3, <2>5, <2>7, TrInsert
  <2>9. /\ TrFiles(s) = TrFiles(ev) \cup {a} /\ TrPartOf(s, a) = Elems(p)
        /\ \A f : f # a => TrPartOf(s, f) = TrPartOf(ev, f)
    BY <2>5, <2>6, <2>8 DEF TrFiles, TrPartOf
  <2>10. a # MainFile
    BY HarnessesAssumption DEF Tr!TreeAssumption
  <2>11. TrHas(TrPartOf(s, MainFile), MainFile, s[1], start)
    BY <1>1, <2>8, <2>9, <2>10
  <2>12. \A f \in TrFiles(s) \ {MainFile} : \E top : TrHas(TrPartOf(s, f), f, top, 0) /\ TrRunBy(Elems(s), f, top)
    <3> SUFFICES ASSUME NEW f \in TrFiles(s) \ {MainFile}
                 PROVE  \E top : TrHas(TrPartOf(s, f), f, top, 0) /\ TrRunBy(Elems(s), f, top)
      OBVIOUS
    <3>1. CASE f = a
      <4>1. ev[k] \in Elems(s)
        BY <2>1, <2>8 DEF Elems
      <4>2. TrRunBy(Elems(s), f, root)
        BY <2>1, <2>3, <3>1, <4>1 DEF TrRunBy
      <4> QED
        BY <2>5, <2>9, <3>1, <4>2
    <3>2. CASE f # a
      <4>1. PICK top : TrHas(TrPartOf(ev, f), f, top, 0) /\ TrRunBy(Elems(ev), f, top)
        BY <1>1, <2>9, <3>2
      <4>2. TrRunBy(Elems(s), f, top)
        BY <2>8, <4>1 DEF TrRunBy
      <4> QED
        BY <2>9, <3>2, <4>1, <4>2
    <3> QED
      BY <3>1, <3>2
  <2>13. TrWhole(s, start)
    BY <1>1, <2>8, <2>11, <2>12 DEF TrWhole
  <2> QED
    BY <2>9, <2>10, <2>13 DEF s
<1> QED
  BY <1>4, <1>5

TrAmong(ev, n) ==
  /\ TrWhole(ev, world.start)
  /\ TrFiles(ev) \subseteq {MainFile} \cup {Agents[j] : j \in {j \in 1 .. n : Agents[j] \in store}}
  /\ TrPartOf(ev, MainFile) = TrPartOf(Tr!Parse(MainFile, world.start, Tr!Turn(world.start)), MainFile)
  /\ \A j \in 1 .. n : Agents[j] \in store /\ (\E x \in TrPartOf(ev, MainFile) : x.call # None /\ x.agent = Agents[j])
       => Agents[j] \in TrFiles(ev)

LEMMA TrAgents ==
  /\ Len(Agents) \in Nat /\ DOMAIN Agents = 1 .. Len(Agents)
  /\ \A n \in 1 .. Len(Agents) : Agents[n] \in Tr!SubAgents /\ Agents[n] # MainFile
  /\ \A n, m \in 1 .. Len(Agents) : Agents[n] = Agents[m] => n = m
  /\ Tr!SubAgents = {Agents[n] : n \in 1 .. Len(Agents)}
<1>1. /\ Agents \in Seq(Tr!SubAgents) /\ MainFile \notin Tr!SubAgents
      /\ \A n, m \in DOMAIN Agents : Agents[n] = Agents[m] => n = m
  BY HarnessesAssumption DEF Tr!TreeAssumption
<1>2. Len(Agents) \in Nat /\ DOMAIN Agents = 1 .. Len(Agents)
  BY <1>1
<1>3. Tr!SubAgents = {Agents[n] : n \in DOMAIN Agents}
  BY DEF Tr!SubAgents
<1> QED
  BY <1>1, <1>2, <1>3

LEMMA TrOneMore ==
  ASSUME TrLog, NEW ev, NEW n \in 1 .. Len(Agents), TrAmong(ev, n - 1)
  PROVE  TrAmong(IF Agents[n] \in store THEN Tr!MergeAgent(ev, Agents[n]) ELSE ev, n)
<1> DEFINE a == Agents[n]
           s == Tr!MergeAgent(ev, a)
           F(m) == {Agents[j] : j \in {j \in 1 .. m : Agents[j] \in store}}
<1>1. /\ Len(Agents) \in Nat /\ a \in Tr!SubAgents /\ a # MainFile
      /\ \A j, m \in 1 .. Len(Agents) : Agents[j] = Agents[m] => j = m
  BY TrAgents
<1>2. /\ \A j \in 1 .. n - 1 : j \in 1 .. Len(Agents) /\ j # n /\ j \in 1 .. n
      /\ \A j \in 1 .. n : j \in 1 .. n - 1 \/ j = n
      /\ n \in 1 .. n
  BY <1>1
<1>3. F(n - 1) \subseteq F(n) /\ (a \in store => a \in F(n)) /\ a \notin F(n - 1)
  BY <1>1, <1>2
<1>4. CASE a \notin store
  <2>1. \A j \in 1 .. n : Agents[j] \in store => j \in 1 .. n - 1
    BY <1>2, <1>4
  <2> HIDE DEF F
  <2>2. TrFiles(ev) \subseteq {MainFile} \cup F(n)
    BY <1>3 DEF TrAmong, F
  <2> HIDE DEF a
  <2>3. TrAmong(ev, n)
    BY <2>1, <2>2 DEF TrAmong, F
  <2> QED
    BY <1>4, <2>3 DEF a
<1>5. CASE a \in store
  <2>1. TrWhole(ev, world.start) /\ TrFiles(ev) \subseteq {MainFile} \cup F(n - 1)
    BY DEF TrAmong
  <2>2. a \in Tr!SubAgents \ TrFiles(ev)
    <3> HIDE DEF F, a
    <3> QED
      BY <1>1, <1>3, <2>1
  <2>3. /\ TrWhole(s, world.start) /\ TrPartOf(s, MainFile) = TrPartOf(ev, MainFile)
        /\ TrFiles(ev) \subseteq TrFiles(s) /\ TrFiles(s) \subseteq TrFiles(ev) \cup {a}
        /\ (\E x \in Elems(ev) : x.call # None /\ x.agent = a) => a \in TrFiles(s)
    <3> HIDE DEF a
    <3> QED
      BY <2>1, <2>2, TrMergeWhole DEF s
  <2> HIDE DEF s, F
  <2>4. TrFiles(s) \subseteq {MainFile} \cup F(n)
    BY <1>3, <1>5, <2>1, <2>3
  <2>5. (\E x \in TrPartOf(s, MainFile) : x.call # None /\ x.agent = a) => a \in TrFiles(s)
    BY <2>3 DEF TrPartOf
  <2>6. TrAmong(s, n)
    BY <1>2, <2>3, <2>4, <2>5 DEF TrAmong, F, a
  <2> QED
    BY <1>5, <2>6 DEF s
<1> QED
  BY <1>4, <1>5

LEMMA TrMerged ==
  ASSUME TrLog, world.start \in Nat, world.start <= Len(world.log)
  PROVE  TrAmong(Tr!Tree, Len(Agents))
<1> DEFINE N == Len(Agents)
           S == Seq(TrEvents)
           b == Tr!Parse(MainFile, world.start, Tr!Turn(world.start))
           step(x, n) == IF Agents[n] \in store THEN Tr!MergeAgent(x, Agents[n]) ELSE x
           g == [q \in S \X (1 .. N) |-> IF step(q[1], q[2]) \in S THEN step(q[1], q[2]) ELSE q[1]]
           At(x, n) == TrAmong(x, n)
           tree == Tr!Merged
<1>1. N \in Nat
  BY TrAgents
<1>2. \A x, n : At(x, n) => x \in S
  BY DEF TrAmong, TrWhole, TrTree
<1>3. At(b, 0) /\ b \in S
  <2>1. TrWhole(b, world.start) /\ TrFiles(b) = {MainFile}
    BY TrTurnWhole
  <2>2. \A j : j \notin 1 .. 0
    OBVIOUS
  <2> HIDE DEF b
  <2>3. At(b, 0)
    BY <2>1, <2>2 DEF TrAmong, b
  <2> QED
    BY <1>2, <2>3
<1>4. \A x : \A n \in 1 .. N : At(x, n - 1) => At(step(x, n), n)
  BY TrOneMore
<1> HIDE DEF step, S, b, At, N
<1>5. g \in [S \X (1 .. N) -> S] /\ \A x \in S, n \in 1 .. N :
        g[<<x, n>>] = IF step(x, n) \in S THEN step(x, n) ELSE x
  OBVIOUS
<1> HIDE DEF g
<1>6. PICK h \in [0 .. N -> S] : Follows(h, b, g, N)
  BY <1>1, <1>3, <1>5, Recursion
<1>7. \A n \in 0 .. N : At(h[n], n)
  <2> DEFINE T == {n \in 0 .. N : At(h[n], n)}
  <2>1. 0 \in T
    <3>1. 0 \in 0 .. N
      BY <1>1
    <3> QED
      BY <1>3, <1>6, <3>1 DEF Follows
  <2>2. ASSUME NEW n \in 1 .. N, n - 1 \in T
        PROVE  n \in T
    <3>1. n \in 0 .. N /\ n - 1 \in 0 .. N
      BY <1>1
    <3>2. At(h[n - 1], n - 1) /\ h[n - 1] \in S
      BY <2>2, <3>1
    <3>3. At(step(h[n - 1], n), n) /\ step(h[n - 1], n) \in S
      BY <1>2, <1>4, <3>2
    <3>4. h[n] = step(h[n - 1], n)
      BY <1>5, <1>6, <3>2, <3>3 DEF Follows
    <3> QED
      BY <3>1, <3>3, <3>4
  <2>3. T \in SUBSET (0 .. N)
    OBVIOUS
  <2> HIDE DEF T
  <2>4. T = 0 .. N
    BY <1>1, <2>1, <2>2, <2>3, UpTo
  <2> QED
    BY <2>4 DEF T
<1>8. h = [n \in 0 .. N |-> IF n = 0 THEN b ELSE step(h[n - 1], n)]
  <2>1. ASSUME NEW n \in 0 .. N
        PROVE  h[n] = IF n = 0 THEN b ELSE step(h[n - 1], n)
    <3>1. CASE n = 0
      BY <1>6, <3>1 DEF Follows
    <3>2. CASE n # 0
      <4>1. n \in 1 .. N /\ n - 1 \in 0 .. N
        BY <1>1, <3>2
      <4>2. At(h[n - 1], n - 1) /\ h[n - 1] \in S
        BY <1>7, <4>1
      <4>3. step(h[n - 1], n) \in S
        BY <1>2, <1>4, <4>1, <4>2
      <4> QED
        BY <1>5, <1>6, <3>2, <4>1, <4>2, <4>3 DEF Follows
    <3> QED
      BY <3>1, <3>2
  <2>2. h = [n \in 0 .. N |-> h[n]]
    OBVIOUS
  <2> QED
    BY <2>1, <2>2
<1>9. tree = [n \in 0 .. N |-> IF n = 0 THEN b ELSE step(tree[n - 1], n)]
  <2>1. h = [n \in 0 .. N |-> IF n = 0 THEN b ELSE IF Agents[n] \in store
                                                   THEN Tr!MergeAgent(h[n - 1], Agents[n]) ELSE h[n - 1]]
    BY <1>8 DEF step
  <2>2. tree = [n \in 0 .. N |-> IF n = 0 THEN b ELSE IF Agents[n] \in store
                                                      THEN Tr!MergeAgent(tree[n - 1], Agents[n]) ELSE tree[n - 1]]
    BY <2>1 DEF Tr!Merged, b, N
  <2> HIDE DEF tree
  <2> QED
    BY <2>2 DEF step
<1> HIDE DEF tree
<1>10. \A n \in 0 .. N : At(tree[n], n)
  <2> DEFINE T == {n \in 0 .. N : At(tree[n], n)}
  <2>1. 0 \in T
    <3>1. 0 \in 0 .. N
      BY <1>1
    <3> QED
      BY <1>3, <1>9, <3>1
  <2>2. ASSUME NEW n \in 1 .. N, n - 1 \in T
        PROVE  n \in T
    <3>1. n \in 0 .. N /\ n # 0
      BY <1>1
    <3>2. tree[n] = step(tree[n - 1], n)
      BY <1>9, <3>1
    <3> QED
      BY <1>4, <2>2, <3>1, <3>2
  <2>3. T \in SUBSET (0 .. N)
    OBVIOUS
  <2> HIDE DEF T
  <2>4. T = 0 .. N
    BY <1>1, <2>1, <2>2, <2>3, UpTo
  <2> QED
    BY <2>4 DEF T
<1>11. N \in 0 .. N /\ Tr!Tree = tree[N]
  BY <1>1 DEF Tr!Tree, tree, N
<1> QED
  BY <1>10, <1>11 DEF At, N

-----------------------------------------------------------------------------
(* The tree of a turn: what a tree that is whole tells of the files        *)

TrFrom(f, start) == IF f = MainFile THEN start ELSE 0
TrAnswersOf(f, start) == TrUpTo(f, TRUE, TrFrom(f, start), Len(world.log))
TrResultsOf(f, start) == TrUpTo(f, FALSE, TrFrom(f, start), Len(world.log))

(* The terms of the property.                                              *)
TrOwn(ev, start) ==
  {i \in 1 .. Len(world.log) :
     world.log[i].file \in Tr!MergedAgents(ev) \cup (IF i > start THEN {MainFile} ELSE {})}
TrModels(ev) == {k \in DOMAIN ev : ev[k].id[1] = "answer"}
TrTools(ev) == {k \in DOMAIN ev : ev[k].call # None}
TrAbove(ev, k) == ev[Tr!FirstAt(ev, ev[k].parent)]
TrReturns(ev, start, c) == {i \in TrOwn(ev, start) \ Tr!Answers : world.log[i].call = c}

LEMMA TrCardinality == \A S : Tr!Cardinality(S) = Cardinality(S)
  BY DEF Tr!Cardinality, Cardinality

LEMMA TrWholeParts ==
  ASSUME TrLog, NEW ev, NEW start \in Nat, TrWhole(ev, start), NEW f \in TrFiles(ev)
  PROVE  /\ \E root : TrGot(TrPartOf(ev, f), f, root, TrAnswersOf(f, start), TrCalls(TrAnswersOf(f, start)),
                            TrResultsOf(f, start))
                      /\ (f = MainFile => root = ev[1])
                      /\ (f # MainFile => TrRunBy(Elems(ev), f, root))
         /\ \A x \in TrPartOf(ev, f) : x \in Elems(ev) /\ \E k \in DOMAIN ev : x = ev[k]
<1>1. \A x \in TrPartOf(ev, f) : x \in Elems(ev) /\ \E k \in DOMAIN ev : x = ev[k]
  BY DEF TrPartOf, Elems
<1>2. CASE f = MainFile
  <2>1. TrHas(TrPartOf(ev, f), f, ev[1], TrFrom(f, start))
    BY <1>2 DEF TrWhole, TrFrom
  <2> QED
    BY <1>1, <1>2, <2>1 DEF TrHas, TrAnswersOf, TrResultsOf
<1>3. CASE f # MainFile
  <2>1. PICK root : TrHas(TrPartOf(ev, f), f, root, TrFrom(f, start)) /\ TrRunBy(Elems(ev), f, root)
    BY <1>3 DEF TrWhole, TrFrom
  <2> QED
    BY <1>1, <1>3, <2>1 DEF TrHas, TrAnswersOf, TrResultsOf
<1> QED
  BY <1>2, <1>3

LEMMA TrFilesOf ==
  ASSUME NEW ev, NEW start, TrWhole(ev, start)
  PROVE  /\ TrTree(ev) /\ 1 \in DOMAIN ev /\ ev[1].file = MainFile /\ MainFile \in TrFiles(ev)
         /\ Tr!MergedAgents(ev) = TrFiles(ev) \ {MainFile}
         /\ \A k \in DOMAIN ev : ev[k].file \in TrFiles(ev) /\ ev[k] \in TrPartOf(ev, ev[k].file)
<1>1. TrTree(ev) /\ 1 \in DOMAIN ev /\ ev[1] = Tr!Turn(start)
  BY DEF TrWhole, TrTree
<1>2. ev[1].file = MainFile
  BY <1>1 DEF Tr!Turn, Tr!Event
<1>3. \A k \in DOMAIN ev : ev[k].file \in TrFiles(ev) /\ ev[k] \in TrPartOf(ev, ev[k].file)
  BY DEF TrFiles, TrPartOf, Elems
<1>4. TrFiles(ev) = {ev[k].file : k \in DOMAIN ev}
  BY DEF TrFiles, Elems
<1> QED
  BY <1>1, <1>2, <1>3, <1>4 DEF Tr!MergedAgents

LEMMA TrOwned ==
  ASSUME TrLog, NEW ev, NEW start \in Nat, TrWhole(ev, start)
  PROVE  /\ \A i : i \in TrOwn(ev, start) /\ i \in Tr!Answers <=>
              i \in DOMAIN world.log /\ world.log[i].file \in TrFiles(ev) /\ i \in TrAnswersOf(world.log[i].file, start)
         /\ \A i : i \in TrOwn(ev, start) /\ i \notin Tr!Answers <=>
              i \in DOMAIN world.log /\ world.log[i].file \in TrFiles(ev) /\ i \in TrResultsOf(world.log[i].file, start)
         /\ \A f : (\A i \in TrAnswersOf(f, start) : i \in DOMAIN world.log /\ world.log[i].file = f)
                   /\ \A i \in TrResultsOf(f, start) : i \in DOMAIN world.log /\ world.log[i].file = f
<1>1. /\ DOMAIN world.log = 1 .. Len(world.log) /\ Len(world.log) \in Nat
      /\ \A i \in DOMAIN world.log : i \in Nat /\ i > 0 /\ i <= Len(world.log) /\ world.log[i].answer \in BOOLEAN
  BY TrLines
<1>2. Tr!MergedAgents(ev) = TrFiles(ev) \ {MainFile} /\ MainFile \in TrFiles(ev)
  BY TrFilesOf
<1>3. \A i : i \in TrOwn(ev, start) <=>
        i \in DOMAIN world.log /\ world.log[i].file \in TrFiles(ev) /\ TrFrom(world.log[i].file, start) < i
  BY <1>1, <1>2 DEF TrOwn, TrFrom
<1>4. \A i : i \in Tr!Answers <=> i \in DOMAIN world.log /\ world.log[i].answer
  BY DEF Tr!Answers, Tr!Lines
<1>5. \A f, i : i \in TrAnswersOf(f, start) <=>
        i \in DOMAIN world.log /\ world.log[i].file = f /\ world.log[i].answer = TRUE /\ TrFrom(f, start) < i
  BY <1>1 DEF TrAnswersOf, TrUpTo, TrOfFile
<1>6. \A f, i : i \in TrResultsOf(f, start) <=>
        i \in DOMAIN world.log /\ world.log[i].file = f /\ world.log[i].answer = FALSE /\ TrFrom(f, start) < i
  BY <1>1 DEF TrResultsOf, TrUpTo, TrOfFile
<1>7. \A i : i \in TrOwn(ev, start) /\ i \in Tr!Answers <=>
        i \in DOMAIN world.log /\ world.log[i].file \in TrFiles(ev) /\ i \in TrAnswersOf(world.log[i].file, start)
  BY <1>1, <1>3, <1>4, <1>5
<1>8. \A i : i \in TrOwn(ev, start) /\ i \notin Tr!Answers <=>
        i \in DOMAIN world.log /\ world.log[i].file \in TrFiles(ev) /\ i \in TrResultsOf(world.log[i].file, start)
  BY <1>1, <1>3, <1>4, <1>6
<1> QED
  BY <1>5, <1>6, <1>7, <1>8

LEMMA TrAboveIs ==
  ASSUME NEW ev, TrTree(ev), NEW k \in DOMAIN ev, NEW x \in Elems(ev), x.id = ev[k].parent
  PROVE  TrAbove(ev, k) = x
<1>1. PICK j \in DOMAIN ev : x = ev[j]
  BY DEF Elems
<1>2. Tr!FirstAt(ev, ev[j].id) = j
  BY TrFirst
<1> QED
  BY <1>1, <1>2 DEF TrAbove

(* Answers are told once, and their calls at them;                         *)
LEMMA TrAnswersTold ==
  ASSUME TrLog, NEW ev, NEW start \in Nat, TrWhole(ev, start), NEW i \in TrOwn(ev, start), i \in Tr!Answers
  PROVE  /\ Cardinality({k \in TrModels(ev) : i \in ev[k].lines}) = 1
         /\ world.log[i].call # None =>
              \E k \in TrTools(ev) : ev[k].lines = {i} /\ i \in TrAbove(ev, k).lines
<1> DEFINE f == world.log[i].file
           E == TrPartOf(ev, f)
           A == TrAnswersOf(f, start)
           R == TrResultsOf(f, start)
<1>1. i \in DOMAIN world.log /\ f \in TrFiles(ev) /\ i \in A
  BY TrOwned
<1> HIDE DEF f
<1>2. PICK root : TrGot(E, f, root, A, TrCalls(A), R)
  BY <1>1, TrWholeParts
<1>3. \A x \in E : \E k \in DOMAIN ev : x = ev[k]
  BY <1>1, TrWholeParts
<1>4. TrCovered(E, A, TrCalls(A), R)
  BY <1>2 DEF TrGot
<1>5. PICK e \in E : e.id[1] = "answer" /\ i \in e.lines
  BY <1>1, <1>4 DEF TrCovered
<1>6. PICK k \in DOMAIN ev : e = ev[k]
  BY <1>3
<1>7. TrTree(ev) /\ \A l \in DOMAIN ev : ev[l].file \in TrFiles(ev) /\ ev[l] \in TrPartOf(ev, ev[l].file)
  BY TrFilesOf
<1> HIDE DEF E, A, R
<1>8. \A l \in DOMAIN ev : ev[l].id[1] = "answer" /\ i \in ev[l].lines => l = k
  <2> SUFFICES ASSUME NEW l \in DOMAIN ev, ev[l].id[1] = "answer", i \in ev[l].lines
               PROVE  l = k
    OBVIOUS
  <2> DEFINE g == ev[l].file
  <2>1. g \in TrFiles(ev) /\ ev[l] \in TrPartOf(ev, g)
    BY <1>7
  <2> HIDE DEF g
  <2>2. PICK top : TrGot(TrPartOf(ev, g), g, top, TrAnswersOf(g, start), TrCalls(TrAnswersOf(g, start)), TrResultsOf(g, start))
    BY <2>1, TrWholeParts
  <2>3. TrIsAnswer(ev[l], g, top, TrAnswersOf(g, start))
    BY <2>1, <2>2, TrKinds
  <2>4. i \in TrAnswersOf(g, start)
    BY <2>3 DEF TrIsAnswer
  <2>5. g = f
    BY <2>4, TrOwned DEF f
  <2>6. ev[l] = e
    BY <1>1, <1>4, <1>5, <2>1, <2>5 DEF TrCovered, E
  <2> QED
    BY <1>6, <1>7, <2>6 DEF TrTree, TrPlaces
<1>9. {l \in TrModels(ev) : i \in ev[l].lines} = {k}
  BY <1>5, <1>6, <1>8 DEF TrModels
<1>10. ASSUME world.log[i].call # None
       PROVE  \E l \in TrTools(ev) : ev[l].lines = {i} /\ i \in TrAbove(ev, l).lines
  <2>1. i \in TrCalls(A)
    BY <1>1, <1>10 DEF TrCalls
  <2>2. PICK t \in E : t.call # None /\ t.lines = {i}
    BY <1>4, <2>1 DEF TrCovered
  <2>3. PICK l \in DOMAIN ev : t = ev[l]
    BY <1>3 DEF E
  <2>4. TrIsTool(t, E, f, root, A, TrCalls(A), R)
    BY <1>2, <2>2, TrKinds
  <2>5. PICK a \in E : i \in a.lines /\ t.parent = a.id
    <3>1. TrBelow(t, E, root, TrCalls(A))
      BY <2>4 DEF TrIsTool
    <3>2. PICK j \in TrCalls(A) : t.lines = {j} /\ \E a \in E : j \in a.lines /\ t.parent = a.id
      BY <2>2, <3>1 DEF TrBelow
    <3>3. j = i
      BY <2>2, <3>2
    <3> QED
      BY <3>2, <3>3
  <2>6. a \in Elems(ev)
    BY DEF E, TrPartOf
  <2>7. TrAbove(ev, l) = a
    BY <1>7, <2>3, <2>5, <2>6, TrAboveIs
  <2> QED
    BY <2>2, <2>3, <2>5, <2>7 DEF TrTools
<1>11. Cardinality({k}) = 1
  BY FS_Singleton
<1> QED
  BY <1>9, <1>10, <1>11

(* one event is of the records of one message, and below the root;         *)
LEMMA TrModelsTold ==
  ASSUME TrLog, NEW ev, NEW start \in Nat, TrWhole(ev, start), NEW k \in TrModels(ev)
  PROVE  LET usages == {world.log[i].usage : i \in ev[k].lines} IN
         /\ IF ev[k].message = None THEN Cardinality(ev[k].lines) = 1
            ELSE ev[k].lines = {i \in TrOwn(ev, start) : world.log[i].message = ev[k].message}
         /\ ev[k].usage \in usages /\ \A u \in usages : u <= ev[k].usage
         /\ TrAbove(ev, k).file = ev[k].file /\ TrAbove(ev, k).id[1] \in {"turn", "agent"}
<1> DEFINE e == ev[k]
           f == ev[k].file
           E == TrPartOf(ev, f)
           A == TrAnswersOf(f, start)
           R == TrResultsOf(f, start)
           lines == ev[k].lines
           m == ev[k].message
<1>1. k \in DOMAIN ev /\ e.id[1] = "answer"
  BY DEF TrModels
<1>2. TrTree(ev) /\ f \in TrFiles(ev) /\ e \in E
  BY <1>1, TrFilesOf
<1> HIDE DEF f
<1>3. PICK root : TrGot(E, f, root, A, TrCalls(A), R)
  BY <1>2, TrWholeParts
<1>4. TrIsAnswer(e, f, root, A)
  BY <1>1, <1>2, <1>3, TrKinds
<1>5. /\ e.parent = root.id /\ lines \subseteq A /\ \A i \in lines : world.log[i].message = m
      /\ IF m = None THEN \E i \in A : lines = {i}
         ELSE \A i \in A : world.log[i].message = m => i \in lines
      /\ \E i \in lines : e.usage = world.log[i].usage
      /\ \A i \in lines : world.log[i].usage <= e.usage
  BY <1>4 DEF TrIsAnswer
<1>6. root \in E /\ root.file = f /\ root.id[1] \in {"turn", "agent"}
  <2>1. root \in E /\ TrIsRoot(root, f)
    BY <1>3 DEF TrGot
  <2>2. root.id \in {"turn", "agent"} \X {f} \X Nat
    BY <2>1 DEF TrIsRoot
  <2> QED
    BY <2>1, <2>2 DEF TrIsRoot
<1>7. TrAbove(ev, k) = root
  <2>1. root \in Elems(ev)
    BY <1>6 DEF TrPartOf
  <2> QED
    BY <1>1, <1>2, <1>5, <2>1, TrAboveIs
<1> HIDE DEF e, E, A, R, lines, m
<1>8. CASE m = None
  <2>1. PICK i \in A : lines = {i}
    BY <1>5, <1>8
  <2>2. Cardinality(lines) = 1
    BY <2>1, FS_Singleton
  <2> QED
    BY <1>2, <1>5, <1>6, <1>7, <1>8, <2>2 DEF e, lines, m, f
<1>9. CASE m # None
  <2>1. \A i \in lines : i \in TrOwn(ev, start)
    <3>1. \A i \in A : i \in DOMAIN world.log /\ world.log[i].file = f
      BY TrOwned DEF A
    <3>2. \A i \in A : i \in TrAnswersOf(world.log[i].file, start)
      BY <3>1 DEF A
    <3> QED
      BY <1>2, <1>5, <3>1, <3>2, TrOwned
  <2>2. ASSUME NEW i \in TrOwn(ev, start), world.log[i].message = m
        PROVE  i \in lines
    <3>1. PICK j \in lines : world.log[j].message = m
      BY <1>5
    <3>2. j \in DOMAIN world.log /\ world.log[j].file = f
      BY <1>5, TrOwned DEF A
    <3>3. i \in DOMAIN world.log
      BY TrOwned, <2>2
    <3>4. i \in Tr!Answers
      BY <1>9, <2>2, <3>3 DEF TrLog, Tr!Answers, Tr!Lines
    <3>5. world.log[i].file = f
      BY <1>9, <2>2, <3>1, <3>2, <3>3 DEF TrLog
    <3>6. i \in A
      BY <2>2, <3>4, <3>5, TrOwned DEF A
    <3> QED
      BY <1>5, <1>9, <2>2, <3>6
  <2>3. lines = {i \in TrOwn(ev, start) : world.log[i].message = m}
    BY <1>5, <2>1, <2>2
  <2> QED
    BY <1>2, <1>5, <1>6, <1>7, <1>9, <2>3 DEF e, lines, m, f
<1> QED
  BY <1>8, <1>9

(* the first tool of a call has its last result;                           *)
LEMMA TrToolsTold ==
  ASSUME TrLog, NEW ev, NEW start \in Nat, TrWhole(ev, start), NEW k \in TrTools(ev)
  PROVE  LET c == ev[k].call
             results == TrReturns(ev, start, c) IN
         ev[k].result =
           IF results = {} \/ (\E l \in TrTools(ev) : l < k /\ ev[l].call = c) THEN None
           ELSE CHOOSE i \in results : \A j \in results : j <= i
<1> DEFINE e == ev[k]
           c == ev[k].call
           results == TrReturns(ev, start, c)
           f == ev[k].file
           E == TrPartOf(ev, f)
           A == TrAnswersOf(f, start)
           R == TrResultsOf(f, start)
<1>1. k \in DOMAIN ev /\ c # None
  BY DEF TrTools
<1>2. TrTree(ev) /\ f \in TrFiles(ev) /\ e \in E /\ DOMAIN ev \subseteq Nat
  BY <1>1, TrFilesOf, TrSeq
<1> HIDE DEF f
<1>3. (\E root : TrGot(E, f, root, A, TrCalls(A), R)) /\ \A x \in E : \E l \in DOMAIN ev : x = ev[l]
  BY <1>2, TrWholeParts
<1>4. PICK root : TrGot(E, f, root, A, TrCalls(A), R)
  BY <1>3
<1>5. TrIsTool(e, E, f, root, A, TrCalls(A), R)
  BY <1>1, <1>2, <1>4, TrKinds
<1>6. /\ (\E i \in A \cup R : world.log[i].call = c)
      /\ TrFirstTool(e, R) \/ TrOtherTool(e, E, f)
  BY <1>5 DEF TrIsTool
<1>7. \A i : i \in results <=> i \in R /\ world.log[i].call = c
  <2>1. \A i \in A \cup R : i \in DOMAIN world.log /\ world.log[i].file = f
    BY TrOwned
  <2> HIDE DEF A, R, c
  <2>2. \A i : i \in results => i \in R /\ world.log[i].call = c
    <3> SUFFICES ASSUME NEW i \in results
                 PROVE  i \in R /\ world.log[i].call = c
      OBVIOUS
    <3>1. i \in TrOwn(ev, start) /\ i \notin Tr!Answers /\ world.log[i].call = c
      BY DEF TrReturns
    <3>2. i \in DOMAIN world.log /\ i \in TrResultsOf(world.log[i].file, start)
      BY <3>1, TrOwned
    <3>3. PICK j \in A \cup R : world.log[j].call = c
      BY <1>6
    <3>4. j \in DOMAIN world.log /\ world.log[j].file = f
      BY <2>1
    <3>5. world.log[i].file = f
      BY <1>1, <3>1, <3>2, <3>3, <3>4 DEF TrLog
    <3> QED
      BY <3>1, <3>2, <3>5 DEF R
  <2>3. \A i : i \in R /\ world.log[i].call = c => i \in results
    <3> SUFFICES ASSUME NEW i \in R, world.log[i].call = c
                 PROVE  i \in results
      OBVIOUS
    <3>1. i \in DOMAIN world.log /\ world.log[i].file = f
      BY <2>1
    <3>2. i \in TrResultsOf(world.log[i].file, start)
      BY <3>1 DEF R
    <3>3. i \in TrOwn(ev, start) /\ i \notin Tr!Answers
      BY <1>2, <3>1, <3>2, TrOwned
    <3> QED
      BY <3>3 DEF TrReturns
  <2> QED
    BY <2>2, <2>3
<1> HIDE DEF e, E, A, R, c, results
<1>8. CASE TrFirstTool(e, R)
  <2>1. ~ \E l \in TrTools(ev) : l < k /\ ev[l].call = c
    <3> SUFFICES ASSUME NEW l \in TrTools(ev), l < k, ev[l].call = c
                 PROVE  FALSE
      OBVIOUS
    <3>1. l \in DOMAIN ev
      BY DEF TrTools
    <3>2. ev[k].id[1] = "tool"
      BY <1>8 DEF TrFirstTool, e
    <3>3. k <= l
      BY <1>1, <1>2, <3>1, <3>2 DEF TrTree, TrPlaces, c
    <3>4. l \in Nat /\ k \in Nat
      BY <1>1, <1>2, <3>1
    <3> QED
      BY <3>3, <3>4
  <2>2. CASE results = {}
    <3>1. \A i \in R : world.log[i].call # e.call
      BY <1>7, <2>2 DEF c, e
    <3>2. e.result = None
      BY <1>8, <3>1 DEF TrFirstTool
    <3> QED
      BY <2>2, <3>2 DEF e, c, results
  <2>3. CASE results # {}
    <3>1. e.result \in results /\ \A j \in results : j <= e.result
      <4>1. \A i \in results : i \in R /\ world.log[i].call = e.call
        BY <1>7 DEF c, e
      <4>2. e.call = c
        BY DEF c, e
      <4>3. \A i \in results : e.result \in R /\ world.log[e.result].call = c /\ i <= e.result
        BY <1>8, <4>1, <4>2 DEF TrFirstTool
      <4> QED
        BY <1>7, <2>3, <4>3
    <3>2. results \in SUBSET Nat
      <4>1. \A i \in R : i \in DOMAIN world.log
        BY TrOwned DEF R
      <4>2. DOMAIN world.log \subseteq Nat
        BY TrLines
      <4> QED
        BY <1>7, <4>1, <4>2
    <3>3. e.result = CHOOSE i \in results : \A j \in results : j <= i
      <4> DEFINE r == e.result
      <4>1. r \in results /\ \A j \in results : j <= r
        BY <3>1
      <4> HIDE DEF r
      <4>2. \A i \in results : (\A j \in results : j <= i) => i = r
        BY <3>2, <4>1
      <4>3. r = CHOOSE i \in results : \A j \in results : j <= i
        BY <4>1, <4>2
      <4> QED
        BY <4>3 DEF r
    <3> QED
      BY <2>1, <2>3, <3>3 DEF e, c, results
  <2> QED
    BY <2>2, <2>3
<1>9. CASE TrOtherTool(e, E, f)
  <2>1. PICK d \in E : d.id = <<"tool", MainFile, c>>
    BY <1>9 DEF TrOtherTool, e, c
  <2>2. d.call = c
    BY <1>4, <2>1, TrToolOf
  <2>3. PICK l \in DOMAIN ev : d = ev[l]
    BY <1>3 DEF E
  <2>4. l <= k
    BY <1>1, <1>2, <2>1, <2>2, <2>3 DEF TrTree, TrPlaces, c
  <2>5. l # k
    <3>1. e.id[1] = "again"
      BY <1>9 DEF TrOtherTool
    <3> QED
      BY <2>1, <2>3, <3>1 DEF e
  <2>6. l \in TrTools(ev) /\ l < k /\ ev[l].call = c
    <3>1. l \in Nat /\ k \in Nat
      BY <1>1, <1>2
    <3> QED
      BY <1>1, <2>2, <2>3, <2>4, <2>5, <3>1 DEF TrTools
  <2>7. e.result = None
    BY <1>9 DEF TrOtherTool
  <2> QED
    BY <2>6, <2>7 DEF e, c
<1> QED
  BY <1>6, <1>8, <1>9

(* What is so of the files and of the agents.                              *)
TrWorld ==
  /\ DOMAIN world = {"log", "start", "turns", "odd", "stopped", "by"}
  /\ TrLog /\ world.start \in Nat /\ world.start <= Len(world.log)
  /\ world.by \in [Tr!SubAgents -> TrMaybe] /\ world.stopped \in SUBSET Tr!SubAgents
  /\ \A a \in world.stopped : world.by[a] # None
  /\ \A a, b \in Tr!SubAgents : world.by[a] = world.by[b] /\ world.by[a] # None => a = b
  /\ \A i \in DOMAIN world.log : world.log[i].agent # None =>
       world.log[i].call # None /\ world.by[world.log[i].agent] = world.log[i].call
  /\ \A i \in DOMAIN world.log : ~ world.log[i].answer =>
       \A a \in Tr!SubAgents : world.by[a] = world.log[i].call => world.log[i].agent = a

(* an agent is below the tool that ran it;                                 *)
LEMMA TrAgentsTold ==
  ASSUME TrWorld, NEW ev, NEW start \in Nat, TrWhole(ev, start), NEW k \in DOMAIN ev, ev[k].id[1] = "agent"
  PROVE  TrAbove(ev, k).call = world.by[ev[k].file]
<1> DEFINE e == ev[k]
           f == ev[k].file
           E == TrPartOf(ev, f)
<1>1. TrTree(ev) /\ f \in TrFiles(ev) /\ e \in E /\ TrLog
  BY TrFilesOf DEF TrWorld
<1> HIDE DEF f
<1>2. PICK root : /\ TrGot(E, f, root, TrAnswersOf(f, start), TrCalls(TrAnswersOf(f, start)), TrResultsOf(f, start))
                  /\ (f = MainFile => root = ev[1])
                  /\ (f # MainFile => TrRunBy(Elems(ev), f, root))
  BY <1>1, TrWholeParts
<1>3. e = root
  <2>1. e.id[1] \in {"turn", "agent"}
    OBVIOUS
  <2> QED
    BY <1>1, <1>2, <2>1, TrKinds
<1>4. f # MainFile
  <2>1. ev[1].id[1] = "turn"
    <3>1. ev[1] = Tr!Turn(start)
      BY DEF TrWhole
    <3> QED
      BY <3>1 DEF Tr!Turn, Tr!Event
  <2> QED
    BY <1>2, <1>3, <2>1
<1>5. PICK t \in Elems(ev) : t.id = e.parent /\ t.call # None /\ t.agent = f
  BY <1>2, <1>3, <1>4 DEF TrRunBy
<1>6. TrAbove(ev, k) = t
  BY <1>1, <1>5, TrAboveIs
<1>7. f # None
  <2>1. f \in Tr!Files
    BY <1>1, TrSeq DEF f, TrEvents
  <2> QED
    BY <2>1, HarnessesAssumption DEF Tr!TreeAssumption
<1>8. t.call = world.by[f]
  <2> DEFINE g == t.file
             D == TrPartOf(ev, g)
             R == TrResultsOf(g, start)
  <2>1. g \in TrFiles(ev) /\ t \in D
    BY DEF TrFiles, TrPartOf
  <2> HIDE DEF g
  <2>2. PICK top : TrGot(D, g, top, TrAnswersOf(g, start), TrCalls(TrAnswersOf(g, start)), R)
    BY <1>1, <2>1, TrWholeParts
  <2>3. TrIsTool(t, D, g, top, TrAnswersOf(g, start), TrCalls(TrAnswersOf(g, start)), R)
    BY <1>5, <2>1, <2>2, TrKinds
  <2>4. TrFirstTool(t, R)
    BY <1>5, <1>7, <2>3 DEF TrIsTool, TrOtherTool
  <2>5. PICK i \in R : world.log[i].call = t.call
    BY <1>5, <1>7, <2>4 DEF TrFirstTool
  <2> HIDE DEF R, D
  <2>6. t.result \in R /\ world.log[t.result].call = t.call /\ f = world.log[t.result].agent
    BY <1>5, <2>4, <2>5 DEF TrFirstTool
  <2>7. t.result \in DOMAIN world.log
    BY <1>1, <2>6, TrOwned DEF R
  <2> QED
    BY <1>7, <2>6, <2>7 DEF TrWorld
<1> QED
  BY <1>6, <1>8 DEF f

(* and none is left out that a result of the transcript names.             *)
TrComplete(ev, pending) ==
  \A a \in pending : (\E x \in TrPartOf(ev, MainFile) : x.call # None /\ x.agent = a) => a \in TrFiles(ev)

LEMMA TrPendingTold ==
  ASSUME TrWorld, NEW ev, NEW start \in Nat, TrWhole(ev, start), NEW pending, TrComplete(ev, pending),
         NEW a \in pending, a \in Tr!SubAgents,
         TrReturns(ev, start, world.by[a]) # {}, world.by[a] \in Tr!CallsIn(MainFile)
  PROVE  a \in Tr!MergedAgents(ev)
<1> DEFINE c == world.by[a]
           E == TrPartOf(ev, MainFile)
           R == TrResultsOf(MainFile, start)
<1>1. TrLog /\ MainFile \in TrFiles(ev) /\ Tr!MergedAgents(ev) = TrFiles(ev) \ {MainFile}
  BY TrFilesOf DEF TrWorld
<1>2. c # None /\ \E j \in DOMAIN world.log : world.log[j].call = c /\ world.log[j].file = MainFile
  BY DEF Tr!CallsIn, Tr!Answers, Tr!Lines
<1>3. PICK i \in TrOwn(ev, start) \ Tr!Answers : world.log[i].call = c
  BY DEF TrReturns
<1> HIDE DEF c
<1>4. i \in R
  <2>1. i \in DOMAIN world.log /\ i \in TrResultsOf(world.log[i].file, start)
    BY <1>1, <1>3, TrOwned
  <2>2. world.log[i].file = MainFile
    BY <1>1, <1>2, <1>3, <2>1 DEF TrLog
  <2> QED
    BY <2>1, <2>2
<1>5. PICK root : TrGot(E, MainFile, root, TrAnswersOf(MainFile, start), TrCalls(TrAnswersOf(MainFile, start)), R)
  BY <1>1, TrWholeParts
<1>6. PICK t \in E : t.id = <<"tool", MainFile, c>>
  <2>1. \E t \in E : t.id = <<"tool", MainFile, world.log[i].call>>
    BY <1>4, <1>5 DEF TrGot, TrCovered
  <2> QED
    BY <1>3, <2>1
<1>7. t.call = c /\ TrFirstTool(t, R)
  BY <1>5, <1>6, TrToolOf
<1> HIDE DEF E, R
<1>8. t.result \in R /\ world.log[t.result].call = c /\ t.agent = world.log[t.result].agent
  BY <1>3, <1>4, <1>7 DEF TrFirstTool
<1>9. t.result \in DOMAIN world.log /\ ~ world.log[t.result].answer
  BY <1>8 DEF R, TrResultsOf, TrUpTo, TrOfFile
<1>10. t.agent = a
  BY <1>8, <1>9 DEF TrWorld, c
<1>11. a \in TrFiles(ev)
  BY <1>2, <1>6, <1>7, <1>10 DEF TrComplete, E
<1>12. a # MainFile
  BY HarnessesAssumption DEF Tr!TreeAssumption
<1> QED
  BY <1>1, <1>11, <1>12

-----------------------------------------------------------------------------
(* The tree of a turn: the trees that are sent                             *)

TrTold(ev, start, seen, pending) ==
  LET own == {i \in 1 .. seen : world.log[i].file \in Tr!MergedAgents(ev) \cup
                                  (IF i > start THEN {MainFile} ELSE {})}
      models == {k \in DOMAIN ev : ev[k].id[1] = "answer"}
      tools == {k \in DOMAIN ev : ev[k].call # None}
      agents == {k \in DOMAIN ev : ev[k].id[1] = "agent"}
      above(k) == ev[Tr!FirstAt(ev, ev[k].parent)]
      results(c) == {i \in own \ Tr!Answers : world.log[i].call = c} IN
  /\ \A k \in 2 .. Len(ev) : Tr!SafeParent(ev, k) = ev[k].parent /\ Tr!IsFirst(ev, k)
  /\ \A i \in own \cap Tr!Answers :
       /\ Tr!Cardinality({k \in models : i \in ev[k].lines}) = 1
       /\ world.log[i].call # None =>
            \E k \in tools : ev[k].lines = {i} /\ i \in above(k).lines
  /\ \A k \in models :
       LET usages == {world.log[i].usage : i \in ev[k].lines} IN
       /\ IF ev[k].message = None THEN Tr!Cardinality(ev[k].lines) = 1
          ELSE ev[k].lines = {i \in own : world.log[i].message = ev[k].message}
       /\ ev[k].usage \in usages /\ \A u \in usages : u <= ev[k].usage
       /\ above(k).file = ev[k].file /\ above(k).id[1] \in {"turn", "agent"}
  /\ \A k \in tools :
       LET c == ev[k].call IN
       ev[k].result =
         IF results(c) = {} \/ (\E l \in tools : l < k /\ ev[l].call = c) THEN None
         ELSE CHOOSE i \in results(c) : \A j \in results(c) : j <= i
  /\ \A k \in agents : above(k).call = world.by[ev[k].file]
  /\ \A a \in pending :
       results(world.by[a]) # {} /\ world.by[a] \in Tr!CallsIn(MainFile) => a \in Tr!MergedAgents(ev)

LEMMA TrTells ==
  ASSUME TrWorld, NEW ev, NEW start \in Nat, TrWhole(ev, start),
         NEW pending \in SUBSET Tr!SubAgents, TrComplete(ev, pending)
  PROVE  TrTold(ev, start, Len(world.log), pending)
<1>1. TrLog
  BY DEF TrWorld
<1>2. \A k \in 2 .. Len(ev) : Tr!SafeParent(ev, k) = ev[k].parent /\ Tr!IsFirst(ev, k)
  <2>1. TrTree(ev) /\ ev[1].parent = None
    <3>1. TrTree(ev) /\ ev[1] = Tr!Turn(start)
      BY DEF TrWhole
    <3> QED
      BY <3>1 DEF Tr!Turn, Tr!Event
  <2>2. \A k \in 2 .. Len(ev) : k \in DOMAIN ev
    BY <2>1, TrSeq
  <2> QED
    BY <2>1, <2>2, TrUncut, TrFirst
<1>3. \A i \in TrOwn(ev, start) \cap Tr!Answers :
        /\ Tr!Cardinality({k \in TrModels(ev) : i \in ev[k].lines}) = 1
        /\ world.log[i].call # None =>
             \E k \in TrTools(ev) : ev[k].lines = {i} /\ i \in TrAbove(ev, k).lines
  BY <1>1, TrAnswersTold, TrCardinality
<1>4. \A k \in TrModels(ev) :
        LET usages == {world.log[i].usage : i \in ev[k].lines} IN
        /\ IF ev[k].message = None THEN Tr!Cardinality(ev[k].lines) = 1
           ELSE ev[k].lines = {i \in TrOwn(ev, start) : world.log[i].message = ev[k].message}
        /\ ev[k].usage \in usages /\ \A u \in usages : u <= ev[k].usage
        /\ TrAbove(ev, k).file = ev[k].file /\ TrAbove(ev, k).id[1] \in {"turn", "agent"}
  <2> SUFFICES ASSUME NEW k \in TrModels(ev)
               PROVE  LET usages == {world.log[i].usage : i \in ev[k].lines} IN
                      /\ IF ev[k].message = None THEN Tr!Cardinality(ev[k].lines) = 1
                         ELSE ev[k].lines = {i \in TrOwn(ev, start) : world.log[i].message = ev[k].message}
                      /\ ev[k].usage \in usages /\ \A u \in usages : u <= ev[k].usage
                      /\ TrAbove(ev, k).file = ev[k].file /\ TrAbove(ev, k).id[1] \in {"turn", "agent"}
    OBVIOUS
  <2>1. Tr!Cardinality(ev[k].lines) = Cardinality(ev[k].lines)
    BY TrCardinality
  <2> QED
    BY <1>1, <2>1, TrModelsTold
<1>5. \A k \in TrTools(ev) :
        LET c == ev[k].call IN
        ev[k].result =
          IF TrReturns(ev, start, c) = {} \/ (\E l \in TrTools(ev) : l < k /\ ev[l].call = c) THEN None
          ELSE CHOOSE i \in TrReturns(ev, start, c) : \A j \in TrReturns(ev, start, c) : j <= i
  BY <1>1, TrToolsTold
<1>6. \A k \in DOMAIN ev : ev[k].id[1] = "agent" => TrAbove(ev, k).call = world.by[ev[k].file]
  BY TrAgentsTold
<1>7. \A a \in pending :
        TrReturns(ev, start, world.by[a]) # {} /\ world.by[a] \in Tr!CallsIn(MainFile) => a \in Tr!MergedAgents(ev)
  BY TrPendingTold
<1> QED
  BY <1>2, <1>3, <1>4, <1>5, <1>6, <1>7 DEF TrTold, TrOwn, TrModels, TrTools, TrAbove, TrReturns

-----------------------------------------------------------------------------
(* The tree of a turn: every step                                          *)

TrExported(s) ==
  /\ s.seen \in Nat /\ s.seen <= Len(world.log) /\ s.start \in Nat /\ s.pending \subseteq world.stopped
  /\ Tr!MergedAgents(s.tree) \subseteq world.stopped \ store
  /\ s.seen = Len(world.log) /\ s.tree # <<>> => TrWhole(s.tree, s.start) /\ TrComplete(s.tree, s.pending)

TrApartSent ==
  \A n, l \in DOMAIN sent :
    n # l => Tr!MergedAgents(sent[n].tree) \cap Tr!MergedAgents(sent[l].tree) = {}

TrExports ==
  /\ IsSeq(sent) /\ store \subseteq world.stopped
  /\ \A s \in Elems(sent) : TrExported(s)
  /\ TrApartSent

(* Calls and messages are numbered as they come.                           *)
TrNumbered ==
  /\ \E n \in Nat : Tr!Calls = 1 .. n
  /\ \E n \in Nat : Tr!Messages = 1 .. n
  /\ \A i \in DOMAIN world.log : world.log[i].call # None => world.log[i].call \in Tr!Calls

TrInv == TrWorld /\ TrNumbered /\ TrExports

LEMMA TrRecorded == TrInv => Tr!TreeAsRecorded
<1> SUFFICES ASSUME TrInv
             PROVE  Tr!TreeAsRecorded
  OBVIOUS
<1>1. TrWorld /\ TrExports
  BY DEF TrInv
<1>2. \A n \in DOMAIN sent : sent[n].seen = Len(world.log) /\ sent[n].tree # <<>> =>
        TrTold(sent[n].tree, sent[n].start, sent[n].seen, sent[n].pending)
  <2> SUFFICES ASSUME NEW n \in DOMAIN sent, sent[n].seen = Len(world.log), sent[n].tree # <<>>
               PROVE  TrTold(sent[n].tree, sent[n].start, sent[n].seen, sent[n].pending)
    OBVIOUS
  <2> DEFINE ev == sent[n].tree
             start == sent[n].start
             pending == sent[n].pending
  <2>1. TrExported(sent[n])
    BY <1>1 DEF TrExports, Elems
  <2>2. start \in Nat /\ TrWhole(ev, start) /\ TrComplete(ev, pending) /\ pending \in SUBSET Tr!SubAgents
    BY <1>1, <2>1 DEF TrExported, TrWorld
  <2> HIDE DEF ev, start, pending
  <2>3. TrTold(ev, start, Len(world.log), pending)
    BY <1>1, <2>2, TrTells
  <2> QED
    BY <2>3 DEF ev, start, pending
<1>3. \A n, l \in DOMAIN sent :
        n # l => Tr!MergedAgents(sent[n].tree) \cap Tr!MergedAgents(sent[l].tree) = {}
  BY <1>1 DEF TrExports, TrApartSent
<1> QED
  BY <1>2, <1>3 DEF Tr!TreeAsRecorded, TrTold

LEMMA TrInitially == Tr!Init => TrInv
<1> SUFFICES ASSUME Tr!Init
             PROVE  TrInv
  OBVIOUS
<1>1. PICK odd \in BOOLEAN :
        world = [log |-> <<>>, start |-> 0, turns |-> 1, odd |-> odd, stopped |-> {},
                 by |-> [a \in Tr!SubAgents |-> None]]
  BY DEF Tr!Init
<1>2. store = {} /\ sent = <<>>
  BY DEF Tr!Init
<1>3. /\ DOMAIN world = {"log", "start", "turns", "odd", "stopped", "by"}
      /\ world.log = <<>> /\ world.start = 0 /\ world.stopped = {} /\ world.by = [a \in Tr!SubAgents |-> None]
  BY <1>1
<1>4. Len(world.log) = 0 /\ DOMAIN world.log = {} /\ world.log \in Seq(TrRecords)
  BY <1>3
<1>5. TrLog
  BY <1>4 DEF TrLog
<1>6. world.by \in [Tr!SubAgents -> TrMaybe] /\ \A a \in Tr!SubAgents : world.by[a] = None
  BY <1>3 DEF TrMaybe
<1>7. TrWorld
  BY <1>3, <1>4, <1>5, <1>6 DEF TrWorld
<1>8. Tr!Calls = 1 .. 0 /\ Tr!Messages = 1 .. 0
  BY <1>4 DEF Tr!Calls, Tr!Messages, Tr!Answers, Tr!Lines
<1>9. TrNumbered
  BY <1>4, <1>8 DEF TrNumbered
<1>10. TrExports
  <2>1. IsSeq(sent) /\ DOMAIN sent = {} /\ Elems(sent) = {}
    BY <1>2 DEF IsSeq, Elems
  <2> QED
    BY <1>2, <1>3, <2>1 DEF TrExports, TrApartSent
<1> QED
  BY <1>7, <1>9, <1>10 DEF TrInv

(* Of the files alone.                                                     *)
LEMMA TrSameFiles ==
  ASSUME world'.log = world.log
  PROVE  /\ TrLog => TrLog'
         /\ TrNumbered => TrNumbered'
         /\ \A ev, start : TrWhole(ev, start) => TrWhole(ev, start)'
         /\ \A ev, pending : TrComplete(ev, pending) => TrComplete(ev, pending)'
<1>1. TrLog => TrLog'
  BY DEF TrLog
<1>2. Tr!Answers' = Tr!Answers
  BY DEF Tr!Answers, Tr!Lines
<1>3. Tr!Calls' = Tr!Calls /\ Tr!Messages' = Tr!Messages
  BY <1>2 DEF Tr!Calls, Tr!Messages
<1>4. TrNumbered => TrNumbered'
  BY <1>3 DEF TrNumbered
<1>5. \A ev, pending : TrComplete(ev, pending) => TrComplete(ev, pending)'
  BY DEF TrComplete, TrPartOf, TrFiles
<1>6. \A f : TrOfFile(f, TRUE)' = TrOfFile(f, TRUE) /\ TrOfFile(f, FALSE)' = TrOfFile(f, FALSE)
  BY DEF TrOfFile
<1>7. \A f, start, n : TrUpTo(f, TRUE, start, n)' = TrUpTo(f, TRUE, start, n)
                       /\ TrUpTo(f, FALSE, start, n)' = TrUpTo(f, FALSE, start, n)
  BY <1>6 DEF TrUpTo
<1>8. \A A : TrCalls(A)' = TrCalls(A)
  BY DEF TrCalls
<1>9. \A e, f, root, A : TrIsAnswer(e, f, root, A) => TrIsAnswer(e, f, root, A)'
  BY DEF TrIsAnswer
<1>10. \A e, E, root, C : TrBelow(e, E, root, C) => TrBelow(e, E, root, C)'
  BY DEF TrBelow
<1>11. \A e, R : TrFirstTool(e, R) => TrFirstTool(e, R)'
  BY DEF TrFirstTool
<1>12. \A e, E, f : TrOtherTool(e, E, f) => TrOtherTool(e, E, f)'
  BY DEF TrOtherTool
<1>13. \A e, E, f, root, A, C, R : TrIsTool(e, E, f, root, A, C, R) => TrIsTool(e, E, f, root, A, C, R)'
  BY <1>10, <1>11, <1>12 DEF TrIsTool
<1>14. \A E, A, C, R : TrCovered(E, A, C, R) => TrCovered(E, A, C, R)'
  BY DEF TrCovered
<1>15. \A E, f, root, A, C, R : TrGot(E, f, root, A, C, R) => TrGot(E, f, root, A, C, R)'
  <2> SUFFICES ASSUME NEW E, NEW f, NEW root, NEW A, NEW C, NEW R, TrGot(E, f, root, A, C, R)
               PROVE  TrGot(E, f, root, A, C, R)'
    OBVIOUS
  <2>1. A \subseteq TrOfFile(f, TRUE)' /\ R \subseteq TrOfFile(f, FALSE)'
    BY <1>6 DEF TrGot
  <2>2. \A e \in E : e.file = f /\ (e = root \/ TrIsAnswer(e, f, root, A)' \/ TrIsTool(e, E, f, root, A, C, R)')
    BY <1>9, <1>13 DEF TrGot
  <2>3. TrCovered(E, A, C, R)'
    BY <1>14 DEF TrGot
  <2>4. TrIsRoot(root, f)' <=> TrIsRoot(root, f)
    BY DEF TrIsRoot
  <2> QED
    BY <2>1, <2>2, <2>3, <2>4 DEF TrGot
<1>16. \A E, f, root, start : TrHas(E, f, root, start) => TrHas(E, f, root, start)'
  <2> SUFFICES ASSUME NEW E, NEW f, NEW root, NEW start, TrHas(E, f, root, start)
               PROVE  TrHas(E, f, root, start)'
    OBVIOUS
  <2> DEFINE N == Len(world.log)
             A == TrUpTo(f, TRUE, start, N)
             R == TrUpTo(f, FALSE, start, N)
  <2>1. A' = A /\ R' = R
    BY <1>7
  <2>2. TrGot(E, f, root, A, TrCalls(A), R)
    BY DEF TrHas
  <2>3. \A B, C, Q : B = A /\ C = TrCalls(A) /\ Q = R => TrGot(E, f, root, B, C, Q)'
    BY <1>15, <2>2
  <2>4. TrCalls(A)' = TrCalls(A)
    BY <1>8, <2>1
  <2> QED
    BY <2>1, <2>3, <2>4 DEF TrHas
<1>17. \A ev, start : TrWhole(ev, start) => TrWhole(ev, start)'
  <2> SUFFICES ASSUME NEW ev, NEW start, TrWhole(ev, start)
               PROVE  TrWhole(ev, start)'
    OBVIOUS
  <2>1. TrTree(ev)' <=> TrTree(ev)
    BY DEF TrTree, TrPlaces
  <2>2. TrTree(ev)' /\ ev[1] = Tr!Turn(start)
    BY <2>1 DEF TrWhole
  <2>3. TrHas(TrPartOf(ev, MainFile), MainFile, ev[1], start)'
    <3>1. TrHas(TrPartOf(ev, MainFile), MainFile, ev[1], start)
      BY DEF TrWhole
    <3> QED
      BY <1>16, <3>1 DEF TrPartOf
  <2>4. ASSUME NEW f \in TrFiles(ev) \ {MainFile}
        PROVE  \E root : TrHas(TrPartOf(ev, f), f, root, 0)' /\ TrRunBy(Elems(ev), f, root)
    <3>1. PICK root : TrHas(TrPartOf(ev, f), f, root, 0) /\ TrRunBy(Elems(ev), f, root)
      BY DEF TrWhole
    <3>2. TrHas(TrPartOf(ev, f), f, root, 0)'
      BY <1>16, <3>1 DEF TrPartOf
    <3> QED
      BY <3>1, <3>2
  <2> QED
    BY <2>2, <2>3, <2>4 DEF TrWhole, TrFiles, TrRunBy, TrPartOf
<1> QED
  BY <1>1, <1>4, <1>5, <1>17

LEMMA TrSameSent ==
  ASSUME sent' = sent
  PROVE  TrApartSent => TrApartSent'
<1> DEFINE apart(q) ==
      \A n, l \in DOMAIN q : n # l => Tr!MergedAgents(q[n].tree) \cap Tr!MergedAgents(q[l].tree) = {}
<1>1. TrApartSent <=> apart(sent)
  BY DEF TrApartSent
<1>2. TrApartSent' <=> apart(sent')
  BY DEF TrApartSent, Tr!MergedAgents
<1>3. \A q : q = sent => (apart(q) <=> apart(sent))
  OBVIOUS
<1> HIDE DEF apart
<1> QED
  BY <1>1, <1>2, <1>3

(* A record more.                                                          *)
LEMMA TrWrite ==
  ASSUME TrInv, NEW r \in TrRecords, Tr!Write(r),
         ~ r.answer => r.call # None /\ r.message = None /\ r.call \in Tr!Calls,
         \A i \in DOMAIN world.log : world.log[i].call = r.call /\ r.call # None => world.log[i].file = r.file,
         \A i \in DOMAIN world.log : world.log[i].message = r.message /\ r.message # None => world.log[i].file = r.file,
         r.agent # None => r.call # None /\ world.by[r.agent] = r.call,
         ~ r.answer => \A a \in Tr!SubAgents : world.by[a] = r.call => r.agent = a,
         r.call \in Tr!Calls \cup {Cardinality(Tr!Calls) + 1, None},
         r.message \in Tr!Messages \cup {Cardinality(Tr!Messages) + 1, None}
  PROVE  TrInv'
<1> DEFINE log == world.log
           N == Len(world.log) + 1
<1>1. TrWorld /\ TrNumbered /\ TrExports /\ TrLog
  BY DEF TrInv, TrWorld
<1>2. /\ world' = [world EXCEPT !.log = Append(@, r)] /\ store' = store /\ sent' = sent
      /\ DOMAIN world = {"log", "start", "turns", "odd", "stopped", "by"}
  BY <1>1 DEF Tr!Write, TrWorld
<1>3. /\ DOMAIN world' = {"log", "start", "turns", "odd", "stopped", "by"}
      /\ world'.log = Append(log, r) /\ world'.start = world.start /\ world'.stopped = world.stopped
      /\ world'.by = world.by
  BY <1>2
<1>4. log \in Seq(TrRecords) /\ Len(log) \in Nat /\ DOMAIN log = 1 .. Len(log)
  BY <1>1, TrLines DEF TrLog
<1>5. /\ world'.log \in Seq(TrRecords) /\ Len(world'.log) = N /\ DOMAIN world'.log = DOMAIN log \cup {N}
      /\ (\A i \in DOMAIN log : world'.log[i] = log[i]) /\ world'.log[N] = r /\ N \notin DOMAIN log
  <2>1. Append(log, r) \in Seq(TrRecords) /\ Len(Append(log, r)) = N
    BY <1>4
  <2>2. IsSeq(log)
    BY <1>4, SeqAny
  <2>3. /\ DOMAIN Append(log, r) = DOMAIN log \cup {N} /\ (\A i \in DOMAIN log : Append(log, r)[i] = log[i])
        /\ Append(log, r)[N] = r /\ N \notin DOMAIN log
    BY <2>1, <2>2, AppendAny
  <2> QED
    BY <1>3, <2>1, <2>3
<1> HIDE DEF N
<1>6. TrLog'
  <2> DEFINE q == world'.log
  <2>1. \A i \in DOMAIN q : q[i] = r \/ (i \in DOMAIN log /\ q[i] = log[i])
    BY <1>5
  <2>2. \A i \in DOMAIN q : ~ q[i].answer => q[i].call # None /\ q[i].message = None
    BY <1>1, <2>1 DEF TrLog
  <2>3. \A i, j \in DOMAIN q : q[i].call = q[j].call /\ q[i].call # None => q[i].file = q[j].file
    BY <1>1, <2>1 DEF TrLog
  <2>4. \A i, j \in DOMAIN q : q[i].message = q[j].message /\ q[i].message # None => q[i].file = q[j].file
    BY <1>1, <2>1 DEF TrLog
  <2> QED
    BY <1>5, <2>2, <2>3, <2>4 DEF TrLog
<1>7. Len(world'.log) > Len(log) /\ \A s : s.seen \in Nat /\ s.seen <= Len(log) => s.seen <= Len(world'.log) /\ s.seen # Len(world'.log)
  BY <1>4, <1>5 DEF N
<1>8. TrWorld'
  <2>1. world.start \in Nat /\ world.start <= Len(world'.log)
    BY <1>1, <1>4, <1>5 DEF TrWorld, N
  <2>2. \A i \in DOMAIN world'.log : world'.log[i].agent # None =>
          world'.log[i].call # None /\ world.by[world'.log[i].agent] = world'.log[i].call
    BY <1>1, <1>5 DEF TrWorld
  <2>3. \A i \in DOMAIN world'.log : ~ world'.log[i].answer =>
          \A a \in Tr!SubAgents : world.by[a] = world'.log[i].call => world'.log[i].agent = a
    BY <1>1, <1>5 DEF TrWorld
  <2> QED
    BY <1>1, <1>3, <1>6, <2>1, <2>2, <2>3 DEF TrWorld
<1>9. /\ Tr!Calls' = Tr!Calls \cup (IF r.answer THEN {r.call} \ {None} ELSE {})
      /\ Tr!Messages' = Tr!Messages \cup (IF r.answer THEN {r.message} \ {None} ELSE {})
  <2>1. Tr!Answers' = Tr!Answers \cup (IF r.answer THEN {N} ELSE {})
    BY <1>5 DEF Tr!Answers, Tr!Lines
  <2>2. Tr!Answers \subseteq DOMAIN log
    BY DEF Tr!Answers, Tr!Lines
  <2> QED
    BY <1>5, <2>1, <2>2 DEF Tr!Calls, Tr!Messages
<1>10. ASSUME NEW S, NEW n \in Nat, S = 1 .. n
       PROVE  Cardinality(S) = n /\ S \cup {Cardinality(S) + 1} = 1 .. n + 1
  <2>1. Cardinality(1 .. n) = n
    <3>1. 1 \in Int /\ n \in Int /\ (1 > n => n = 0) /\ n - 1 + 1 = n
      OBVIOUS
    <3> QED
      BY <3>1, FS_Interval
  <2> QED
    BY <1>10, <2>1
<1>11. (\E n \in Nat : Tr!Calls' = 1 .. n) /\ r.call \in Tr!Calls' \cup {None}
  <2>1. PICK n \in Nat : Tr!Calls = 1 .. n
    BY <1>1 DEF TrNumbered
  <2>2. Cardinality(Tr!Calls) = n /\ Tr!Calls \cup {Cardinality(Tr!Calls) + 1} = 1 .. n + 1
    BY <1>10, <2>1
  <2>3. Tr!Calls' = Tr!Calls \/ Tr!Calls' = Tr!Calls \cup {Cardinality(Tr!Calls) + 1}
    BY <1>9
  <2>4. r.call \in Tr!Calls' \cup {None}
    BY <1>9
  <2>5. Tr!Calls' = 1 .. n \/ Tr!Calls' = 1 .. n + 1
    BY <2>1, <2>2, <2>3
  <2> QED
    BY <2>4, <2>5
<1>12. \E n \in Nat : Tr!Messages' = 1 .. n
  <2>1. PICK n \in Nat : Tr!Messages = 1 .. n
    BY <1>1 DEF TrNumbered
  <2>2. Cardinality(Tr!Messages) = n /\ Tr!Messages \cup {Cardinality(Tr!Messages) + 1} = 1 .. n + 1
    BY <1>10, <2>1
  <2>3. Tr!Messages' = Tr!Messages \/ Tr!Messages' = Tr!Messages \cup {Cardinality(Tr!Messages) + 1}
    BY <1>9
  <2>4. Tr!Messages' = 1 .. n \/ Tr!Messages' = 1 .. n + 1
    BY <2>1, <2>2, <2>3
  <2> QED
    BY <2>4
<1>13. \A i \in DOMAIN world'.log : world'.log[i].call # None => world'.log[i].call \in Tr!Calls'
  <2>1. \A i \in DOMAIN log : log[i].call # None => log[i].call \in Tr!Calls'
    BY <1>1, <1>9 DEF TrNumbered
  <2> QED
    BY <1>5, <1>11, <2>1
<1>14. TrNumbered'
  BY <1>11, <1>12, <1>13 DEF TrNumbered
<1>15. TrExports'
  <2>1. \A s \in Elems(sent) : TrExported(s)'
    BY <1>1, <1>2, <1>3, <1>7 DEF TrExports, TrExported, Tr!MergedAgents
  <2>2. Elems(sent') = Elems(sent) /\ IsSeq(sent')
    BY <1>1, <1>2 DEF TrExports
  <2>3. TrApartSent'
    BY <1>1, <1>2, TrSameSent DEF TrExports
  <2>4. \A s \in Elems(sent') : TrExported(s)'
    BY <2>1, <2>2
  <2>5. store' \subseteq world'.stopped
    BY <1>1, <1>2, <1>3 DEF TrExports
  <2> QED
    BY <2>2, <2>3, <2>4, <2>5 DEF TrExports
<1> QED
  BY <1>8, <1>14, <1>15 DEF TrInv

LEMMA TrAnswerWritten ==
  ASSUME TrInv, NEW f \in Tr!Files, Tr!WriteAnswer(f)
  PROVE  TrInv'
<1>1. TrWorld /\ TrNumbered /\ TrLog
  BY DEF TrInv, TrWorld
<1>2. PICK m \in {Tr!Cardinality(Tr!Messages) + 1, Tr!LastMessage(f)} \cup (IF world.odd THEN {None} ELSE {}),
           c \in {Tr!Cardinality(Tr!Calls) + 1, None} \cup (IF world.odd THEN Tr!CallsIn(f) ELSE {}),
           u \in 1 .. 3 :
        /\ m \in 1 .. MaxMessages \cup {None}
        /\ Tr!Write(Tr!Answer(f, m, c, u))
  BY DEF Tr!WriteAnswer
<1> DEFINE r == Tr!Answer(f, m, c, u)
<1>3. /\ r.file = f /\ r.answer = TRUE /\ r.message = m /\ r.call = c /\ r.usage = u /\ r.agent = None
  BY DEF Tr!Answer
<1>10. \A n \in Nat : Cardinality(1 .. n) = n
  <2> SUFFICES ASSUME NEW n \in Nat
               PROVE  Cardinality(1 .. n) = n
    OBVIOUS
  <2>1. 1 \in Int /\ n \in Int /\ (1 > n => n = 0) /\ n - 1 + 1 = n
    OBVIOUS
  <2> QED
    BY <2>1, FS_Interval
<1>4. c \in Tr!Calls \cup {Cardinality(Tr!Calls) + 1, None} /\ c \in TrMaybe
  <2>1. Tr!CallsIn(f) \subseteq Tr!Calls
    BY DEF Tr!CallsIn, Tr!Calls
  <2>2. PICK n \in Nat : Tr!Calls = 1 .. n
    BY <1>1 DEF TrNumbered
  <2>3. Cardinality(Tr!Calls) = n
    BY <1>10, <2>2
  <2>4. c \in Tr!Calls \cup {Cardinality(Tr!Calls) + 1, None}
    BY <1>2, <2>1, TrCardinality
  <2> QED
    BY <2>2, <2>3, <2>4 DEF TrMaybe
<1> DEFINE own == {i \in Tr!Answers : world.log[i].file = f}
<1>5. Tr!LastMessage(f) # None => \E j \in own : Tr!LastMessage(f) = world.log[j].message
  <2>1. CASE own = {}
    BY <2>1 DEF Tr!LastMessage
  <2>2. CASE own # {}
    <3>1. own \in SUBSET Nat /\ own \subseteq DOMAIN world.log
      BY <1>1, TrLines DEF Tr!Answers, Tr!Lines
    <3>2. \E i \in own : \A j \in own : j <= i
      <4> DEFINE n == Len(world.log)
                 T == {n - j : j \in own}
      <4>1. n \in Nat /\ \A j \in own : j \in Nat /\ j <= n
        BY <1>1, <3>1, TrLines
      <4> HIDE DEF n, own
      <4>2. T \in SUBSET Nat /\ T # {}
        BY <2>2, <4>1
      <4> HIDE DEF T
      <4>3. PICK x \in T : \A y \in T : x <= y
        BY <4>2, LeastNumber
      <4>4. PICK i \in own : x = n - i
        BY DEF T
      <4>5. \A j \in own : n - i <= n - j
        BY <4>3, <4>4 DEF T
      <4> QED
        BY <4>1, <4>5
    <3>3. (CHOOSE i \in own : \A j \in own : j <= i) \in own
      BY <3>2
    <3> QED
      BY <2>2, <3>3 DEF Tr!LastMessage
  <2> QED
    BY <2>1, <2>2
<1>6. m \in Tr!Messages \cup {Cardinality(Tr!Messages) + 1, None} /\ m \in TrMaybe
  <2>1. m = Tr!LastMessage(f) /\ m # None => m \in Tr!Messages
    BY <1>5 DEF Tr!Messages
  <2>2. MaxMessages \in Nat
    BY HarnessesAssumption DEF Tr!TreeAssumption
  <2> QED
    BY <1>2, <2>1, <2>2, TrCardinality DEF TrMaybe
<1>7. \A i \in DOMAIN world.log : world.log[i].call = c /\ c # None => world.log[i].file = f
  <2> SUFFICES ASSUME NEW i \in DOMAIN world.log, world.log[i].call = c, c # None
               PROVE  world.log[i].file = f
    OBVIOUS
  <2>1. PICK n \in Nat : Tr!Calls = 1 .. n
    BY <1>1 DEF TrNumbered
  <2>2. c \in 1 .. n
    BY <1>1, <2>1 DEF TrNumbered
  <2>3. c # Cardinality(Tr!Calls) + 1
    BY <1>10, <2>1, <2>2
  <2>4. c \in Tr!CallsIn(f)
    BY <1>2, <2>3, TrCardinality
  <2>5. PICK j \in DOMAIN world.log : world.log[j].file = f /\ world.log[j].call = c
    BY <2>4 DEF Tr!CallsIn, Tr!Answers, Tr!Lines
  <2> QED
    BY <1>1, <2>5 DEF TrLog
<1>8. \A i \in DOMAIN world.log : world.log[i].message = m /\ m # None => world.log[i].file = f
  <2> SUFFICES ASSUME NEW i \in DOMAIN world.log, world.log[i].message = m, m # None
               PROVE  world.log[i].file = f
    OBVIOUS
  <2>1. PICK n \in Nat : Tr!Messages = 1 .. n
    BY <1>1 DEF TrNumbered
  <2>2. m \in Tr!Messages
    BY <1>1 DEF TrLog, Tr!Messages, Tr!Answers, Tr!Lines
  <2>3. m # Cardinality(Tr!Messages) + 1
    BY <1>10, <2>1, <2>2
  <2>4. m = Tr!LastMessage(f)
    BY <1>2, <2>3, TrCardinality
  <2>5. PICK j \in own : m = world.log[j].message
    BY <1>5, <2>4
  <2>6. j \in DOMAIN world.log /\ world.log[j].file = f
    BY <2>5 DEF Tr!Answers, Tr!Lines
  <2> HIDE DEF own
  <2> QED
    BY <1>1, <2>5, <2>6 DEF TrLog
<1>9. r \in TrRecords
  <2>1. u \in Nat
    BY <1>2
  <2> QED
    BY <1>4, <1>6, <2>1 DEF Tr!Answer, TrRecords
<1> HIDE DEF r
<1> QED
  BY <1>2, <1>3, <1>4, <1>6, <1>7, <1>8, <1>9, TrWrite DEF r

LEMMA TrResultWritten ==
  ASSUME TrInv, NEW f \in Tr!Files, Tr!WriteResult(f)
  PROVE  TrInv'
<1>1. TrWorld /\ TrNumbered /\ TrLog /\ None \notin Tr!SubAgents
  BY HarnessesAssumption DEF TrInv, TrWorld, Tr!TreeAssumption, Tr!Files
<1> DEFINE agent(c) == IF Tr!RunBy(c) = {} THEN None ELSE CHOOSE a \in Tr!RunBy(c) : TRUE
<1>2. PICK c \in Tr!CallsIn(f) : Tr!Write(Tr!Result(f, c, agent(c)))
  BY DEF Tr!WriteResult
<1> DEFINE g == agent(c)
           r == Tr!Result(f, c, g)
<1>3. (Tr!RunBy(c) = {} /\ g = None) \/ g \in Tr!RunBy(c)
  OBVIOUS
<1> HIDE DEF g
<1>4. \A a : a \in Tr!RunBy(c) <=> a \in Tr!SubAgents /\ world.by[a] = c
  BY DEF Tr!RunBy
<1>5. r.file = f /\ r.answer = FALSE /\ r.message = None /\ r.call = c /\ r.usage = 0 /\ r.agent = g
  BY DEF Tr!Result
<1>6. c # None /\ c \in Tr!Calls /\ \E j \in DOMAIN world.log : world.log[j].call = c /\ world.log[j].file = f
  BY DEF Tr!CallsIn, Tr!Calls, Tr!Answers, Tr!Lines
<1>7. c \in TrMaybe
  BY <1>1, <1>6, TrLines
<1>8. g \in Tr!SubAgents \cup {None} /\ (g # None => world.by[g] = c)
  BY <1>3, <1>4
<1>9. \A a \in Tr!SubAgents : world.by[a] = c => g = a
  <2> SUFFICES ASSUME NEW a \in Tr!SubAgents, world.by[a] = c
               PROVE  g = a
    OBVIOUS
  <2>1. g \in Tr!RunBy(c)
    BY <1>3, <1>4
  <2>2. g \in Tr!SubAgents /\ world.by[g] = c
    BY <1>4, <2>1
  <2> QED
    BY <1>1, <1>6, <2>2 DEF TrWorld
<1>10. \A i \in DOMAIN world.log : world.log[i].call = c => world.log[i].file = f
  BY <1>1, <1>6 DEF TrLog
<1>11. r \in TrRecords
  BY <1>7, <1>8 DEF Tr!Result, TrRecords, TrMaybe
<1>12. Tr!Write(r)
  BY <1>2 DEF g
<1> HIDE DEF r
<1> QED
  BY <1>5, <1>6, <1>8, <1>9, <1>10, <1>11, <1>12, TrWrite

(* The other steps leave the files as they are.                            *)
LEMMA TrNotWritten ==
  ASSUME TrInv, world'.log = world.log, sent' = sent, TrWorld',
         store' \subseteq world'.stopped, world.stopped \subseteq world'.stopped,
         \A a \in store' : a \in store \/ a \notin world.stopped
  PROVE  TrInv'
<1>1. TrWorld /\ TrNumbered /\ TrExports
  BY DEF TrInv
<1>2. TrNumbered'
  BY <1>1, TrSameFiles
<1>3. \A s \in Elems(sent) : TrExported(s)'
  <2> SUFFICES ASSUME NEW s \in Elems(sent)
               PROVE  TrExported(s)'
    OBVIOUS
  <2>1. TrExported(s)
    BY <1>1 DEF TrExports
  <2>2. Tr!MergedAgents(s.tree) \subseteq world'.stopped \ store'
    BY <2>1 DEF TrExported
  <2>3. s.seen = Len(world.log) /\ s.tree # <<>> =>
          TrWhole(s.tree, s.start)' /\ TrComplete(s.tree, s.pending)'
    <3> DEFINE ev == s.tree
               start == s.start
               pending == s.pending
    <3>1. s.seen = Len(world.log) /\ s.tree # <<>> => TrWhole(ev, start) /\ TrComplete(ev, pending)
      BY <2>1 DEF TrExported
    <3> HIDE DEF ev, start, pending
    <3>2. s.seen = Len(world.log) /\ s.tree # <<>> => TrWhole(ev, start)' /\ TrComplete(ev, pending)'
      BY <3>1, TrSameFiles
    <3> QED
      BY <3>2 DEF ev, start, pending
  <2> QED
    BY <2>1, <2>2, <2>3 DEF TrExported, Tr!MergedAgents
<1>4. TrApartSent'
  BY <1>1, TrSameSent DEF TrExports
<1>5. IsSeq(sent') /\ Elems(sent') = Elems(sent)
  BY <1>1 DEF TrExports
<1>6. \A s \in Elems(sent') : TrExported(s)'
  BY <1>3, <1>5
<1>7. TrExports'
  BY <1>4, <1>5, <1>6 DEF TrExports
<1> QED
  BY <1>2, <1>7 DEF TrInv

LEMMA TrAgentStarted ==
  ASSUME TrInv, NEW a \in Tr!SubAgents, Tr!StartAgent(a)
  PROVE  TrInv'
<1>1. TrWorld /\ TrLog /\ TrExports
  BY DEF TrInv, TrWorld
<1>2. PICK f \in Tr!Files : \E c \in Tr!CallsIn(f) \ Tr!Returned :
        Tr!RunBy(c) = {} /\ world' = [world EXCEPT !.by[a] = c]
  BY DEF Tr!StartAgent
<1>3. PICK c \in Tr!CallsIn(f) \ Tr!Returned : Tr!RunBy(c) = {} /\ world' = [world EXCEPT !.by[a] = c]
  BY <1>2
<1>4. world.by[a] = None /\ store' = store /\ sent' = sent
  BY DEF Tr!StartAgent
<1>5. c # None /\ c \in TrMaybe
  <2>1. c # None /\ \E j \in DOMAIN world.log : world.log[j].call = c
    BY DEF Tr!CallsIn, Tr!Answers, Tr!Lines
  <2> QED
    BY <1>1, <2>1, TrLines
<1>6. \A b \in Tr!SubAgents : world.by[b] # c
  BY <1>3 DEF Tr!RunBy
<1>7. \A i \in DOMAIN world.log : ~ world.log[i].answer => world.log[i].call # c
  BY DEF Tr!Returned, Tr!Answers, Tr!Lines
<1> DEFINE by == world.by
           next == [world.by EXCEPT ![a] = c]
<1>8. by \in [Tr!SubAgents -> TrMaybe]
  BY <1>1 DEF TrWorld
<1>9. /\ next \in [Tr!SubAgents -> TrMaybe] /\ next[a] = c
      /\ \A b \in Tr!SubAgents : b # a => next[b] = by[b]
  BY <1>5, <1>8
<1>10. /\ world' = [world EXCEPT !.by = next]
       /\ DOMAIN world = {"log", "start", "turns", "odd", "stopped", "by"}
  BY <1>1, <1>3 DEF TrWorld
<1> HIDE DEF next
<1>11. /\ DOMAIN world' = {"log", "start", "turns", "odd", "stopped", "by"} /\ world'.by = next
       /\ world'.log = world.log /\ world'.start = world.start /\ world'.stopped = world.stopped
  BY <1>10
<1>12. /\ \A b \in world.stopped : next[b] # None
       /\ \A b, d \in Tr!SubAgents : next[b] = next[d] /\ next[b] # None => b = d
  BY <1>1, <1>4, <1>5, <1>6, <1>9 DEF TrWorld
<1>13. \A i \in DOMAIN world.log : world.log[i].agent # None =>
         world.log[i].call # None /\ next[world.log[i].agent] = world.log[i].call
  <2> SUFFICES ASSUME NEW i \in DOMAIN world.log, world.log[i].agent # None
               PROVE  world.log[i].call # None /\ next[world.log[i].agent] = world.log[i].call
    OBVIOUS
  <2>1. world.log[i].call # None /\ by[world.log[i].agent] = world.log[i].call /\ world.log[i].agent \in Tr!SubAgents
    BY <1>1, TrLines DEF TrWorld
  <2> QED
    BY <1>4, <1>9, <2>1
<1>14. \A i \in DOMAIN world.log : ~ world.log[i].answer =>
         \A b \in Tr!SubAgents : next[b] = world.log[i].call => world.log[i].agent = b
  BY <1>1, <1>7, <1>9 DEF TrWorld
<1>15. TrLog'
  BY <1>1, <1>11, TrSameFiles
<1>16. TrWorld'
  BY <1>1, <1>9, <1>11, <1>12, <1>13, <1>14, <1>15 DEF TrWorld
<1>17. store \subseteq world.stopped
  BY <1>1 DEF TrExports
<1> QED
  BY <1>4, <1>11, <1>16, <1>17, TrNotWritten

LEMMA TrAgentStopped ==
  ASSUME TrInv, NEW a \in Tr!SubAgents, Tr!StopAgent(a)
  PROVE  TrInv'
<1>1. TrWorld /\ TrLog /\ TrExports
  BY DEF TrInv, TrWorld
<1>2. /\ world' = [world EXCEPT !.stopped = @ \cup {a}] /\ sent' = sent
      /\ store' \subseteq store \cup {a} /\ a \notin world.stopped /\ world.by[a] # None
      /\ DOMAIN world = {"log", "start", "turns", "odd", "stopped", "by"}
  BY <1>1 DEF Tr!StopAgent, Tr!Awake, TrWorld
<1>3. /\ DOMAIN world' = {"log", "start", "turns", "odd", "stopped", "by"} /\ world'.by = world.by
      /\ world'.log = world.log /\ world'.start = world.start /\ world'.stopped = world.stopped \cup {a}
  BY <1>2
<1>4. TrLog'
  BY <1>1, <1>3, TrSameFiles
<1>5. TrWorld'
  BY <1>1, <1>2, <1>3, <1>4 DEF TrWorld
<1>6. store \subseteq world.stopped
  BY <1>1 DEF TrExports
<1> QED
  BY <1>2, <1>3, <1>5, <1>6, TrNotWritten

LEMMA TrPrompted ==
  ASSUME TrInv, Tr!Prompt
  PROVE  TrInv'
<1>1. TrWorld /\ TrLog /\ TrExports
  BY DEF TrInv, TrWorld
<1>2. /\ world' = [world EXCEPT !.turns = @ + 1, !.start = Len(world.log)] /\ sent' = sent /\ store' = store
      /\ DOMAIN world = {"log", "start", "turns", "odd", "stopped", "by"}
  BY <1>1 DEF Tr!Prompt, TrWorld
<1>3. /\ DOMAIN world' = {"log", "start", "turns", "odd", "stopped", "by"} /\ world'.by = world.by
      /\ world'.log = world.log /\ world'.start = Len(world.log) /\ world'.stopped = world.stopped
  BY <1>2
<1>4. TrLog'
  BY <1>1, <1>3, TrSameFiles
<1>5. Len(world.log) \in Nat /\ Len(world.log) <= Len(world.log)
  BY <1>1, TrLines
<1>6. TrWorld'
  BY <1>1, <1>3, <1>4, <1>5 DEF TrWorld
<1>7. store \subseteq world.stopped
  BY <1>1 DEF TrExports
<1> QED
  BY <1>2, <1>3, <1>6, <1>7, TrNotWritten

(* What is exported is the tree of the files, and its agents are forgotten.*)
LEMMA TrSentWhole ==
  ASSUME TrWorld
  PROVE  /\ TrWhole(Tr!Tree, world.start) /\ TrComplete(Tr!Tree, store \cap Tr!SubAgents)
         /\ Tr!MergedAgents(Tr!Tree) \subseteq store
<1> DEFINE ev == Tr!Tree
           n == Len(Agents)
<1>1. TrAmong(ev, n)
  BY TrMerged DEF TrWorld
<1> HIDE DEF ev
<1>2. TrWhole(ev, world.start)
  BY <1>1 DEF TrAmong
<1>3. Tr!MergedAgents(ev) = TrFiles(ev) \ {MainFile}
  BY <1>2, TrFilesOf
<1>4. TrFiles(ev) \subseteq {MainFile} \cup store
  BY <1>1 DEF TrAmong
<1>5. TrComplete(ev, store \cap Tr!SubAgents)
  <2> SUFFICES ASSUME NEW a \in store \cap Tr!SubAgents,
                      \E x \in TrPartOf(ev, MainFile) : x.call # None /\ x.agent = a
               PROVE  a \in TrFiles(ev)
    BY DEF TrComplete
  <2>1. PICK j \in 1 .. n : a = Agents[j]
    BY TrAgents DEF Tr!SubAgents
  <2> QED
    BY <1>1, <2>1 DEF TrAmong
<1> QED
  BY <1>2, <1>3, <1>4, <1>5 DEF ev

LEMMA TrTurnSent ==
  ASSUME TrInv, Tr!Export
  PROVE  TrInv'
<1> DEFINE answered == \E i \in Tr!Answers : world.log[i].file = MainFile /\ i > world.start
           tree == IF answered THEN Tr!Tree ELSE <<>>
           s == [tree |-> tree, start |-> world.start, pending |-> store, seen |-> Len(world.log)]
<1>1. TrWorld /\ TrLog /\ TrNumbered /\ TrExports /\ IsSeq(sent) /\ store \subseteq world.stopped
  BY DEF TrInv, TrWorld, TrExports
<1>2. sent' = Append(sent, s) /\ store' = store \ Tr!MergedAgents(tree) /\ world' = world
  BY DEF Tr!Export
<1>3. /\ tree # <<>> => TrWhole(tree, world.start) /\ TrComplete(tree, store)
      /\ Tr!MergedAgents(tree) \subseteq store
  <2>1. Tr!MergedAgents(<<>>) = {}
    <3>1. DOMAIN <<>> = {}
      OBVIOUS
    <3> QED
      BY <3>1 DEF Tr!MergedAgents
  <2>2. store \cap Tr!SubAgents = store
    BY <1>1 DEF TrWorld
  <2>3. TrWhole(Tr!Tree, world.start) /\ TrComplete(Tr!Tree, store) /\ Tr!MergedAgents(Tr!Tree) \subseteq store
    BY <1>1, <2>2, TrSentWhole
  <2> HIDE DEF answered
  <2>4. tree = Tr!Tree \/ tree = <<>>
    OBVIOUS
  <2> HIDE DEF tree
  <2> QED
    BY <2>1, <2>3, <2>4
<1>4. /\ s.tree = tree /\ s.start = world.start /\ s.pending = store /\ s.seen = Len(world.log)
  OBVIOUS
<1> HIDE DEF tree, s
<1>5. world'.log = world.log /\ world'.stopped = world.stopped
  BY <1>2
<1>6. TrWorld' /\ TrNumbered'
  <2>1. TrNumbered' /\ TrLog'
    BY <1>1, <1>5, TrSameFiles
  <2> QED
    BY <1>1, <1>2, <2>1 DEF TrWorld
<1>7. /\ IsSeq(sent') /\ DOMAIN sent' = DOMAIN sent \cup {Len(sent')} /\ Len(sent') \notin DOMAIN sent
      /\ (\A k \in DOMAIN sent : sent'[k] = sent[k]) /\ sent'[Len(sent')] = s
  <2> DEFINE q == Append(sent, s)
  <2>1. /\ IsSeq(q) /\ DOMAIN q = DOMAIN sent \cup {Len(q)} /\ Len(q) \notin DOMAIN sent
        /\ (\A k \in DOMAIN sent : q[k] = sent[k]) /\ q[Len(q)] = s
    BY <1>1, AppendAny
  <2>2. sent' = q
    BY <1>2
  <2> HIDE DEF q
  <2> QED
    BY <2>1, <2>2
<1>8. \A x \in Elems(sent') : x = s \/ x \in Elems(sent)
  BY <1>7, Zenon DEF Elems
<1>9. \A x \in Elems(sent) : TrExported(x)
  BY <1>1 DEF TrExports
<1>10. ASSUME NEW x, x.seen \in Nat, x.seen <= Len(world.log), x.start \in Nat, x.pending \subseteq world.stopped,
              Tr!MergedAgents(x.tree) \subseteq world.stopped \ store',
              x.seen = Len(world.log) /\ x.tree # <<>> => TrWhole(x.tree, x.start) /\ TrComplete(x.tree, x.pending)
       PROVE  TrExported(x)'
  <2> DEFINE ev == x.tree
             start == x.start
             pending == x.pending
  <2>1. x.seen = Len(world.log) /\ ev # <<>> => TrWhole(ev, start) /\ TrComplete(ev, pending)
    BY <1>10
  <2> HIDE DEF ev, start, pending
  <2>2. x.seen = Len(world.log) /\ ev # <<>> => TrWhole(ev, start)' /\ TrComplete(ev, pending)'
    BY <1>5, <2>1, TrSameFiles
  <2>3. x.seen = Len(world.log) /\ x.tree # <<>> => TrWhole(x.tree, x.start)' /\ TrComplete(x.tree, x.pending)'
    BY <2>2 DEF ev, start, pending
  <2> QED
    BY <1>5, <1>10, <2>3 DEF TrExported, Tr!MergedAgents
<1>11. \A x : x = s => TrExported(x)'
  <2>1. Len(world.log) \in Nat /\ Len(world.log) <= Len(world.log) /\ world.start \in Nat
    BY <1>1, TrLines DEF TrWorld
  <2>2. Tr!MergedAgents(s.tree) \subseteq world.stopped \ store'
    BY <1>1, <1>2, <1>3, <1>4
  <2>3. /\ s.seen \in Nat /\ s.seen <= Len(world.log) /\ s.start \in Nat /\ s.pending \subseteq world.stopped
        /\ Tr!MergedAgents(s.tree) \subseteq world.stopped \ store'
        /\ s.seen = Len(world.log) /\ s.tree # <<>> => TrWhole(s.tree, s.start) /\ TrComplete(s.tree, s.pending)
    BY <1>1, <1>3, <1>4, <2>1, <2>2
  <2> SUFFICES ASSUME NEW x, x = s
               PROVE  TrExported(x)'
    OBVIOUS
  <2>4. /\ x.seen \in Nat /\ x.seen <= Len(world.log) /\ x.start \in Nat /\ x.pending \subseteq world.stopped
        /\ Tr!MergedAgents(x.tree) \subseteq world.stopped \ store'
        /\ x.seen = Len(world.log) /\ x.tree # <<>> => TrWhole(x.tree, x.start) /\ TrComplete(x.tree, x.pending)
    BY <2>3
  <2> QED
    BY <1>10, <2>4
<1>12. \A x \in Elems(sent) : TrExported(x)'
  <2> SUFFICES ASSUME NEW x \in Elems(sent)
               PROVE  TrExported(x)'
    OBVIOUS
  <2>1. TrExported(x)
    BY <1>9
  <2>2. /\ x.seen \in Nat /\ x.seen <= Len(world.log) /\ x.start \in Nat /\ x.pending \subseteq world.stopped
        /\ Tr!MergedAgents(x.tree) \subseteq world.stopped \ store'
        /\ x.seen = Len(world.log) /\ x.tree # <<>> => TrWhole(x.tree, x.start) /\ TrComplete(x.tree, x.pending)
    BY <1>2, <2>1 DEF TrExported
  <2> QED
    BY <1>10, <2>2
<1>13. TrApartSent'
  <2> DEFINE M(x) == Tr!MergedAgents(x.tree)
  <2>1. \A n, l \in DOMAIN sent : n # l => M(sent[n]) \cap M(sent[l]) = {}
    BY <1>1 DEF TrExports, TrApartSent
  <2>2. M(s) \subseteq store
    BY <1>3, <1>4
  <2>3. \A n \in DOMAIN sent : M(sent[n]) \cap store = {}
    BY <1>9 DEF TrExported, Elems
  <2> HIDE DEF M
  <2>4. \A n, l \in DOMAIN sent' : n # l => M(sent'[n]) \cap M(sent'[l]) = {}
    <3> DEFINE N == Len(sent')
    <3>1. \A n \in DOMAIN sent' : (n = N /\ sent'[n] = s) \/ (n \in DOMAIN sent /\ sent'[n] = sent[n])
      BY <1>7, Zenon
    <3> HIDE DEF N
    <3> QED
      BY <2>1, <2>2, <2>3, <3>1, Zenon
  <2> QED
    BY <2>4 DEF TrApartSent, M, Tr!MergedAgents
<1>14. \A x \in Elems(sent') : TrExported(x)'
  BY <1>8, <1>11, <1>12
<1>15. store' \subseteq world'.stopped
  BY <1>1, <1>2, <1>5
<1>16. TrExports'
  BY <1>7, <1>13, <1>14, <1>15 DEF TrExports
<1> QED
  BY <1>6, <1>16 DEF TrInv

LEMMA TrSteps ==
  ASSUME TrInv, Tr!Next
  PROVE  TrInv'
<1>1. CASE \E f \in Tr!Files : Tr!WriteAnswer(f) \/ Tr!WriteResult(f)
  BY <1>1, TrAnswerWritten, TrResultWritten
<1>2. CASE \E a \in Tr!SubAgents : Tr!StartAgent(a) \/ Tr!StopAgent(a)
  BY <1>2, TrAgentStarted, TrAgentStopped
<1>3. CASE Tr!Prompt
  BY <1>3, TrPrompted
<1>4. CASE Tr!Export
  BY <1>4, TrTurnSent
<1> QED
  BY <1>1, <1>2, <1>3, <1>4 DEF Tr!Next

(* TreeAsRecorded: see there.  However the files grow between two exports, *)
(* and whatever ids are missing or come twice, the tree is whole: it is    *)
(* read line by line, each line adds to what it finds, and a sub-agent     *)
(* comes after the tool that ran it without moving anything apart.         *)
THEOREM ClaudeTrees == Spec => []TreeAsRecorded
<1> DEFINE I == harness = "claude" => TrInv
<1>1. Init => I
  <2> SUFFICES ASSUME Init, harness = "claude"
               PROVE  TrInv
    OBVIOUS
  <2> QED
    BY TrInitially DEF Init
<1>2. I /\ [Next]_vars => I'
  <2> SUFFICES ASSUME I, [Next]_vars, harness' = "claude"
               PROVE  TrInv'
    OBVIOUS
  <2>1. CASE Next
    <3>1. harness = "claude" /\ Tr!Next
      BY <2>1 DEF Next
    <3> QED
      BY <3>1, TrSteps
  <2>2. CASE UNCHANGED vars
    <3>1. harness = "claude" /\ world' = world /\ store' = store /\ sent' = sent
      BY <2>2 DEF vars
    <3>2. TrInv
      BY <3>1
    <3>3. TrLog'
      BY <3>1, <3>2, TrSameFiles DEF TrInv, TrWorld
    <3>4. TrWorld'
      BY <3>1, <3>2, <3>3 DEF TrInv, TrWorld
    <3>5. store \subseteq world.stopped
      BY <3>2 DEF TrInv, TrExports
    <3> QED
      BY <3>1, <3>2, <3>4, <3>5, TrNotWritten
  <2> QED
    BY <2>1, <2>2
<1>3. I => TreeAsRecorded
  BY TrRecorded DEF TreeAsRecorded
<1> QED
  BY <1>1, <1>2, <1>3, PTL DEF Spec

-----------------------------------------------------------------------------
(* Setup *)

InHs == In!Harnesses
InFiles == InHs \cup {"config"}
InKeys == InHs \cup {"logging", "own", "users"}

InHooksType ==
  /\ DOMAIN hooks = Commands
  /\ \A c \in Commands :
       /\ DOMAIN hooks[c] = {"at", "plan", "all", "left", "keys"}
       /\ hooks[c].at \in {"new", "read", "truncate", "write", "done"}
       /\ hooks[c].all \in BOOLEAN /\ hooks[c].left \subseteq InHs /\ hooks[c].keys \subseteq InKeys

InWorldType ==
  world \in [broken : SUBSET InFiles, torn : SUBSET InFiles, crashes : Nat,
             status : [InHs -> {"unknown", "in", "out"}]]

InFilesType ==
  store \in [InFiles -> [text : {"none", "empty", "ok", "broken"}, keys : SUBSET InKeys]]

InType ==
  /\ InFilesType /\ InWorldType /\ InHooksType
  /\ {"config", "logging", "own", "users"} \cap InHs = {} /\ "config" \notin Lenient

Live(c) == hooks[c].at \in {"read", "truncate", "write"}
Job1(c) == Head(hooks[c].plan)
File1(c) == In!FileOf(Job1(c))

(* What is known of harness h: no command died over config.json and the    *)
(* user has not broken the settings.                                       *)
Sound(h) == "config" \notin world.torn /\ h \notin world.broken
Own(h) == "own" \in store[h].keys
Gone(h) == Sound(h) => ~Own(h)

(* A config.json with these keys goes with the hooks that are registered.  *)
Agrees(keys) ==
  \A h \in InHs : Sound(h) =>
    /\ Own(h) => h \in keys
    /\ world.status[h] = "in" => Own(h) /\ h \in keys
    /\ world.status[h] = "out" => ~Own(h) /\ h \notin keys

Users(h, keys) == "users" \in keys \/ h \in world.torn \/ (h \in Lenient /\ h \in world.broken)

(* The plans of a command, and what must be true before each of them.      *)
Enters(h, plan) ==
  plan \in {<<In!Job("entry", h), In!Job("log", h), In!Job("register", h)>>,
            <<In!Job("entry", h), In!Job("register", h)>>}
Registers(h, plan) ==
  plan \in {<<In!Job("log", h), In!Job("register", h)>>, <<In!Job("register", h)>>}
Leaves(h, plan) == plan = <<In!Job("unregister", h), In!Job("remove", h)>>
Removes(h, plan) == plan = <<In!Job("remove", h)>>
Wipes(plan) == plan = <<In!Job("wipe", "config")>>

Due(c) ==
  LET l == hooks[c] IN
  \/ \E h \in InHs :
       /\ world.status[h] = "unknown"
       /\ \/ Enters(h, l.plan) /\ ~l.all
          \/ Registers(h, l.plan) /\ ~l.all /\ ("config" \notin world.torn =>
               IF l.at = "write" /\ Job1(c).do = "log" THEN h \in l.keys
               ELSE h \in store["config"].keys)
          \/ Leaves(h, l.plan)
          \/ Removes(h, l.plan) /\ Gone(h)
       /\ l.all => h \notin l.left /\
            \A g \in InHs :
              /\ world.status[g] # "in"
              /\ g \in l.left => world.status[g] = "unknown"
              /\ g \in l.left \/ g = h \/ Gone(g)
  \/ Wipes(l.plan) /\ ~l.all /\ \A g \in InHs : Gone(g) /\ world.status[g] # "in"

(* What an edit that is on its way will write.                             *)
Edits(c) ==
  LET l == hooks[c]
      job == Job1(c) IN
  /\ job.do # "wipe"
  /\ File1(c) = "config" => Agrees(l.keys)
  /\ job.do \in {"entry", "log"} /\ "config" \notin world.torn => job.h \in l.keys
  /\ job.do = "remove" => job.h \notin l.keys
  /\ job.do = "register" => "own" \in l.keys
  /\ job.do = "unregister" => "own" \notin l.keys
  /\ job.do \in {"register", "unregister"} => Users(job.h, l.keys)

InStore ==
  /\ \A f \in InFiles :
       /\ store[f].text \in {"none", "empty"} => store[f].keys = {}
       /\ store[f].text = "broken" => f \in world.broken
  /\ (\A c \in Commands : hooks[c].at = "write" => File1(c) # "config") => Agrees(store["config"].keys)
  /\ \A h \in InHs : Users(h, store[h].keys) \/ \E c \in Commands : hooks[c].at = "write" /\ File1(c) = h

InInv ==
  /\ InType /\ InStore
  /\ \A b, c \in Commands : Live(b) /\ Live(c) => b = c
  /\ \A c \in Commands : Live(c) => Due(c)
  /\ \A c \in Commands : hooks[c].at \in {"truncate", "write"} => Edits(c)

LEMMA InPlans ==
  /\ \A h, p : Enters(h, p) =>
       p # <<>> /\ Head(p) = In!Job("entry", h) /\ Tail(p) # <<>> /\ Registers(h, Tail(p))
  /\ \A h, p : Registers(h, p) =>
       /\ p # <<>>
       /\ \/ Head(p) = In!Job("log", h) /\ Tail(p) # <<>> /\ Registers(h, Tail(p))
          \/ Head(p) = In!Job("register", h) /\ Tail(p) = <<>>
  /\ \A h, p : Leaves(h, p) =>
       p # <<>> /\ Head(p) = In!Job("unregister", h) /\ Tail(p) # <<>> /\ Removes(h, Tail(p))
  /\ \A h, p : Removes(h, p) => p # <<>> /\ Head(p) = In!Job("remove", h) /\ Tail(p) = <<>>
  /\ \A p : Wipes(p) => p # <<>> /\ Head(p) = In!Job("wipe", "config") /\ Tail(p) = <<>>
<1>1. \A a : Head(<<a>>) = a /\ Tail(<<a>>) = <<>> /\ <<a>> # <<>>
  OBVIOUS
<1>2. \A a, b : Head(<<a, b>>) = a /\ Tail(<<a, b>>) = <<b>> /\ <<a, b>> # <<>>
  OBVIOUS
<1>3. \A a, b, c : Head(<<a, b, c>>) = a /\ Tail(<<a, b, c>>) = <<b, c>> /\ <<a, b, c>> # <<>>
  OBVIOUS
<1>4. SUFFICES ASSUME NEW h, NEW p
               PROVE  /\ Enters(h, p) => /\ p # <<>> /\ Head(p) = In!Job("entry", h)
                                         /\ Tail(p) # <<>> /\ Registers(h, Tail(p))
                      /\ Registers(h, p) =>
                            /\ p # <<>>
                            /\ \/ Head(p) = In!Job("log", h) /\ Tail(p) # <<>> /\ Registers(h, Tail(p))
                               \/ Head(p) = In!Job("register", h) /\ Tail(p) = <<>>
                      /\ Leaves(h, p) => /\ p # <<>> /\ Head(p) = In!Job("unregister", h)
                                         /\ Tail(p) # <<>> /\ Removes(h, Tail(p))
                      /\ Removes(h, p) => p # <<>> /\ Head(p) = In!Job("remove", h) /\ Tail(p) = <<>>
                      /\ Wipes(p) => p # <<>> /\ Head(p) = In!Job("wipe", "config") /\ Tail(p) = <<>>
  BY Zenon
<1> DEFINE e == In!Job("entry", h)  g == In!Job("log", h)  r == In!Job("register", h)
<1>r. Registers(h, <<g, r>>) /\ Registers(h, <<r>>)
  BY Zenon DEF Registers
<1>5. Enters(h, p) => p = <<e, g, r>> \/ p = <<e, r>>
  BY Zenon DEF Enters
<1>6. Registers(h, p) => p = <<g, r>> \/ p = <<r>>
  BY Zenon DEF Registers
<1>7. Leaves(h, p) => p # <<>> /\ Head(p) = In!Job("unregister", h) /\ Tail(p) # <<>> /\ Removes(h, Tail(p))
  BY <1>1, <1>2, Zenon DEF Leaves, Removes
<1>8. Removes(h, p) => p # <<>> /\ Head(p) = In!Job("remove", h) /\ Tail(p) = <<>>
  BY <1>1, Zenon DEF Removes
<1>9. Wipes(p) => p # <<>> /\ Head(p) = In!Job("wipe", "config") /\ Tail(p) = <<>>
  BY <1>1, Zenon DEF Wipes
<1>10. Enters(h, p) => p # <<>> /\ Head(p) = e /\ Tail(p) # <<>> /\ Registers(h, Tail(p))
  <2> HIDE DEF e, g, r
  <2>1. CASE p = <<e, g, r>>
    <3>1. p # <<>> /\ Head(p) = e /\ Tail(p) = <<g, r>> /\ <<g, r>> # <<>>
      BY <1>3, <1>2, <2>1
    <3> QED
      BY <1>r, <3>1, Zenon
  <2>2. CASE p = <<e, r>>
    BY <1>r, <1>1, <1>2, <2>2, Zenon
  <2> QED
    BY <1>5, <2>1, <2>2 DEF e, g, r
<1>11. Registers(h, p) => /\ p # <<>>
                         /\ \/ Head(p) = g /\ Tail(p) # <<>> /\ Registers(h, Tail(p))
                            \/ Head(p) = r /\ Tail(p) = <<>>
  <2> HIDE DEF e, g, r
  <2>1. CASE p = <<g, r>>
    BY <1>r, <1>1, <1>2, <2>1, Zenon
  <2>2. CASE p = <<r>>
    BY <1>1, <2>2, Zenon
  <2> QED
    BY <1>6, <2>1, <2>2 DEF e, g, r
<1> QED
  BY <1>7, <1>8, <1>9, <1>10, <1>11

LEMMA InJobs == \A do, h : In!Job(do, h).do = do /\ In!Job(do, h).h = h
BY DEF In!Job

LEMMA InHeads ==
  /\ \A h, p : Enters(h, p) => p # <<>> /\ Head(p).do = "entry" /\ Head(p).h = h
  /\ \A h, p : Registers(h, p) =>
       p # <<>> /\ Head(p).h = h /\ Head(p).do \in {"log", "register"}
       /\ (Head(p).do = "register" => Tail(p) = <<>>)
  /\ \A h, p : Leaves(h, p) => p # <<>> /\ Head(p).do = "unregister" /\ Head(p).h = h
  /\ \A h, p : Removes(h, p) => p # <<>> /\ Head(p).do = "remove" /\ Head(p).h = h /\ Tail(p) = <<>>
  /\ \A p : Wipes(p) => p # <<>> /\ Head(p).do = "wipe" /\ Head(p).h = "config" /\ Tail(p) = <<>>
<1>1. \A h, p : Enters(h, p) => p # <<>> /\ Head(p).do = "entry" /\ Head(p).h = h
  <2>1. \A h, p : Enters(h, p) => p # <<>> /\ Head(p) = In!Job("entry", h)
    BY InPlans, Zenon
  <2> QED
    BY <2>1, InJobs
<1>2. \A h, p : Registers(h, p) =>
        p # <<>> /\ Head(p).h = h /\ Head(p).do \in {"log", "register"}
        /\ (Head(p).do = "register" => Tail(p) = <<>>)
  <2> SUFFICES ASSUME NEW h, NEW p, Registers(h, p)
               PROVE  p # <<>> /\ Head(p).h = h /\ Head(p).do \in {"log", "register"}
                      /\ (Head(p).do = "register" => Tail(p) = <<>>)
    OBVIOUS
  <2>1. p # <<>> /\ (Head(p) = In!Job("log", h) \/ (Head(p) = In!Job("register", h) /\ Tail(p) = <<>>))
    BY InPlans, Zenon
  <2> QED
    BY <2>1, InJobs
<1>3. \A h, p : Leaves(h, p) => p # <<>> /\ Head(p).do = "unregister" /\ Head(p).h = h
  BY InPlans, InJobs
<1>4. \A h, p : Removes(h, p) => p # <<>> /\ Head(p).do = "remove" /\ Head(p).h = h /\ Tail(p) = <<>>
  BY InPlans, InJobs
<1>5. \A p : Wipes(p) => p # <<>> /\ Head(p).do = "wipe" /\ Head(p).h = "config" /\ Tail(p) = <<>>
  BY InPlans, InJobs
<1> QED
  BY <1>1, <1>2, <1>3, <1>4, <1>5

(* The first job of a command that is on its way, and its file.            *)
LEMMA InJob ==
  ASSUME InInv, NEW c \in Commands, Live(c)
  PROVE  LET job == Job1(c) IN
         /\ hooks[c].plan # <<>>
         /\ job.do = "wipe" => job.h = "config" /\ File1(c) = "config" /\ Wipes(hooks[c].plan)
         /\ job.do # "wipe" => job.h \in InHs /\ world.status[job.h] = "unknown"
         /\ job.do \in {"entry", "log", "register", "unregister", "remove", "wipe"}
         /\ job.do \in {"entry", "log", "remove"} => File1(c) = "config"
         /\ job.do \in {"register", "unregister"} => File1(c) = job.h
         /\ job.do \in {"unregister", "remove"} => Leaves(job.h, hooks[c].plan) \/ Removes(job.h, hooks[c].plan)
         /\ job.do = "remove" => Gone(job.h)
         /\ job.do = "register" /\ "config" \notin world.torn => job.h \in store["config"].keys
         /\ job.do = "log" /\ hooks[c].at # "write" /\ "config" \notin world.torn => job.h \in store["config"].keys
         /\ hooks[c].all => job.do \in {"unregister", "remove"}
<1> DEFINE l == hooks[c]
           job == Job1(c)
<1>1. Due(c)
  BY DEF InInv
<1>2. CASE Wipes(l.plan) /\ ~l.all
  BY <1>2, InPlans, InJobs DEF Job1, File1, In!FileOf
<1>3. ASSUME NEW h \in InHs, world.status[h] = "unknown", Enters(h, l.plan), ~l.all
      PROVE  l.plan # <<>> /\ job.do = "entry" /\ job.h = h /\ File1(c) = "config"
  BY <1>3, InPlans, InJobs DEF Job1, File1, In!FileOf
<1>4. ASSUME NEW h \in InHs, world.status[h] = "unknown", Registers(h, l.plan), ~l.all,
             "config" \notin world.torn =>
               IF l.at = "write" /\ Job1(c).do = "log" THEN h \in l.keys ELSE h \in store["config"].keys
      PROVE  /\ l.plan # <<>> /\ job.h = h
             /\ \/ job.do = "register" /\ File1(c) = job.h
                   /\ ("config" \notin world.torn => h \in store["config"].keys)
                \/ job.do = "log" /\ File1(c) = "config"
                   /\ (l.at # "write" /\ "config" \notin world.torn => h \in store["config"].keys)
  <2>1. l.plan # <<>> /\ (Head(l.plan) = In!Job("log", h) \/ Head(l.plan) = In!Job("register", h))
    BY <1>4, InPlans, Zenon
  <2> QED
    BY <1>4, <2>1, InJobs DEF Job1, File1, In!FileOf
<1>5. ASSUME NEW h \in InHs, world.status[h] = "unknown", Leaves(h, l.plan)
      PROVE  l.plan # <<>> /\ job.do = "unregister" /\ job.h = h /\ File1(c) = h
  BY <1>5, InPlans, InJobs DEF Job1, File1, In!FileOf
<1>6. ASSUME NEW h \in InHs, world.status[h] = "unknown", Removes(h, l.plan), Gone(h)
      PROVE  l.plan # <<>> /\ job.do = "remove" /\ job.h = h /\ File1(c) = "config"
  BY <1>6, InPlans, InJobs DEF Job1, File1, In!FileOf
<1> QED
  BY <1>1, <1>2, <1>3, <1>4, <1>5, <1>6 DEF Due

(* What a command makes of a harness at the end of a job.                  *)
LEMMA InResult ==
  ASSUME InType, NEW job, world' = In!Result(job)
  PROVE  /\ world'.torn = world.torn /\ world'.broken = world.broken
         /\ InWorldType'
         /\ \A h \in InHs : h # job.h \/ job.do \notin {"register", "remove"} =>
              world'.status[h] = world.status[h]
         /\ \A h \in InHs : h = job.h /\ job.do = "register" => world'.status[h] = "in"
         /\ \A h \in InHs : h = job.h /\ job.do = "remove" => world'.status[h] = "out"
BY DEF InType, InWorldType, In!Result, InHs

(* The next thing that a command does, after a job that ended well or not. *)
LEMMA InGoesOn ==
  ASSUME InInv, NEW c \in Commands, Live(c), NEW done \in BOOLEAN, In!After(c, done),
         world' = IF done THEN In!Result(Job1(c)) ELSE world,
         done /\ Job1(c).do \in {"entry", "log"} /\ "config" \notin world.torn =>
           Job1(c).h \in store'["config"].keys,
         \A g \in InHs : g = Job1(c).h /\ Job1(c).do \in {"unregister", "remove"} => Gone(g)',
         \A g \in InHs : g # Job1(c).h => store'[g] = store[g]
  PROVE  /\ InHooksType'
         /\ \A b, d \in Commands : Live(b)' /\ Live(d)' => b = d
         /\ \A d \in Commands : Live(d)' => Due(d)'
         /\ \A d \in Commands : hooks'[d].at \notin {"truncate", "write"}
<1> DEFINE l == hooks[c]
           job == Job1(c)
           rest == IF done THEN Tail(l.plan) ELSE <<>>
<1>j. /\ l.plan # <<>>
      /\ job.do # "wipe" => job.h \in InHs /\ world.status[job.h] = "unknown"
      /\ job.do = "wipe" => job.h = "config" /\ Wipes(l.plan)
      /\ l.all => job.do \in {"unregister", "remove"}
  BY InJob
<1>t. InType /\ InHooksType /\ "config" \notin InHs
  BY DEF InInv, InType, InHooksType
<1>w. /\ world'.torn = world.torn /\ world'.broken = world.broken
      /\ \A h \in InHs : h # job.h \/ job.do \notin {"register", "remove"} \/ ~done =>
           world'.status[h] = world.status[h]
      /\ \A h \in InHs : h = job.h /\ job.do = "remove" /\ done => world'.status[h] = "out"
  BY <1>t, InResult
<1>g. \A g \in InHs : g # job.h => (Gone(g) <=> Gone(g)')
  BY <1>w DEF Gone, Sound, Own
<1>1. PICK w : /\ w \in (IF rest # <<>> THEN {[l EXCEPT !.at = "read", !.plan = rest, !.keys = {}]}
                         ELSE IF l.all THEN In!Onward(l.left) ELSE {In!Ended})
               /\ hooks' = [hooks EXCEPT ![c] = w]
  BY DEF In!After, Job1
<1>2. hooks'[c] = w /\ \A d \in Commands : d # c => hooks'[d] = hooks[d]
  BY <1>1, <1>t DEF InHooksType
<1>3. \A d \in Commands : Live(d) => d = c
  BY DEF InInv
<1>4. \A d \in Commands : d # c => ~Live(d)'
  BY <1>2, <1>3 DEF Live
<1>d. /\ Wipes(l.plan) \/ job.h \in InHs
      /\ l.all => /\ job.h \in InHs /\ job.h \notin l.left
                  /\ \A g \in InHs : g = job.h => Gone(g)'
                  /\ \A g \in InHs : /\ world.status[g] # "in"
                                     /\ g \in l.left => world.status[g] = "unknown"
                                     /\ g \in l.left \/ g = job.h \/ Gone(g)
  <2>1. Due(c)
    BY DEF InInv
  <2>2. \A h \in InHs : Enters(h, l.plan) \/ Registers(h, l.plan) \/ Leaves(h, l.plan) \/ Removes(h, l.plan)
          => job.h = h
    BY InHeads DEF Job1
  <2> QED
    BY <1>j, <2>1, <2>2 DEF Due
<1>u. In!Unborn = [at |-> "new", plan |-> <<>>, all |-> FALSE, left |-> {}, keys |-> {}]
  BY DEF In!Unborn
<1>5. ASSUME DOMAIN w = {"at", "plan", "all", "left", "keys"}, w.at \in {"done", "read"},
             w.all \in BOOLEAN, w.left \subseteq InHs, w.keys = {}, w.at = "read" => Due(c)'
      PROVE  /\ InHooksType'
             /\ \A b, d \in Commands : Live(b)' /\ Live(d)' => b = d
             /\ \A d \in Commands : Live(d)' => Due(d)'
             /\ \A d \in Commands : hooks'[d].at \notin {"truncate", "write"}
  <2>1. InHooksType'
    <3>1. DOMAIN hooks' = Commands
      BY <1>1, <1>t DEF InHooksType
    <3>2. \A d \in Commands :
            /\ DOMAIN hooks'[d] = {"at", "plan", "all", "left", "keys"}
            /\ hooks'[d].at \in {"new", "read", "truncate", "write", "done"}
            /\ hooks'[d].all \in BOOLEAN /\ hooks'[d].left \subseteq InHs /\ hooks'[d].keys \subseteq InKeys
      BY <1>2, <1>5, <1>t DEF InHooksType
    <3> QED
      BY <3>1, <3>2 DEF InHooksType
  <2>2. \A d \in Commands : Live(d)' => d = c /\ Due(d)'
    BY <1>2, <1>4, <1>5 DEF Live
  <2>3. \A d \in Commands : hooks'[d].at \notin {"truncate", "write"}
    BY <1>2, <1>4, <1>5 DEF Live
  <2> QED
    BY <2>1, <2>2, <2>3
<1>a. CASE rest # <<>>
  <2>1. done /\ rest = Tail(l.plan) /\ w = [l EXCEPT !.at = "read", !.plan = rest, !.keys = {}]
    BY <1>a, <1>1
  <2>2. /\ DOMAIN w = {"at", "plan", "all", "left", "keys"} /\ w.at = "read" /\ w.keys = {}
        /\ w.plan = rest /\ w.all = l.all /\ w.left = l.left
    BY <1>t, <2>1 DEF InHooksType
  <2>3. Due(c)
    BY DEF InInv
  <2>4. ~Wipes(l.plan)
    BY <1>a, <2>1, InPlans
  <2>5. PICK h \in InHs :
          /\ world.status[h] = "unknown"
          /\ \/ Enters(h, l.plan) /\ ~l.all
             \/ Registers(h, l.plan) /\ ~l.all
             \/ Leaves(h, l.plan)
             \/ Removes(h, l.plan)
    BY <2>3, <2>4, Zenon DEF Due
  <2>6. job.h = h /\ ~Removes(h, l.plan)
    BY <1>a, <2>1, <2>5, InHeads DEF Job1
  <2>7. CASE (Enters(h, l.plan) \/ Registers(h, l.plan)) /\ ~l.all
    <3>0. Tail(l.plan) # <<>> /\ Registers(h, Tail(l.plan))
      BY <1>a, <2>1, <2>7, InPlans, Zenon
    <3>1. job.do \in {"entry", "log"} /\ Registers(h, rest)
      BY <2>1, <2>7, <3>0, InHeads DEF Job1
    <3>2. "config" \notin world'.torn => h \in store'["config"].keys
      BY <1>w, <2>1, <2>6, <3>1
    <3>3. world'.status[h] = "unknown"
      BY <1>w, <2>5, <3>1
    <3>4. Due(c)'
      BY <1>2, <2>2, <2>7, <3>1, <3>2, <3>3 DEF Due
    <3> QED
      BY <2>2, <3>4, <1>5, <1>t DEF InHooksType
  <2>8. CASE Leaves(h, l.plan)
    <3>1. job.do = "unregister" /\ Removes(h, rest)
      BY <2>1, <2>8, InPlans, InJobs DEF Job1
    <3>2. Gone(h)' /\ \A g \in InHs : world'.status[g] = world.status[g]
      BY <1>w, <2>6, <3>1
    <3>3. Due(c)'
      BY <1>2, <1>d, <1>g, <2>2, <2>5, <2>6, <3>1, <3>2 DEF Due
    <3> QED
      BY <2>2, <3>3, <1>5, <1>t DEF InHooksType
  <2> QED
    BY <2>5, <2>6, <2>7, <2>8
<1>b. CASE rest = <<>> /\ l.all
  <2>1. w \in In!Onward(l.left)
    BY <1>b, <1>1
  <2>2. /\ \A g \in InHs : world'.status[g] # "in" /\ (g \in l.left => world'.status[g] = "unknown")
        /\ \A g \in InHs : g \in l.left \/ Gone(g)'
    <3>1. job.do \in {"unregister", "remove"} /\ job.h \in InHs
      BY <1>b, <1>d, <1>j
    <3>2. world'.status[job.h] # "in"
      BY <1>b, <1>d, <1>w, <3>1
    <3>3. \A g \in InHs : g # job.h => world'.status[g] = world.status[g]
      BY <1>w
    <3> HIDE DEF job
    <3> QED
      BY <1>b, <1>d, <1>g, <3>2, <3>3
  <2>3. CASE l.left = {}
    <3>1. w = In!Doing(<<In!Job("wipe", "config")>>)
      BY <2>1, <2>3 DEF In!Onward
    <3>2. /\ DOMAIN w = {"at", "plan", "all", "left", "keys"} /\ w.at = "read" /\ w.keys = {}
          /\ Wipes(w.plan) /\ w.all = FALSE /\ w.left = {}
      BY <1>u, <3>1 DEF In!Doing, Wipes
    <3>3. Due(c)'
      BY <1>2, <2>2, <2>3, <3>2 DEF Due
    <3> QED
      BY <3>2, <3>3, <1>5
  <2>4. CASE l.left # {}
    <3>1. PICK k \in l.left : w = [In!Doing(In!UninstallPlan(k)) EXCEPT !.all = TRUE, !.left = l.left \ {k}]
      BY <2>1, <2>4 DEF In!Onward
    <3>2. /\ DOMAIN w = {"at", "plan", "all", "left", "keys"} /\ w.at = "read" /\ w.keys = {}
          /\ Leaves(k, w.plan) /\ w.all = TRUE /\ w.left = l.left \ {k}
      BY <1>u, <3>1 DEF In!Doing, In!UninstallPlan, Leaves
    <3>3. k \in InHs /\ l.left \subseteq InHs
      BY <1>t DEF InHooksType
    <3>4. Due(c)'
      BY <1>2, <2>2, <3>2, <3>3 DEF Due
    <3> QED
      BY <3>2, <3>3, <3>4, <1>5
  <2> QED
    BY <2>3, <2>4
<1>c. CASE rest = <<>> /\ ~l.all
  <2>1. w = In!Ended
    BY <1>c, <1>1
  <2>2. /\ DOMAIN w = {"at", "plan", "all", "left", "keys"} /\ w.at = "done" /\ w.keys = {}
        /\ w.all = FALSE /\ w.left = {}
    BY <1>u, <2>1 DEF In!Ended
  <2> QED
    BY <2>2, <1>5
<1> QED
  BY <1>a, <1>b, <1>c

(* A config.json that goes with the hooks still does at the end of a job.  *)
LEMMA InAgrees ==
  ASSUME InType, NEW job, world' = In!Result(job), \A g \in InHs : g # job.h => store'[g] = store[g]
  PROVE  \A keys :
           /\ Agrees(keys)
           /\ \A g \in InHs : g = job.h /\ Sound(g) =>
                /\ world.status[g] = "unknown"
                /\ "own" \in store'[g].keys => g \in keys
                /\ job.do = "register" => "own" \in store'[g].keys
                /\ job.do = "remove" => "own" \notin store'[g].keys /\ g \notin keys
                /\ job.do = "register" => g \in keys
           => Agrees(keys)'
<1>1. SUFFICES ASSUME NEW keys, Agrees(keys),
                      \A g \in InHs : g = job.h /\ Sound(g) =>
                        /\ world.status[g] = "unknown"
                        /\ "own" \in store'[g].keys => g \in keys
                        /\ job.do = "register" => "own" \in store'[g].keys
                        /\ job.do = "remove" => "own" \notin store'[g].keys /\ g \notin keys
                        /\ job.do = "register" => g \in keys,
                      NEW h \in InHs, Sound(h)'
               PROVE  /\ Own(h)' => h \in keys
                      /\ world'.status[h] = "in" => Own(h)' /\ h \in keys
                      /\ world'.status[h] = "out" => ~Own(h)' /\ h \notin keys
  BY DEF Agrees
<1>2. Sound(h)
  BY <1>1, InResult DEF Sound
<1>3. CASE h # job.h
  <2>1. store'[h] = store[h] /\ world'.status[h] = world.status[h]
    BY <1>3, InResult
  <2> QED
    BY <1>1, <1>2, <2>1 DEF Agrees, Own
<1>4. CASE h = job.h /\ job.do \notin {"register", "remove"}
  <2>1. world'.status[h] = world.status[h]
    BY <1>4, InResult
  <2> QED
    BY <1>1, <1>2, <1>4, <2>1 DEF Own
<1>5. CASE h = job.h /\ job.do = "register"
  <2>1. world'.status[h] = "in"
    BY <1>5, InResult
  <2> QED
    BY <1>1, <1>2, <1>5, <2>1 DEF Own
<1>6. CASE h = job.h /\ job.do = "remove"
  <2>1. world'.status[h] = "out"
    BY <1>6, InResult
  <2> QED
    BY <1>1, <1>2, <1>6, <2>1 DEF Own
<1> QED
  BY <1>3, <1>4, <1>5, <1>6

(* A job has ended, and nobody writes: what its file has become decides.   *)
LEMMA InEnds ==
  ASSUME InInv, NEW c \in Commands, Live(c), NEW done \in BOOLEAN, In!After(c, done),
         world' = IF done THEN In!Result(Job1(c)) ELSE world,
         InFilesType',
         \A f \in InFiles : f # File1(c) => store'[f] = store[f],
         LET f == File1(c) IN
           /\ store'[f].text \in {"none", "empty"} => store'[f].keys = {}
           /\ store'[f].text = "broken" => f \in world.broken
           /\ f # "config" => Users(f, store'[f].keys),
         \A h \in InHs : h = Job1(c).h /\ Sound(h) =>
           /\ Job1(c).do \in {"unregister", "remove"} => "own" \notin store'[h].keys
           /\ done /\ Job1(c).do = "register" => "own" \in store'[h].keys,
         done /\ Job1(c).do \in {"entry", "log"} /\ "config" \notin world.torn =>
           Job1(c).h \in store'["config"].keys,
         done /\ Job1(c).do = "remove" => Job1(c).h \notin store'["config"].keys,
         File1(c) = "config" => Agrees(store'["config"].keys),
         ~done => store' = store
  PROVE  InInv'
<1> DEFINE job == Job1(c)
           f == File1(c)
<1>j. /\ job.do = "wipe" => job.h = "config" /\ f = "config"
      /\ job.do # "wipe" => job.h \in InHs /\ world.status[job.h] = "unknown"
      /\ job.do \in {"entry", "log", "register", "unregister", "remove", "wipe"}
      /\ job.do \in {"entry", "log", "remove"} => f = "config"
      /\ job.do \in {"register", "unregister"} => f = job.h
      /\ job.do = "register" /\ "config" \notin world.torn => job.h \in store["config"].keys
  BY InJob
<1>t. InType /\ InFilesType /\ InWorldType /\ InHooksType /\ "config" \notin InHs
  BY DEF InInv, InType
<1>w. world'.torn = world.torn /\ world'.broken = world.broken /\ InWorldType'
  BY <1>t, InResult DEF InWorldType
<1>s. \A h \in InHs : h # job.h => store'[h] = store[h]
  BY <1>j, <1>t DEF InFiles
<1>1. \A h : Sound(h)' <=> Sound(h)
  BY <1>w DEF Sound
<1>2. /\ InHooksType'
      /\ \A b, d \in Commands : Live(b)' /\ Live(d)' => b = d
      /\ \A d \in Commands : Live(d)' => Due(d)'
      /\ \A d \in Commands : hooks'[d].at \notin {"truncate", "write"}
  <2>1. \A g \in InHs : g = job.h /\ job.do \in {"unregister", "remove"} => Gone(g)'
    BY <1>1 DEF Gone, Own
  <2> QED
    BY <1>s, <2>1, InGoesOn
<1>3. InType'
  BY <1>t, <1>2, <1>w DEF InType
<1>4. ASSUME NEW g \in InFiles
      PROVE  /\ store'[g].text \in {"none", "empty"} => store'[g].keys = {}
             /\ store'[g].text = "broken" => g \in world'.broken
  BY <1>w DEF InInv, InStore
<1>5. ASSUME NEW h \in InHs
      PROVE  Users(h, store[h].keys)'
  <2>1. Users(h, store'[h].keys)
    <3>1. CASE h = f
      BY <3>1, <1>t
    <3>2. CASE h # f
      <4>1. store'[h] = store[h]
        BY <3>2 DEF InFiles
      <4>2. \A d \in Commands : hooks[d].at = "write" => d = c
        BY DEF InInv, Live
      <4> QED
        BY <3>2, <4>1, <4>2 DEF InInv, InStore
    <3> QED
      BY <3>1, <3>2
  <2> QED
    BY <2>1, <1>w DEF Users
<1>6. Agrees(store'["config"].keys)
  <2>1. CASE f # "config"
    <3>1. \A d \in Commands : hooks[d].at = "write" => File1(d) # "config"
      BY <2>1 DEF InInv, Live
    <3>2. store'["config"] = store["config"]
      BY <2>1 DEF InFiles
    <3> QED
      BY <3>1, <3>2 DEF InInv, InStore
  <2> QED
    BY <2>1
<1>7. Agrees(store["config"].keys)'
  <2>1. CASE done
    <3>1. ASSUME NEW g \in InHs, g = job.h, Sound(g)
          PROVE  /\ world.status[g] = "unknown"
                 /\ "own" \in store'[g].keys => g \in store'["config"].keys
                 /\ job.do = "register" => "own" \in store'[g].keys
                 /\ job.do = "remove" => "own" \notin store'[g].keys /\ g \notin store'["config"].keys
                 /\ job.do = "register" => g \in store'["config"].keys
      <4>1. CASE f = "config"
        <5>1. store'[g] = store[g] /\ job.do # "register"
          BY <1>j, <1>t, <3>1, <4>1 DEF InFiles
        <5>2. Own(g) => g \in store'["config"].keys
          BY <1>6, <3>1 DEF Agrees
        <5> QED
          BY <1>j, <1>t, <2>1, <3>1, <5>1, <5>2 DEF Own
      <4>2. CASE f # "config"
        <5>1. job.do \in {"register", "unregister"} /\ f = g
          BY <1>j, <3>1, <4>2
        <5>2. store'["config"] = store["config"]
          BY <4>2 DEF InFiles
        <5> QED
          BY <1>j, <1>t, <2>1, <3>1, <5>1, <5>2 DEF Sound
      <4> QED
        BY <4>1, <4>2
    <3>2. world' = In!Result(job)
      BY <2>1
    <3> HIDE DEF job
    <3> QED
      BY <1>6, <1>s, <1>t, <3>1, <3>2, InAgrees
  <2>2. CASE ~done
    <3>1. world' = world /\ store' = store
      BY <2>2
    <3> QED
      BY <1>6, <3>1 DEF Agrees, Sound, Own
  <2> QED
    BY <2>1, <2>2
<1>8. InStore'
  BY <1>4, <1>5, <1>7 DEF InStore
<1> QED
  BY <1>2, <1>3, <1>8 DEF InInv

(* A command begins.                                                       *)
LEMMA InBegins ==
  ASSUME InInv, NEW c \in Commands, NEW ways, NEW changed \in SUBSET InHs,
         In!Begin(c, ways, changed),
         \A w \in ways :
           /\ DOMAIN w = {"at", "plan", "all", "left", "keys"} /\ w.at = "read" /\ w.keys = {}
           /\ w.all \in BOOLEAN /\ w.left \subseteq InHs
           /\ \/ \E h \in changed :
                   \/ Enters(h, w.plan) /\ ~w.all
                   \/ Leaves(h, w.plan) /\
                        (w.all => /\ h \notin w.left /\ changed = InHs
                                  /\ \A g \in InHs : g \in w.left \/ g = h \/ Gone(g))
              \/ Wipes(w.plan) /\ ~w.all /\ changed = InHs /\ \A g \in InHs : Gone(g)
  PROVE  InInv'
<1>t. InType /\ InFilesType /\ InWorldType /\ InHooksType
  BY DEF InInv, InType
<1>1. PICK w \in ways : hooks' = [hooks EXCEPT ![c] = w]
  BY DEF In!Begin
<1>2. /\ hooks[c].at = "new" /\ store' = store
      /\ world' = [world EXCEPT !.status = [h \in InHs |-> IF h \in changed THEN "unknown" ELSE @[h]]]
      /\ \A d \in Commands : hooks[d].at \in {"new", "done"}
  BY DEF In!Begin, In!AtRest, InHs
<1>3. /\ InWorldType' /\ world'.torn = world.torn /\ world'.broken = world.broken
      /\ \A h \in InHs : world'.status[h] = IF h \in changed THEN "unknown" ELSE world.status[h]
  BY <1>2, <1>t DEF InWorldType
<1>4. hooks'[c] = w /\ \A d \in Commands : d # c => hooks'[d] = hooks[d]
  BY <1>1, <1>t DEF InHooksType
<1>5. InHooksType'
  <2>1. DOMAIN hooks' = Commands
    BY <1>1, <1>t DEF InHooksType
  <2> QED
    BY <1>4, <1>t, <2>1 DEF InHooksType
<1>6. InType'
  BY <1>2, <1>3, <1>5, <1>t DEF InType, InFilesType
<1>7. \A d \in Commands : hooks[d].at # "write" /\ hooks'[d].at \notin {"truncate", "write"}
  BY <1>2, <1>4
<1>8. \A h \in InHs : (Sound(h)' <=> Sound(h)) /\ (Own(h)' <=> Own(h)) /\ (Gone(h)' <=> Gone(h))
  BY <1>2, <1>3 DEF Gone, Sound, Own
<1>9. InStore'
  <2>1. Agrees(store["config"].keys)
    BY <1>7 DEF InInv, InStore
  <2>2. Agrees(store["config"].keys)'
    BY <1>2, <1>3, <1>8, <2>1 DEF Agrees
  <2>3. \A h \in InHs : Users(h, store[h].keys)'
    BY <1>2, <1>3, <1>7 DEF InInv, InStore, Users
  <2> QED
    BY <1>2, <1>3, <2>2, <2>3 DEF InInv, InStore
<1>10. \A d \in Commands : Live(d)' => d = c
  BY <1>2, <1>4 DEF Live
<1>11. Due(c)'
  <2>1. CASE \E h \in changed : Enters(h, w.plan) /\ ~w.all
    BY <1>3, <1>4, <2>1 DEF Due
  <2>2. CASE \E h \in changed : Leaves(h, w.plan) /\
               (w.all => /\ h \notin w.left /\ changed = InHs
                         /\ \A g \in InHs : g \in w.left \/ g = h \/ Gone(g))
    <3>1. PICK h \in changed :
            /\ Leaves(h, w.plan)
            /\ (w.all => /\ h \notin w.left /\ changed = InHs
                         /\ \A g \in InHs : g \in w.left \/ g = h \/ Gone(g))
      BY <2>2
    <3>2. h \in InHs /\ world'.status[h] = "unknown"
      BY <1>3
    <3>3. w.all => \A g \in InHs : world'.status[g] = "unknown" /\ (g \in w.left \/ g = h \/ Gone(g)')
      BY <1>3, <1>8, <3>1
    <3> QED
      BY <1>4, <3>1, <3>2, <3>3 DEF Due
  <2>3. CASE Wipes(w.plan) /\ ~w.all /\ changed = InHs /\ \A g \in InHs : Gone(g)
    BY <1>3, <1>4, <1>8, <2>3 DEF Due
  <2> QED
    BY <2>1, <2>2, <2>3
<1> QED
  BY <1>6, <1>7, <1>9, <1>10, <1>11 DEF InInv

LEMMA InBegun ==
  ASSUME InInv, NEW c \in Commands, In!Setup(c) \/ In!Uninstall(c) \/ In!UninstallAll(c)
  PROVE  InInv'
<1>u. In!Unborn = [at |-> "new", plan |-> <<>>, all |-> FALSE, left |-> {}, keys |-> {}]
  BY DEF In!Unborn
<1>d. \A p : LET w == In!Doing(p) IN
        /\ DOMAIN w = {"at", "plan", "all", "left", "keys"} /\ w.at = "read" /\ w.keys = {}
        /\ w.all = FALSE /\ w.left = {} /\ w.plan = p
  BY <1>u DEF In!Doing
<1>1. CASE In!Setup(c)
  <2>1. PICK h \in InHs : In!Begin(c, {In!Doing(In!SetupPlan(h))}, {h})
    BY <1>1 DEF In!Setup, InHs
  <2>2. Enters(h, In!SetupPlan(h))
    <3> DEFINE e == In!Job("entry", h)  g == In!Job("log", h)  r == In!Job("register", h)
    <3>1. <<e>> \o <<g>> \o <<r>> = <<e, g, r>> /\ <<e>> \o <<>> \o <<r>> = <<e, r>>
      <4> HIDE DEF e, g, r
      <4> QED
        BY Tuples
    <3> QED
      BY <3>1 DEF Enters, In!SetupPlan
  <2> DEFINE ways == {In!Doing(In!SetupPlan(h))}
             changed == {h}
  <2>3. In!Begin(c, ways, changed) /\ changed \in SUBSET InHs
    BY <2>1
  <2>4. \A w \in ways :
          /\ DOMAIN w = {"at", "plan", "all", "left", "keys"} /\ w.at = "read" /\ w.keys = {}
          /\ w.all = FALSE /\ w.left = {} /\ \E k \in changed : Enters(k, w.plan)
    BY <1>d, <2>2
  <2> HIDE DEF ways, changed
  <2> QED
    BY <2>3, <2>4, InBegins
<1>2. CASE In!Uninstall(c)
  <2>1. PICK h \in InHs : In!Begin(c, {In!Doing(In!UninstallPlan(h))}, {h})
    BY <1>2 DEF In!Uninstall, InHs
  <2>2. Leaves(h, In!UninstallPlan(h))
    BY DEF Leaves, In!UninstallPlan
  <2> DEFINE ways == {In!Doing(In!UninstallPlan(h))}
             changed == {h}
  <2>3. In!Begin(c, ways, changed) /\ changed \in SUBSET InHs
    BY <2>1
  <2>4. \A w \in ways :
          /\ DOMAIN w = {"at", "plan", "all", "left", "keys"} /\ w.at = "read" /\ w.keys = {}
          /\ w.all = FALSE /\ w.left = {} /\ \E k \in changed : Leaves(k, w.plan)
    BY <1>d, <2>2
  <2> HIDE DEF ways, changed
  <2> QED
    BY <2>3, <2>4, InBegins
<1>3. CASE In!UninstallAll(c)
  <2> DEFINE left == store["config"].keys \cap InHs
  <2>1. In!Begin(c, In!Onward(left), InHs)
    BY <1>3 DEF In!UninstallAll, InHs
  <2>2. \A g \in InHs : g \in left \/ Gone(g)
    <3>1. \A d \in Commands : hooks[d].at # "write"
      BY <2>1 DEF In!Begin, In!AtRest
    <3>2. Agrees(store["config"].keys)
      BY <3>1 DEF InInv, InStore
    <3> QED
      BY <3>2 DEF Agrees, Gone
  <2>3. CASE left = {}
    <3>1. In!Onward(left) = {In!Doing(<<In!Job("wipe", "config")>>)}
      BY <2>3 DEF In!Onward
    <3>2. Wipes(<<In!Job("wipe", "config")>>)
      BY DEF Wipes
    <3>3. \A w \in In!Onward(left) :
                 /\ DOMAIN w = {"at", "plan", "all", "left", "keys"} /\ w.at = "read" /\ w.keys = {}
                 /\ w.all = FALSE /\ w.left = {} /\ Wipes(w.plan)
      BY <1>d, <3>1, <3>2
    <3>4. \A g \in InHs : Gone(g)
      BY <2>2, <2>3
    <3> HIDE DEF left
    <3> QED
      BY <2>1, <3>3, <3>4, InBegins
  <2>4. CASE left # {}
    <3>1. ASSUME NEW w \in In!Onward(left)
          PROVE  \E h \in left : w = [In!Doing(In!UninstallPlan(h)) EXCEPT !.all = TRUE, !.left = left \ {h}]
      BY <2>4, <3>1 DEF In!Onward
    <3> HIDE DEF left
    <3>3. left \subseteq InHs
      BY DEF left
    <3> QED
      <4>1. \A w \in In!Onward(left) :
              /\ DOMAIN w = {"at", "plan", "all", "left", "keys"} /\ w.at = "read" /\ w.keys = {}
              /\ w.all = TRUE /\ w.left \subseteq InHs
              /\ \E h \in InHs : /\ Leaves(h, w.plan) /\ h \notin w.left
                               /\ \A g \in InHs : g \in w.left \/ g = h \/ Gone(g)
        <5> SUFFICES ASSUME NEW w \in In!Onward(left)
                     PROVE  /\ DOMAIN w = {"at", "plan", "all", "left", "keys"} /\ w.at = "read" /\ w.keys = {}
                            /\ w.all = TRUE /\ w.left \subseteq InHs
                            /\ \E h \in InHs : /\ Leaves(h, w.plan) /\ h \notin w.left
                                             /\ \A g \in InHs : g \in w.left \/ g = h \/ Gone(g)
          OBVIOUS
        <5>1. PICK h \in left : w = [In!Doing(In!UninstallPlan(h)) EXCEPT !.all = TRUE, !.left = left \ {h}]
          BY <3>1
        <5>2. /\ DOMAIN w = {"at", "plan", "all", "left", "keys"} /\ w.at = "read" /\ w.keys = {}
              /\ w.all = TRUE /\ w.left = left \ {h} /\ Leaves(h, w.plan)
          BY <1>u, <5>1 DEF In!Doing, Leaves, In!UninstallPlan
        <5> QED
          BY <2>2, <3>3, <5>2
      <4> QED
        BY <2>1, <4>1, InBegins
  <2> QED
    BY <2>3, <2>4
<1> QED
  BY <1>1, <1>2, <1>3

LEMMA InRead ==
  ASSUME InInv, NEW c \in Commands, In!Read(c)
  PROVE  InInv'
<1> DEFINE job == Job1(c)
           f == File1(c)
           l == hooks[c]
<1>t. InType /\ InFilesType /\ InWorldType /\ InHooksType /\ "config" \notin InHs
  BY DEF InInv, InType
<1>l. Live(c) /\ l.at = "read" /\ \A d \in Commands : hooks[d].at # "write"
  BY DEF In!Read, InInv, Live
<1>j. /\ job.do = "wipe" => job.h = "config" /\ f = "config" /\ Wipes(l.plan)
      /\ job.do # "wipe" => job.h \in InHs /\ world.status[job.h] = "unknown"
      /\ job.do \in {"entry", "log", "register", "unregister", "remove", "wipe"}
      /\ job.do \in {"entry", "log", "remove"} => f = "config"
      /\ job.do \in {"register", "unregister"} => f = job.h
      /\ job.do = "remove" => Gone(job.h)
      /\ job.do \in {"register", "log"} /\ "config" \notin world.torn => job.h \in store["config"].keys
  BY <1>l, InJob
<1>f. f \in InFiles
  BY <1>j DEF InFiles
<1>s. /\ Agrees(store["config"].keys)
      /\ \A g \in InFiles : /\ store[g].text \in {"none", "empty"} => store[g].keys = {}
                            /\ store[g].text = "broken" => g \in world.broken
      /\ \A h \in InHs : Users(h, store[h].keys)
  BY <1>l DEF InInv, InStore
<1>1. CASE In!Fails(job) /\ In!After(c, FALSE) /\ UNCHANGED <<store, world>>
  <2>1. \A h \in InHs : h = job.h /\ Sound(h) /\ job.do \in {"unregister", "remove"} => "own" \notin store[h].keys
    <3>1. store[f].text = "broken"
      BY <1>1 DEF In!Fails, File1
    <3> QED
      BY <1>f, <1>j, <1>s, <3>1 DEF Gone, Sound, Own
  <2>2. f # "config" => Users(f, store[f].keys)
    BY <1>f, <1>s DEF InFiles
  <2>3. store' = store /\ world' = world /\ InFilesType' /\ In!After(c, FALSE)
    BY <1>1, <1>t DEF InFilesType
  <2> HIDE DEF job, f
  <2> QED
    BY <1>f, <1>l, <1>s, <2>1, <2>2, <2>3, InEnds DEF job, f
<1>2. CASE ~In!Fails(job) /\ In!Skips(job) /\ In!After(c, TRUE) /\ world' = In!Result(job) /\ UNCHANGED store
  <2>1. /\ job.do \in {"remove", "unregister"}
        /\ job.do = "remove" => job.h \notin store["config"].keys
        /\ job.do = "unregister" =>
             store[f].text = "none" \/ (job.h \in Lenient /\ (store[f].text = "broken" \/ In!Blank(store[f])))
    BY <1>2, <1>j DEF In!Skips, File1
  <2>2. \A h \in InHs : h = job.h /\ Sound(h) => "own" \notin store[h].keys
    <3>1. job.do = "unregister" => store[f].keys = {} \/ store[f].text = "broken"
      BY <1>f, <1>s, <2>1 DEF In!Blank
    <3> QED
      BY <1>f, <1>j, <1>s, <2>1, <3>1 DEF Gone, Sound, Own
  <2>3. f # "config" => Users(f, store[f].keys)
    BY <1>f, <1>s DEF InFiles
  <2>4. store' = store /\ InFilesType'
    BY <1>2, <1>t DEF InFilesType
  <2> QED
    BY <1>2, <1>f, <1>l, <1>s, <2>1, <2>2, <2>3, <2>4, InEnds
<1>3. CASE /\ ~In!Fails(job) /\ ~In!Skips(job) /\ In!Deletes(job)
           /\ store' = [store EXCEPT ![f] = In!File("none", {})]
           /\ In!After(c, TRUE) /\ world' = In!Result(job)
  <2>1. /\ InFilesType' /\ store'[f].text = "none" /\ store'[f].keys = {}
        /\ \A g \in InFiles : g # f => store'[g] = store[g]
    BY <1>3, <1>f, <1>t DEF InFilesType, In!File
  <2>2. CASE job.do = "wipe"
    <3>1. f = "config" /\ job.h = "config"
      BY <1>j, <2>2
    <3>2. Agrees({})
      <4>1. \A g \in InHs : Gone(g) /\ world.status[g] # "in"
        <5>1. \A h : ~(Enters(h, l.plan) \/ Registers(h, l.plan) \/ Leaves(h, l.plan) \/ Removes(h, l.plan))
          BY <1>j, <2>2, InHeads DEF Job1
        <5>2. Due(c)
          BY <1>l DEF InInv
        <5> QED
          BY <5>1, <5>2 DEF Due
      <4> QED
        BY <4>1 DEF Agrees, Gone
    <3>3. Agrees(store'["config"].keys)
      BY <2>1, <3>1, <3>2
    <3> QED
      BY <1>3, <1>l, <1>t, <2>1, <2>2, <3>1, <3>3, InEnds
  <2>3. CASE job.do # "wipe"
    <3>1. job.do = "unregister" /\ In!Edited(job) = {} /\ f = job.h /\ f \in InHs
      BY <1>3, <1>j, <2>3 DEF In!Deletes
    <3>2. Users(f, {})
      <4>1. In!Edited(job) = (IF store[f].text = "broken" THEN {} ELSE store[f].keys) \ {"own"}
        BY <3>1 DEF In!Edited, File1
      <4>2. store[f].text # "broken" => "users" \notin store[f].keys
        BY <3>1, <4>1
      <4>3. store[f].text = "broken" => f \in Lenient /\ f \in world.broken
        BY <1>3, <1>f, <1>s, <3>1 DEF In!Fails, File1
      <4> QED
        BY <1>s, <3>1, <4>2, <4>3 DEF Users
    <3>3. f # "config" /\ Users(f, store'[f].keys)
      BY <1>t, <2>1, <3>1, <3>2
    <3> QED
      BY <1>3, <1>l, <1>t, <2>1, <3>1, <3>3, InEnds
  <2> QED
    BY <2>2, <2>3
<1>4. CASE /\ ~In!Fails(job) /\ ~In!Skips(job) /\ ~In!Deletes(job)
           /\ hooks' = [hooks EXCEPT ![c].at = "truncate", ![c].keys = In!Edited(job)]
           /\ UNCHANGED <<store, world>>
  <2> DEFINE keys == IF store[f].text = "broken" THEN {} ELSE store[f].keys
  <2>1. /\ hooks'[c].at = "truncate" /\ hooks'[c].keys = In!Edited(job) /\ hooks'[c].plan = l.plan
        /\ hooks'[c].all = l.all /\ hooks'[c].left = l.left
        /\ DOMAIN hooks'[c] = {"at", "plan", "all", "left", "keys"}
        /\ \A d \in Commands : d # c => hooks'[d] = hooks[d]
        /\ DOMAIN hooks' = Commands
    BY <1>4, <1>t DEF InHooksType
  <2>2. job.do # "wipe" /\ job.h \in InHs /\ world.status[job.h] = "unknown"
    BY <1>4, <1>j DEF In!Deletes
  <2>3. /\ job.do = "entry" => In!Edited(job) = keys \cup {job.h}
        /\ job.do = "log" => In!Edited(job) = keys \cup {"logging"}
        /\ job.do = "register" => In!Edited(job) = keys \cup {"own"}
        /\ job.do = "unregister" => In!Edited(job) = keys \ {"own"}
        /\ job.do = "remove" => In!Edited(job) = keys \ {job.h}
    BY DEF In!Edited, File1
  <2>4. keys \subseteq InKeys
    BY <1>f, <1>t DEF InFilesType
  <2>5. In!Edited(job) \subseteq InKeys
    BY <1>j, <2>2, <2>3, <2>4 DEF InKeys
  <2>6. InType'
    <3>1. InHooksType'
      BY <1>t, <2>1, <2>5 DEF InHooksType
    <3> QED
      BY <1>4, <1>t, <3>1 DEF InType, InFilesType, InWorldType
  <2>7. store[f].text = "broken" => f # "config" /\ f \in Lenient /\ f \in world.broken
    BY <1>4, <1>f, <1>s, <1>t, <2>2 DEF In!Fails, File1, InType
  <2>8. Edits(c)'
    <3>1. ASSUME f = "config"
          PROVE  Agrees(In!Edited(job))
      <4>1. keys = store["config"].keys /\ Agrees(keys)
        BY <1>s, <2>7, <3>1
      <4>2. job.do \in {"entry", "log", "remove"}
        BY <1>j, <1>t, <2>2, <3>1
      <4> HIDE DEF keys
      <4>3. CASE job.do = "remove"
        BY <1>j, <2>2, <2>3, <4>1, <4>3 DEF Agrees, Gone
      <4>4. CASE job.do = "entry"
        BY <2>2, <2>3, <4>1, <4>4 DEF Agrees
      <4>5. CASE job.do = "log"
        BY <1>t, <2>3, <4>1, <4>5 DEF Agrees, InType
      <4> QED
        BY <4>2, <4>3, <4>4, <4>5
    <3>2. /\ job.do \in {"entry", "log"} /\ "config" \notin world.torn => job.h \in In!Edited(job)
          /\ job.do = "remove" => job.h \notin In!Edited(job)
          /\ job.do = "register" => "own" \in In!Edited(job)
          /\ job.do = "unregister" => "own" \notin In!Edited(job)
      BY <1>j, <2>3, <2>7
    <3>3. ASSUME job.do \in {"register", "unregister"}
          PROVE  Users(job.h, In!Edited(job))
      <4>1. f = job.h
        BY <1>j, <3>3
      <4>2. Users(f, store[f].keys)
        BY <1>s, <2>2, <4>1
      <4> QED
        BY <2>3, <2>7, <3>3, <4>1, <4>2 DEF Users
    <3>4. Job1(c)' = job /\ File1(c)' = f
      BY <2>1 DEF Job1, File1, In!FileOf
    <3>5. Agrees(In!Edited(job)) => Agrees(hooks[c].keys)'
      BY <1>4, <2>1 DEF Agrees, Sound, Own
    <3>6. Users(job.h, In!Edited(job)) => \A h : h = job.h => Users(h, hooks[c].keys)'
      BY <1>4, <2>1 DEF Users
    <3>7. world' = world
      BY <1>4
    <3> HIDE DEF job, f
    <3> QED
      BY <2>1, <2>2, <3>1, <3>2, <3>3, <3>4, <3>5, <3>6, <3>7 DEF Edits
  <2>9. Due(c)'
    <3>1. Due(c)
      BY <1>l DEF InInv
    <3> QED
      BY <1>4, <1>l, <2>1, <3>1 DEF Due, Gone, Sound, Own
  <2>10. \A d \in Commands : (Live(d)' <=> Live(d)) /\ (hooks'[d].at \in {"truncate", "write"} => d = c)
    BY <1>l, <2>1 DEF InInv, Live
  <2>11. InStore'
    BY <1>4, <1>s DEF InStore, Agrees, Sound, Own, Users
  <2> QED
    BY <1>l, <2>6, <2>8, <2>9, <2>10, <2>11 DEF InInv
<1> QED
  BY <1>1, <1>2, <1>3, <1>4 DEF In!Read, Job1, File1

LEMMA InTruncate ==
  ASSUME InInv, NEW c \in Commands, In!Truncate(c)
  PROVE  InInv'
<1> DEFINE job == Job1(c)
           f == File1(c)
           l == hooks[c]
<1>t. InType /\ InFilesType /\ InWorldType /\ InHooksType /\ "config" \notin InHs
  BY DEF InInv, InType
<1>l. /\ Live(c) /\ l.at = "truncate" /\ \A d \in Commands : hooks[d].at # "write"
      /\ Due(c) /\ Edits(c) /\ \A d \in Commands : Live(d) => d = c
  BY DEF In!Truncate, InInv, Live
<1>j. /\ job.do # "wipe" => job.h \in InHs /\ world.status[job.h] = "unknown"
      /\ job.do \in {"entry", "log", "register", "unregister", "remove", "wipe"}
      /\ job.do \in {"entry", "log", "remove"} => f = "config"
      /\ job.do \in {"register", "unregister"} => f = job.h
      /\ l.plan # <<>>
  BY <1>l, InJob
<1>e. job.do # "wipe"
  BY <1>l DEF Edits
<1>f. f \in InFiles
  BY <1>j, <1>e DEF InFiles
<1>1. /\ hooks'[c].at = "write" /\ hooks'[c].keys = l.keys /\ hooks'[c].plan = l.plan
      /\ hooks'[c].all = l.all /\ hooks'[c].left = l.left
      /\ DOMAIN hooks'[c] = {"at", "plan", "all", "left", "keys"}
      /\ \A d \in Commands : d # c => hooks'[d] = hooks[d]
      /\ DOMAIN hooks' = Commands
  BY <1>t DEF InHooksType, In!Truncate
<1>2. /\ InFilesType' /\ store'[f].text = "empty" /\ store'[f].keys = {}
      /\ \A g \in InFiles : g # f => store'[g] = store[g]
      /\ world' = world
  BY <1>f, <1>t DEF InFilesType, In!File, In!Truncate, Job1, File1
<1>3. Job1(c)' = job /\ File1(c)' = f /\ \A d \in Commands : d # c => File1(d)' = File1(d)
  BY <1>1 DEF Job1, File1, In!FileOf
<1>4. InType'
  <2>1. InHooksType'
    BY <1>t, <1>1 DEF InHooksType
  <2> QED
    BY <1>2, <1>t, <2>1 DEF InType, InWorldType
<1>5. \A h \in InHs : /\ Sound(h)' <=> Sound(h)
                      /\ h # f => (Own(h)' <=> Own(h))
                      /\ Gone(h) => Gone(h)'
  BY <1>2 DEF Sound, Own, Gone, InFiles
<1>6. f = "config" => \A keys : Agrees(keys) => Agrees(keys)'
  <2>1. f = "config" => \A h \in InHs : h # f
    BY <1>t
  <2> QED
    BY <1>2, <1>5, <2>1 DEF Agrees
<1>7. Edits(c)'
  <2>1. Agrees(l.keys) /\ f = "config" => Agrees(hooks[c].keys)'
    BY <1>1, <1>2, <1>5, <1>t DEF Agrees
  <2>2. Users(job.h, l.keys) => \A h : h = job.h => Users(h, hooks[c].keys)'
    BY <1>1, <1>2 DEF Users
  <2> HIDE DEF job, f
  <2> QED
    BY <1>1, <1>2, <1>3, <1>l, <2>1, <2>2 DEF Edits, job, f
<1>8. Due(c)'
  <2>1. job.do = "register" => store'["config"] = store["config"]
    BY <1>2, <1>j, <1>t, <1>e DEF InFiles
  <2>2. job.do = "log" /\ "config" \notin world.torn => job.h \in l.keys
    BY <1>l DEF Edits
  <2>3. CASE Wipes(l.plan)
    BY <1>e, <2>3, InHeads DEF Job1
  <2>4. CASE ~Wipes(l.plan)
    <3>1. PICK h \in InHs :
       /\ world.status[h] = "unknown"
       /\ \/ Enters(h, l.plan) /\ ~l.all
          \/ Registers(h, l.plan) /\ ~l.all /\ ("config" \notin world.torn => h \in store["config"].keys)
          \/ Leaves(h, l.plan)
          \/ Removes(h, l.plan) /\ Gone(h)
       /\ l.all => h \notin l.left /\
            \A g \in InHs :
              /\ world.status[g] # "in"
              /\ g \in l.left => world.status[g] = "unknown"
              /\ g \in l.left \/ g = h \/ Gone(g)
      BY <1>l, <2>4 DEF Due
    <3>2. Registers(h, l.plan) => job.h = h /\ job.do \in {"log", "register"}
      BY InHeads DEF Job1
    <3>3. Registers(h, l.plan) => ("config" \notin world'.torn =>
               IF hooks'[c].at = "write" /\ job.do = "log" THEN h \in l.keys ELSE h \in store'["config"].keys)
      BY <1>1, <1>2, <2>1, <2>2, <3>1, <3>2, InHeads DEF Job1
    <3> HIDE DEF job
    <3> QED
      BY <1>1, <1>2, <1>3, <1>5, <3>1, <3>3 DEF Due
  <2> QED
    BY <2>3, <2>4
<1>9. InStore'
  <2>1. \A g \in InFiles : /\ store'[g].text \in {"none", "empty"} => store'[g].keys = {}
                           /\ store'[g].text = "broken" => g \in world'.broken
    BY <1>2 DEF InInv, InStore
  <2>2. f # "config" => Agrees(store["config"].keys)'
    <3>1. ASSUME f # "config"
          PROVE  /\ f = job.h /\ f \in InHs /\ world.status[f] = "unknown"
                 /\ store'["config"] = store["config"] /\ Agrees(store["config"].keys) /\ ~Own(f)'
      <4>1. f = job.h /\ f \in InHs /\ world.status[f] = "unknown"
        BY <1>e, <1>j, <3>1
      <4>2. store'["config"] = store["config"]
        BY <1>2, <3>1 DEF InFiles
      <4>3. Agrees(store["config"].keys)
        BY <1>l DEF InInv, InStore
      <4>4. ~Own(f)'
        BY <1>2, <1>3 DEF Own
      <4> QED
        BY <4>1, <4>2, <4>3, <4>4
    <3>2. ASSUME f # "config", NEW h \in InHs, Sound(h)'
          PROVE  /\ Own(h)' => h \in store'["config"].keys
                 /\ world'.status[h] = "in" => Own(h)' /\ h \in store'["config"].keys
                 /\ world'.status[h] = "out" => ~Own(h)' /\ h \notin store'["config"].keys
      <4>1. CASE h = f
        <5>1. ~Own(h)'
          BY <3>1, <3>2, <4>1, <1>2 DEF Own, InFiles
        <5> QED
          BY <1>2, <3>1, <3>2, <4>1, <5>1
      <4>2. CASE h # f
        BY <1>2, <1>5, <3>1, <3>2, <4>2 DEF Agrees
      <4> QED
        BY <4>1, <4>2
    <3> QED
      BY <3>2 DEF Agrees
  <2>3. ASSUME NEW h \in InHs
        PROVE  Users(h, store[h].keys)' \/ \E d \in Commands : hooks'[d].at = "write" /\ File1(d)' = h
    <3>1. CASE h = f
      BY <1>1, <1>3, <3>1
    <3>2. CASE h # f
      <4>1. store'[h] = store[h] /\ Users(h, store[h].keys)
        BY <1>2, <1>l, <3>2 DEF InInv, InStore, InFiles
      <4> QED
        BY <1>2, <4>1 DEF Users
    <3> QED
      BY <3>1, <3>2
  <2> QED
    BY <1>1, <1>3, <2>1, <2>2, <2>3 DEF InStore
<1>10. \A d \in Commands : (Live(d)' => d = c) /\ (hooks'[d].at \in {"truncate", "write"} => d = c)
  BY <1>l, <1>1 DEF Live
<1> QED
  BY <1>4, <1>7, <1>8, <1>9, <1>10 DEF InInv

LEMMA InWrite ==
  ASSUME InInv, NEW c \in Commands, In!Write(c)
  PROVE  InInv'
<1> DEFINE job == Job1(c)
           f == File1(c)
           l == hooks[c]
<1>t. InType /\ InFilesType /\ InWorldType /\ InHooksType /\ "config" \notin InHs
  BY DEF InInv, InType
<1>l. Live(c) /\ Edits(c)
  BY DEF In!Write, InInv, Live
<1>j. /\ job.do # "wipe" => job.h \in InHs
      /\ job.do \in {"entry", "log", "register", "unregister", "remove", "wipe"}
      /\ job.do \in {"entry", "log", "remove"} => f = "config"
      /\ job.do \in {"register", "unregister"} => f = job.h
      /\ job.do = "remove" => Gone(job.h)
      /\ job.do # "wipe"
  BY <1>l, InJob DEF Edits
<1>f. f \in InFiles
  BY <1>j DEF InFiles
<1>1. In!After(c, TRUE) /\ world' = In!Result(job)
  BY DEF In!Write, Job1
<1>2. /\ InFilesType' /\ store'[f].text = "ok" /\ store'[f].keys = l.keys
      /\ \A g \in InFiles : g # f => store'[g] = store[g]
  BY <1>f, <1>t DEF InFilesType, InHooksType, In!File, In!Write, Job1, File1
<1>3. ASSUME NEW h \in InHs, h = job.h, Sound(h)
      PROVE  /\ job.do \in {"unregister", "remove"} => "own" \notin store'[h].keys
             /\ job.do = "register" => "own" \in store'[h].keys
  <2>1. CASE job.do = "remove"
    <3>1. store'[h] = store[h] /\ Gone(h)
      BY <1>2, <1>j, <1>t, <1>3, <2>1 DEF InFiles
    <3> QED
      BY <1>3, <2>1, <3>1 DEF Gone, Own
  <2>2. CASE job.do \in {"register", "unregister"}
    BY <1>2, <1>j, <1>l, <1>3, <2>2 DEF Edits
  <2> QED
    BY <2>1, <2>2
<1>4. /\ f # "config" => Users(f, store'[f].keys)
      /\ f = "config" => Agrees(store'["config"].keys)
      /\ job.do \in {"entry", "log"} /\ "config" \notin world.torn => job.h \in store'["config"].keys
      /\ job.do = "remove" => job.h \notin store'["config"].keys
  BY <1>2, <1>j, <1>l DEF Edits
<1> HIDE DEF job, f
<1> QED
  BY <1>1, <1>2, <1>3, <1>4, <1>l, InEnds DEF job, f

LEMMA InCrash ==
  ASSUME InInv, NEW c \in Commands, In!Crash(c)
  PROVE  InInv'
<1> DEFINE f == File1(c)
<1>t. InType /\ InFilesType /\ InWorldType /\ InHooksType /\ "config" \notin InHs
  BY DEF InInv, InType
<1>l. Live(c) /\ \A d \in Commands : Live(d) => d = c
  BY DEF In!Crash, InInv, Live
<1>f. f \in InFiles
  BY <1>l, InJob DEF InFiles
<1>u. /\ DOMAIN In!Ended = {"at", "plan", "all", "left", "keys"} /\ In!Ended.at = "done"
      /\ In!Ended.all = FALSE /\ In!Ended.left = {} /\ In!Ended.keys = {}
  <2>1. In!Unborn = [at |-> "new", plan |-> <<>>, all |-> FALSE, left |-> {}, keys |-> {}]
    BY DEF In!Unborn
  <2> QED
    BY <2>1 DEF In!Ended
<1>1. /\ hooks'[c].at = "done" /\ (\A d \in Commands : d # c => hooks'[d] = hooks[d])
      /\ InHooksType'
  <2>1. hooks' = [hooks EXCEPT ![c] = In!Ended]
    BY DEF In!Crash
  <2> QED
    BY <1>t, <1>u, <2>1 DEF InHooksType
<1>2. /\ store' = store /\ InWorldType' /\ world'.broken = world.broken /\ world'.status = world.status
      /\ world.torn \subseteq world'.torn /\ (hooks[c].at = "write" => f \in world'.torn)
  <2> DEFINE torn == world.torn \cup (IF hooks[c].at = "write" THEN {f} ELSE {})
  <2>1. /\ store' = store
        /\ world' = [world EXCEPT !.crashes = @ + 1, !.torn = torn]
    BY DEF In!Crash, File1, Job1
  <2>2. /\ torn \in SUBSET InFiles /\ world.torn \subseteq torn
        /\ hooks[c].at = "write" => f \in torn
    BY <1>f, <1>t DEF InWorldType
  <2> HIDE DEF f, torn
  <2>3. world' = [broken |-> world.broken, torn |-> torn, crashes |-> world.crashes + 1,
                  status |-> world.status]
    BY <1>t, <2>1 DEF InWorldType
  <2>4. InWorldType'
    BY <1>t, <2>2, <2>3 DEF InWorldType
  <2> QED
    BY <2>1, <2>2, <2>3, <2>4
<1>3. InType'
  BY <1>1, <1>2, <1>t DEF InType, InFilesType
<1>4. InStore'
  <2>1. Agrees(store["config"].keys)'
    <3>1. CASE hooks[c].at = "write" /\ f = "config"
      BY <1>2, <3>1 DEF Agrees, Sound
    <3>2. CASE ~(hooks[c].at = "write" /\ f = "config")
      <4>1. Agrees(store["config"].keys)
        BY <1>l, <3>2 DEF InInv, InStore, Live
      <4> QED
        BY <1>2, <4>1 DEF Agrees, Sound, Own
    <3> QED
      BY <3>1, <3>2
  <2>2. ASSUME NEW h \in InHs
        PROVE  Users(h, store[h].keys)'
    <3>1. Users(h, store[h].keys) \/ (hooks[c].at = "write" /\ f = h)
      BY <1>l DEF InInv, InStore, Live
    <3> QED
      BY <1>2, <3>1 DEF Users
  <2> QED
    BY <1>2, <2>1, <2>2 DEF InInv, InStore
<1>5. \A d \in Commands : ~Live(d)' /\ hooks'[d].at \notin {"truncate", "write"}
  BY <1>1, <1>l DEF Live
<1> QED
  BY <1>3, <1>4, <1>5 DEF InInv

LEMMA InBreak ==
  ASSUME InInv, NEW f \in DOMAIN store, In!Break(f)
  PROVE  InInv'
<1>t. InType /\ InFilesType /\ InWorldType /\ InHooksType
  BY DEF InInv, InType
<1>1. \A d \in Commands : hooks[d].at \in {"new", "done"}
  BY DEF In!Break, In!AtRest
<1>2. /\ hooks' = hooks /\ InFilesType' /\ InWorldType'
      /\ world'.torn = world.torn /\ world.broken \subseteq world'.broken /\ f \in world'.broken
      /\ world'.status = world.status
      /\ \A g \in InFiles : /\ store'[g].keys = store[g].keys
                            /\ g # f => store'[g].text = store[g].text
                            /\ g = f => store'[g].text = "broken"
      /\ store[f].text = "ok"
  BY <1>t DEF In!Break, InFilesType, InWorldType
<1>3. InType'
  BY <1>2, <1>t DEF InType, InHooksType
<1>4. InStore'
  <2>1. Agrees(store["config"].keys)
    BY <1>1 DEF InInv, InStore
  <2>2. Agrees(store["config"].keys)'
    BY <1>2, <2>1 DEF Agrees, Sound, Own, InFiles
  <2>3. \A h \in InHs : Users(h, store[h].keys)'
    BY <1>1, <1>2 DEF InInv, InStore, Users, InFiles
  <2> QED
    BY <1>2, <2>2, <2>3 DEF InInv, InStore
<1> QED
  BY <1>1, <1>2, <1>3, <1>4 DEF InInv, Live

LEMMA InInit ==
  ASSUME In!InstallAssumption, In!Init
  PROVE  InInv
<1>1. {"config", "logging", "own", "users"} \cap InHs = {} /\ "config" \notin Lenient
  BY DEF In!InstallAssumption, InHs, In!Harnesses
<1>2. InFilesType /\ \A h \in InHs : store[h].keys = {"users"} /\ store[h].text = "ok"
  BY <1>1 DEF In!Init, In!File, InFilesType, InFiles, InKeys, InHs
<1>3. store["config"].keys = {} /\ store["config"].text = "none"
  BY DEF In!Init, In!File
<1>4. InHooksType /\ \A c \in Commands : hooks[c].at = "new"
  BY DEF In!Init, In!Unborn, InHooksType
<1>5. InWorldType /\ \A h \in InHs : world.status[h] = "unknown"
  BY DEF In!Init, InWorldType, InHs
<1>6. Agrees(store["config"].keys)
  BY <1>2, <1>5 DEF Agrees, Own
<1> QED
  BY <1>1, <1>2, <1>3, <1>4, <1>5, <1>6 DEF InInv, InType, InStore, InFiles, Users, Live

LEMMA InNext ==
  ASSUME InInv, [In!Next]_In!vars
  PROVE  InInv'
<1>1. CASE UNCHANGED In!vars
  BY <1>1 DEF In!vars, InInv, InType, InFilesType, InWorldType, InHooksType, InStore, Agrees, Sound, Own,
              Users, Live, Due, Edits, Gone, Job1, File1, In!FileOf
<1>2. CASE In!Next
  BY <1>2, InBegun, InRead, InTruncate, InWrite, InCrash, InBreak DEF In!Next
<1> QED
  BY <1>1, <1>2

(* Setup: hooks that are registered belong to a harness of config.json,    *)
(* also after a command has died or failed, unless it died over            *)
(* config.json or the user has broken the settings; a command that came to *)
(* its end leaves its harness with both or neither; and what the user has  *)
(* in a settings file stays there (write_config, merge_harness_entry,      *)
(* remove_harness_entry, install and uninstall of a harness).              *)
THEOREM InstallLeavesNothing == Spec => []NothingLeftBehind
<1> DEFINE Inv == harness = "setup" => InInv
<1>1. Init => Inv
  BY HarnessesAssumption, InInit DEF Init
<1>2. Inv /\ [Next]_vars => Inv'
  <2> SUFFICES ASSUME Inv, [Next]_vars, harness' = "setup"
               PROVE  InInv'
    OBVIOUS
  <2>1. harness = "setup"
    BY DEF Next, vars
  <2>2. [Next]_vars /\ harness = "setup" => [In!Next]_In!vars
    BY DEF Next, vars, In!vars
  <2> QED
    BY <2>1, <2>2, InNext
<1>3. Inv => NothingLeftBehind
  <2> SUFFICES ASSUME InInv, NEW h \in InHs
               PROVE  /\ "users" \in store[h].keys \/ In!Written(h) \/ h \in world.torn
                         \/ (h \in Lenient /\ h \in world.broken)
                      /\ Sound(h) =>
                           /\ Own(h) => h \in store["config"].keys \/ In!Written("config")
                           /\ In!AtRest /\ world.status[h] = "in" => Own(h) /\ h \in store["config"].keys
                           /\ In!AtRest /\ world.status[h] = "out" => ~Own(h) /\ h \notin store["config"].keys
    BY DEF NothingLeftBehind, In!NothingLeftBehind, Own, Sound, InHs
  <2>1. \A g : In!Written(g) <=> \E c \in Commands : hooks[c].at = "write" /\ File1(c) = g
    BY DEF In!Written, File1, Job1
  <2>2. ~In!Written("config") => Agrees(store["config"].keys)
    BY <2>1 DEF InInv, InStore
  <2>3. In!AtRest => ~In!Written("config")
    BY <2>1 DEF In!AtRest
  <2>4. Users(h, store[h].keys) \/ In!Written(h)
    BY <2>1 DEF InInv, InStore
  <2> QED
    BY <2>2, <2>3, <2>4 DEF Agrees, Sound, Users
<1> QED
  BY <1>1, <1>2, <1>3, PTL DEF Spec
=============================================================================
