----------------------- MODULE HarnessRecords_proofs ------------------------
(***************************************************************************)
(* Proofs about three harnesses whose turns are told by records that grow, *)
(* for all values of their constants: the transcript of Antigravity, the   *)
(* rollout of Codex, and the runs of omp, where any hooks die and an       *)
(* agent_end may overtake the last turn_end.                               *)
(***************************************************************************)
EXTENDS Harnesses, Positions_proofs

-----------------------------------------------------------------------------
(* Antigravity *)

AnHooks == HooksOf["antigravity"]
AnRecords == [type : {"user", "planner", "result"}, calls : Nat, of : Nat \X Nat]

(* A conversation that the version before has begun.                       *)
GoesOn == world.old = {0}

(* What the world and the file hold; a conversation that goes on begins    *)
(* with one turn of two records, and a new watermark below it was set by a *)
(* PreInvocation that came early.                                          *)
AnWorld ==
  /\ world \in [overlap : BOOLEAN, crashes : Nat, records : Seq(AnRecords),
                old : {{}, {0}}, early : BOOLEAN]
  /\ GoesOn =>
       /\ Len(world.records) >= 2 /\ world.records[1].type = "user"
       /\ world.records[2].type # "user"
       /\ Len(world.records) >= 3 => world.records[3].type = "user"

AnStore ==
  /\ GoesOn <=> An!Has(store, An!StepKey)
  /\ GoesOn => store[An!StepKey] = 1 /\ An!Has(store, An!SessionKey)
  /\ An!Has(store, An!TurnKey) =>
       /\ store[An!TurnKey] \in Int /\ store[An!TurnKey] >= -1
       /\ \A n \in 0 .. store[An!TurnKey] : n \in An!SentTurns \cup world.old
       /\ GoesOn /\ store[An!TurnKey] = -1 => world.early

AnSent ==
  /\ IsSeq(sent) /\ \A k \in DOMAIN sent : sent[k].turn \in Nat
  /\ An!SentTurns \cap world.old # {} => world.early

(* The turns that a hook has parsed.                                       *)
AnTurns(l) ==
  \E N \in Nat \ {0} :
    /\ DOMAIN l.turns = 0 .. (N - 1) /\ \A n \in 0 .. (N - 1) : l.turns[n].maxStep \in Nat
    /\ GoesOn => \A n \in 0 .. (N - 1) : IF n = 0 THEN l.turns[n].maxStep = 1 ELSE l.turns[n].maxStep >= 2
    /\ GoesOn /\ l.kind # "stop" /\ N <= 1 => world.early

(* How far a hook has come, l its local variables: the turns up to its     *)
(* mark have been sent, and there is none between its mark and its place.  *)
AnPlaced(l) ==
  /\ DOMAIN l = {"at", "kind", "turns", "i", "mark", "step"}
  /\ l.at \in {"new", "ensure", "session", "initMark", "parse", "mark", "loop", "done"}
  /\ l.at \notin {"new", "done"} => l.kind \in {"preInvocation", "stop"}
  /\ l.at \in {"session", "initMark"} => ~GoesOn
  /\ l.at \in {"initMark", "parse", "mark", "loop"} => An!Has(store, An!SessionKey)
  /\ l.at \notin {"loop", "done"} => l.i = 0 /\ l.mark = -1 /\ l.step = -1
  /\ l.at \in {"mark", "loop"} => AnTurns(l)
  /\ l.at = "loop" =>
       /\ l.i \in Nat /\ l.mark \in Int /\ l.mark >= -1 /\ l.i <= l.mark + 1
       /\ \A n \in 0 .. l.mark : n \in An!SentTurns \cup world.old
       /\ l.step = -1 \/ (l.step = 1 /\ GoesOn)
       /\ GoesOn /\ l.mark = -1 => world.early \/ l.step = 1

(* While hooks come one after the other and none dies, the mark is above   *)
(* all turns that were sent.                                               *)
AnCalm == ~world.overlap /\ world.crashes = 0

AnSteady ==
  AnCalm =>
    /\ \A g, h \in AnHooks : An!Running(g) /\ An!Running(h) => g = h
    /\ ~An!Has(store, An!SessionKey) => sent = <<>>
    /\ \A h \in AnHooks : hooks[h].at \in {"session", "initMark"} => sent = <<>>
    /\ \A h \in AnHooks : hooks[h].at = "loop" =>
         \A k \in DOMAIN sent : sent[k].turn <= hooks[h].mark
    /\ (\A h \in AnHooks : hooks[h].at # "loop") =>
         \A k \in DOMAIN sent : An!Has(store, An!TurnKey) /\ sent[k].turn <= store[An!TurnKey]
    /\ \A k, m \in DOMAIN sent : sent[k].turn = sent[m].turn => k = m

AnInv ==
  /\ AnWorld /\ AnStore /\ AnSent /\ DOMAIN hooks = AnHooks
  /\ (\A h \in AnHooks : AnPlaced(hooks[h])) /\ AnSteady

(* Antigravity's module has its own copies of the operators.               *)
LEMMA AnCardinality == \A S : An!Cardinality(S) = Cardinality(S)
BY DEF An!Cardinality, Cardinality

LEMMA AnPut ==
  ASSUME NEW d, NEW k, NEW v
  PROVE  /\ An!Has(An!Put(d, k, v), k) /\ An!Put(d, k, v)[k] = v
         /\ \A x : x # k => /\ An!Has(An!Put(d, k, v), x) <=> An!Has(d, x)
                            /\ An!Has(d, x) => An!Put(d, k, v)[x] = d[x]
BY DEF An!Has, An!Put

LEMMA AnKeys ==
  An!SessionKey # An!TurnKey /\ An!TurnKey # An!StepKey /\ An!SessionKey # An!StepKey
BY DEF An!SessionKey, An!TurnKey, An!StepKey

(* The transcript has a turn for each record of the user; that of a        *)
(* conversation that goes on begins with a turn of two records, the last   *)
(* of which is the one that the version before took note of.               *)
LEMMA AnParsed ==
  ASSUME AnWorld, An!Starts # {}
  PROVE  LET N == An!Cardinality(An!Starts) IN
         /\ N \in Nat \ {0} /\ DOMAIN An!Parsed = 0 .. (N - 1)
         /\ \A n \in 0 .. (N - 1) : An!Parsed[n].maxStep \in Nat
         /\ GoesOn => \A n \in 0 .. (N - 1) :
              IF n = 0 THEN An!Parsed[n].maxStep = 1 ELSE An!Parsed[n].maxStep >= 2
<1> DEFINE S == An!Starts
           N == Cardinality(S)
           m == Len(world.records)
<1>1. m \in Nat /\ DOMAIN world.records = 1 .. m /\ S \in SUBSET (1 .. m)
  BY DEF AnWorld, An!Starts
<1>2. /\ N \in Nat /\ IsFiniteSet(S)
      /\ \A n \in 1 .. N : Nth(S, n) \in S /\ Rank(S, Nth(S, n)) = n
      /\ \A i \in S : \E n \in 1 .. N : Nth(S, n) = i
  BY <1>1, NthPosition
<1>3. N # 0
  BY <1>2
<1>4. An!Cardinality(S) = N /\ \A i : An!TurnOf(i) = Rank(S, i) - 1
  BY AnCardinality DEF An!TurnOf, Rank
<1>5. DOMAIN An!Parsed = 0 .. (N - 1)
  BY <1>4 DEF An!Parsed
<1>6. ASSUME NEW n \in 0 .. (N - 1)
      PROVE  /\ An!Parsed[n].maxStep \in Nat
             /\ GoesOn => IF n = 0 THEN An!Parsed[n].maxStep = 1 ELSE An!Parsed[n].maxStep >= 2
  <2> DEFINE R == An!RecordsOf(n)
             last == An!LastOf(R)
  <2>1. R \in SUBSET (1 .. m) /\ \A i \in 1 .. m : i \in R <=> Rank(S, i) - 1 = n
    BY <1>1, <1>4 DEF An!RecordsOf
  <2>2. Nth(S, n + 1) \in R
    <3>1. n \in Nat /\ n + 1 \in 1 .. N /\ n + 1 - 1 = n
      BY <1>2
    <3>2. Nth(S, n + 1) \in 1 .. m /\ Rank(S, Nth(S, n + 1)) = n + 1
      BY <1>1, <1>2, <3>1
    <3> HIDE DEF R, S
    <3> QED
      BY <2>1, <3>1, <3>2
  <2>3. last \in R /\ \A j \in R : j <= last
    <3>1. \E i \in R : \A j \in R : j <= i
      BY <1>1, <2>1, <2>2, LastPosition
    <3> HIDE DEF R
    <3> QED
      BY <3>1 DEF An!LastOf
  <2>4. An!Parsed[n].maxStep = last - 1
    BY <1>5 DEF An!Parsed, An!ParsedTurn
  <2>t. An!Parsed[n].maxStep \in Nat
    <3>1. last \in 1 .. m
      BY <2>1, <2>3
    <3> HIDE DEF last
    <3> QED
      BY <1>1, <2>4, <3>1
  <2> SUFFICES ASSUME GoesOn
               PROVE  IF n = 0 THEN An!Parsed[n].maxStep = 1 ELSE An!Parsed[n].maxStep >= 2
    BY <2>t
  <2>5. m >= 2 /\ 1 \in S /\ 2 \notin S /\ (m >= 3 => 3 \in S)
    BY <1>1, <1>6 DEF AnWorld, An!Starts
  <2> HIDE DEF S, R, last
  <2>6. Rank(S, 1) = 1 /\ Rank(S, 2) = 1
    <3>1. \A j \in S : j \in Nat /\ j >= 1
      BY <1>1
    <3>2. \A i \in {1, 2} : \A j : j \in S /\ j <= i <=> j = 1
      BY <2>5, <3>1
    <3>3. \A i \in {1, 2} : {j \in S : j <= i} = {1}
      BY <3>2
    <3> QED
      BY <3>3, FS_Singleton DEF Rank
  <2>7. \A i \in 3 .. m : Rank(S, i) > 1
    <3> TAKE i \in 3 .. m
    <3>1. 3 \in S
      BY <1>1, <2>5
    <3>2. Rank(S, 1) < Rank(S, 3)
      <4>1. 1 \in S /\ 1 < 3
        BY <2>5
      <4> QED
        BY <1>1, <3>1, <4>1, RankGrows
    <3>3. Rank(S, 3) <= Rank(S, i) /\ Rank(S, 3) \in Nat /\ Rank(S, i) \in Nat
      <4>0. \A j \in S : j <= 3 => j <= i
        BY <1>1
      <4>1. {j \in S : j <= 3} \in SUBSET {j \in S : j <= i} /\ {j \in S : j <= i} \in SUBSET S
        BY <4>0
      <4>2. IsFiniteSet({j \in S : j <= i})
        BY <1>2, <4>1, FS_Subset, Zenon
      <4> QED
        BY <4>1, <4>2, FS_Subset, FS_CardinalityType DEF Rank
    <3> QED
      BY <2>6, <3>2, <3>3
  <2>8. CASE n = 0
    <3>1. 2 \in R /\ \A i \in R : i <= 2
      BY <1>1, <2>1, <2>5, <2>6, <2>7, <2>8
    <3>2. last = 2
      BY <1>1, <2>1, <2>3, <3>1
    <3> QED
      BY <2>4, <2>8, <3>2
  <2>9. CASE n # 0
    <3>1. \A i \in R : i >= 3
      BY <1>1, <2>1, <2>6, <2>9
    <3> QED
      BY <1>1, <2>1, <2>3, <2>4, <2>9, <3>1
  <2> QED
    BY <2>8, <2>9
<1> QED
  BY <1>2, <1>3, <1>4, <1>5, <1>6

(* What a hook keeps of its local variables when it goes on.               *)
AnSame(t, l) ==
  t.kind = l.kind /\ t.turns = l.turns /\ t.i = l.i /\ t.mark = l.mark /\ t.step = l.step

(* The next turn of the loop is the one above the mark.                    *)
LEMMA AnNextTurn ==
  ASSUME NEW l, AnPlaced(l), l.at = "loop"
  PROVE  LET n == An!FirstOf(An!TurnsLeft(l)) IN
         /\ An!TurnsLeft(l) # {} => n = l.mark + 1 /\ n \in Nat /\ n \in DOMAIN l.turns
         /\ An!TurnsLeft(l) = {} /\ GoesOn /\ l.mark = -1 => world.early
<1>1. PICK N \in Nat \ {0} :
        /\ DOMAIN l.turns = 0 .. (N - 1) /\ \A n \in 0 .. (N - 1) : l.turns[n].maxStep \in Nat
        /\ GoesOn => \A n \in 0 .. (N - 1) : IF n = 0 THEN l.turns[n].maxStep = 1 ELSE l.turns[n].maxStep >= 2
        /\ GoesOn /\ l.kind # "stop" /\ N <= 1 => world.early
  BY DEF AnPlaced, AnTurns
<1>2. An!Cardinality(DOMAIN l.turns) = N
  <2>1. N \in Nat \ {0} /\ DOMAIN l.turns = 0 .. (N - 1)
    BY <1>1
  <2>2. 0 \in Int /\ N - 1 \in Int /\ ~(0 > N - 1) /\ (N - 1) - 0 + 1 = N
    BY <2>1
  <2>3. Cardinality(0 .. (N - 1)) = N
    BY <2>2, FS_Interval
  <2> QED
    BY <2>1, <2>3, AnCardinality
<1> DEFINE top == IF l.kind = "stop" THEN N - 1 ELSE N - 2
<1>3. An!TurnsLeft(l) = {n \in l.i .. top : n > l.mark}
  BY <1>1, <1>2 DEF An!TurnsLeft
<1>4. l.i \in Nat /\ l.mark \in Int /\ l.mark >= -1 /\ l.i <= l.mark + 1 /\ top \in Int /\ top <= N - 1
  BY <1>1 DEF AnPlaced
<1>5. ASSUME An!TurnsLeft(l) # {}
      PROVE  LET n == An!FirstOf(An!TurnsLeft(l)) IN
             n = l.mark + 1 /\ n \in Nat /\ n \in DOMAIN l.turns
  <2> DEFINE T == {n \in l.i .. top : n > l.mark}
  <2>1. l.mark + 1 \in T /\ \A j \in T : j \in Int /\ l.mark + 1 <= j
    BY <1>3, <1>4, <1>5
  <2>2. l.mark + 1 \in Nat /\ l.mark + 1 \in 0 .. (N - 1)
    BY <1>1, <1>4, <2>1
  <2> HIDE DEF T
  <2>3. \A i \in T : (\A j \in T : i <= j) <=> i = l.mark + 1
    BY <1>4, <2>1
  <2>4. An!FirstOf(T) = l.mark + 1
    BY <2>1, <2>3 DEF An!FirstOf
  <2> QED
    BY <1>1, <1>3, <2>2, <2>4 DEF T
<1>6. ASSUME An!TurnsLeft(l) = {}, GoesOn, l.mark = -1
      PROVE  world.early
  <2>1. l.i = 0 /\ (top >= 0 => 0 \in {n \in l.i .. top : n > l.mark})
    BY <1>4, <1>6
  <2>2. top < 0
    BY <1>3, <1>4, <1>6, <2>1
  <2> QED
    BY <1>1, <1>6, <2>2
<1> QED
  BY <1>5, <1>6

(* What a step of a hook does to its place, the file and the turns sent.   *)
AnMove(h) ==
  LET l == hooks[h]
      t == hooks'[h] IN
  \/ /\ l.at = "new" /\ t.at = "ensure" /\ t.kind \in {"preInvocation", "stop"} /\ t.i = 0 /\ t.mark = -1 /\ t.step = -1
     /\ UNCHANGED <<store, sent>>
     /\ AnCalm' => \A g \in AnHooks : ~An!Running(g)
  \/ /\ l.at = "ensure" /\ t.at = (IF An!Has(store, An!SessionKey) THEN "parse" ELSE "session")
     /\ AnSame(t, l) /\ UNCHANGED <<store, sent>>
  \/ /\ l.at = "session" /\ t.at = "initMark" /\ AnSame(t, l)
     /\ store' = An!Put(store, An!SessionKey, None) /\ sent' = sent
  \/ /\ l.at = "initMark" /\ t.at = "parse" /\ AnSame(t, l)
     /\ store' = An!Put(store, An!TurnKey, -1) /\ sent' = sent
  \/ /\ l.at = "parse" /\ t.at = "mark" /\ t.kind = l.kind /\ t.i = l.i /\ t.mark = l.mark /\ t.step = l.step
     /\ AnTurns(hooks[h])' /\ UNCHANGED <<store, sent>>
  \/ /\ l.at = "mark" /\ t.at = "loop" /\ t.kind = l.kind /\ t.turns = l.turns /\ t.i = l.i
     /\ IF An!Has(store, An!TurnKey) THEN t.mark = store[An!TurnKey] /\ t.step = l.step
        ELSE t.mark = l.mark /\ t.step = (IF An!Has(store, An!StepKey) THEN store[An!StepKey] ELSE -1)
     /\ UNCHANGED <<store, sent>>
  \/ /\ l.at = "loop" /\ t.at = "loop" /\ t.kind = l.kind /\ t.turns = l.turns /\ t.step = l.step
     /\ t.mark = l.mark + 1 /\ t.i = l.mark + 2 /\ l.mark + 1 \in Nat /\ l.mark + 1 \in DOMAIN l.turns
     /\ store' = store
     /\ \/ An!IsOld(l, l.mark + 1) /\ sent' = sent
        \/ /\ ~An!IsOld(l, l.mark + 1)
           /\ \E e : e.turn = l.mark + 1 /\ sent' = Append(sent, e)
  \/ /\ l.at = "loop" /\ t.at = "done" /\ An!TurnsLeft(l) = {}
     /\ store' = An!Put(store, An!TurnKey, l.mark) /\ sent' = sent
  \/ /\ l.at \notin {"new", "done"} /\ t.at = "done" /\ UNCHANGED <<store, sent>>
     /\ l.at = "parse" \/ ~AnCalm'

LEMMA AnMoves ==
  ASSUME AnInv, NEW h \in AnHooks, An!Step(h)
  PROVE  /\ DOMAIN hooks' = AnHooks /\ \A g \in AnHooks : g # h => hooks'[g] = hooks[g]
         /\ DOMAIN hooks'[h] = {"at", "kind", "turns", "i", "mark", "step"}
         /\ AnMove(h)
<1> USE DEF An!Local, An!Keeps, An!Goto, An!Writes, An!Sends
<1> DEFINE l == hooks[h]
           t == hooks'[h]
<1>l. /\ DOMAIN hooks = AnHooks /\ AnPlaced(l)
      /\ DOMAIN l = {"at", "kind", "turns", "i", "mark", "step"}
  BY DEF AnInv, AnPlaced
<1>g. \A k : hooks' = [hooks EXCEPT ![h] = k] =>
        /\ DOMAIN hooks' = AnHooks /\ \A g \in AnHooks : g # h => hooks'[g] = hooks[g]
        /\ hooks'[h] = k
  BY <1>l
<1>u. An!Unborn = [at |-> "new", kind |-> None, turns |-> An!Empty, i |-> 0, mark |-> -1, step |-> -1]
  BY DEF An!Unborn
<1>e. /\ DOMAIN An!Ended = {"at", "kind", "turns", "i", "mark", "step"} /\ An!Ended.at = "done"
  BY <1>u DEF An!Ended
<1>w. world.crashes \in Nat /\ DOMAIN world = {"overlap", "crashes", "records", "old", "early"}
  BY DEF AnInv, AnWorld
<1>1. CASE An!Fire(h)
  <2>1. PICK k \in {"preInvocation", "stop"} :
          hooks' = [hooks EXCEPT ![h] = [[An!Unborn EXCEPT !.kind = k] EXCEPT !.at = "ensure"]]
    BY <1>1 DEF An!Fire
  <2>2. t = [at |-> "ensure", kind |-> k, turns |-> An!Empty, i |-> 0, mark |-> -1, step |-> -1]
    BY <2>1, <1>g, <1>u
  <2>3. UNCHANGED <<store, sent>> /\ l.at = "new" /\ (AnCalm' => \A g \in AnHooks : ~An!Running(g))
    BY <1>1 DEF An!Fire, AnCalm, AnHooks
  <2>4. /\ DOMAIN t = {"at", "kind", "turns", "i", "mark", "step"} /\ t.at = "ensure"
        /\ t.kind \in {"preInvocation", "stop"} /\ t.i = 0 /\ t.mark = -1 /\ t.step = -1
    BY <2>2
  <2>5. AnMove(h)
    BY <2>3, <2>4 DEF AnMove
  <2> QED
    BY <2>1, <2>4, <2>5, <1>g
<1>2. CASE An!Ensure(h)
  BY <1>2, <1>g, <1>l DEF An!Ensure, AnMove, AnSame
<1>3. CASE An!SetSession(h)
  BY <1>3, <1>g, <1>l DEF An!SetSession, AnMove, AnSame
<1>4. CASE An!InitMark(h)
  BY <1>4, <1>g, <1>l DEF An!InitMark, AnMove, AnSame
<1>5. CASE An!Parse(h)
  <2>1. l.at = "parse" /\ UNCHANGED <<store, sent>>
    BY <1>5 DEF An!Parse
  <2>2. CASE An!Starts = {}
    BY <1>5, <2>1, <2>2, <1>g, <1>e DEF An!Parse, AnMove
  <2>3. CASE An!Starts # {}
    <3>1. t = [[l EXCEPT !.turns = An!Parsed] EXCEPT !.at = "mark"]
      BY <1>5, <2>3, <1>g DEF An!Parse
    <3>2. /\ DOMAIN t = DOMAIN l /\ t.at = "mark" /\ t.kind = l.kind /\ t.turns = An!Parsed
          /\ t.i = l.i /\ t.mark = l.mark /\ t.step = l.step
      BY <3>1, <1>l
    <3> DEFINE N == An!Cardinality(An!Starts)
    <3>3. /\ N \in Nat \ {0} /\ DOMAIN An!Parsed = 0 .. (N - 1)
          /\ \A n \in 0 .. (N - 1) : An!Parsed[n].maxStep \in Nat
          /\ GoesOn => \A n \in 0 .. (N - 1) :
               IF n = 0 THEN An!Parsed[n].maxStep = 1 ELSE An!Parsed[n].maxStep >= 2
      BY <2>3, AnParsed DEF AnInv
    <3>4. /\ world'.old = world.old
          /\ world'.early = (world.early \/ (l.kind = "preInvocation"
                               /\ An!Cardinality(An!Starts) <= An!Cardinality(world.old)))
      BY <1>5, <1>w DEF An!Parse
    <3>5. GoesOn => An!Cardinality(world.old) = 1
      BY AnCardinality, FS_Singleton DEF GoesOn
    <3>6. l.kind \in {"preInvocation", "stop"}
      BY <2>1, <1>l DEF AnPlaced
    <3>7. AnTurns(hooks[h])'
      <4>1. /\ DOMAIN t.turns = 0 .. (N - 1) /\ \A n \in 0 .. (N - 1) : t.turns[n].maxStep \in Nat
            /\ GoesOn' => \A n \in 0 .. (N - 1) :
                 IF n = 0 THEN t.turns[n].maxStep = 1 ELSE t.turns[n].maxStep >= 2
        BY <3>2, <3>3, <3>4 DEF GoesOn
      <4>2. GoesOn' /\ t.kind # "stop" /\ N <= 1 => world'.early
        BY <3>2, <3>4, <3>5, <3>6 DEF GoesOn
      <4> HIDE DEF N
      <4> QED
        BY <3>3, <4>1, <4>2 DEF AnTurns
    <3>8. AnMove(h)
      BY <2>1, <3>2, <3>7 DEF AnMove
    <3> QED
      BY <1>5, <3>2, <3>8, <1>g, <1>l DEF An!Parse
  <2> QED
    BY <2>2, <2>3
<1>6. CASE An!ReadMark(h)
  BY <1>6, <1>g, <1>l DEF An!ReadMark, AnMove
<1>7. CASE An!SkipOld(h)
  <2> DEFINE n == An!FirstOf(An!TurnsLeft(l))
  <2>1. /\ l.at = "loop" /\ An!TurnsLeft(l) # {} /\ An!IsOld(l, n) /\ UNCHANGED <<store, sent>>
        /\ hooks' = [hooks EXCEPT ![h] = [[l EXCEPT !.i = n + 1, !.mark = n] EXCEPT !.at = "loop"]]
    BY <1>7 DEF An!SkipOld
  <2>2. n = l.mark + 1 /\ n \in Nat /\ n \in DOMAIN l.turns /\ n + 1 = l.mark + 2
    <3>1. n = l.mark + 1 /\ n \in Nat /\ n \in DOMAIN l.turns
      BY <2>1, <1>l, AnNextTurn
    <3>2. l.mark \in Int
      BY <2>1, <1>l DEF AnPlaced
    <3> HIDE DEF n, l
    <3> QED
      BY <3>1, <3>2
  <2> HIDE DEF n
  <2> QED
    BY <2>1, <2>2, <1>g, <1>l DEF AnMove
<1>8. CASE An!SendTurn(h)
  <2> DEFINE n == An!FirstOf(An!TurnsLeft(l))
             e == [turn |-> n, steps |-> l.turns[n].steps]
  <2>1. /\ l.at = "loop" /\ An!TurnsLeft(l) # {} /\ ~An!IsOld(l, n) /\ store' = store
        /\ sent' = Append(sent, e)
        /\ hooks' = [hooks EXCEPT ![h] = [[l EXCEPT !.i = n + 1, !.mark = n] EXCEPT !.at = "loop"]]
    BY <1>8 DEF An!SendTurn
  <2>2. n = l.mark + 1 /\ n \in Nat /\ n \in DOMAIN l.turns /\ n + 1 = l.mark + 2
    <3>1. n = l.mark + 1 /\ n \in Nat /\ n \in DOMAIN l.turns
      BY <2>1, <1>l, AnNextTurn
    <3>2. l.mark \in Int
      BY <2>1, <1>l DEF AnPlaced
    <3> HIDE DEF n, l
    <3> QED
      BY <3>1, <3>2
  <2>3. e.turn = n
    OBVIOUS
  <2> HIDE DEF n, e
  <2> QED
    BY <2>1, <2>2, <2>3, <1>g, <1>l DEF AnMove
<1>9. CASE An!SetMark(h)
  BY <1>9, <1>g, <1>e DEF An!SetMark, AnMove
<1>10. CASE An!Crash(h)
  <2>1. ~AnCalm'
    BY <1>10, <1>w DEF An!Crash, AnCalm
  <2> QED
    BY <1>10, <2>1, <1>g, <1>e DEF An!Crash, AnMove, An!Running
<1> QED
  BY <1>1, <1>2, <1>3, <1>4, <1>5, <1>6, <1>7, <1>8, <1>9, <1>10 DEF An!Step

(* The transcript only grows: by a record of the user while there is only  *)
(* the turn of the version before, and by a result of a call that a record *)
(* has.                                                                    *)
LEMMA AnGrows ==
  ASSUME AnWorld, NEW r \in An!NextRecords
  PROVE  /\ r \in AnRecords
         /\ GoesOn /\ Len(world.records) = 2 => r.type = "user"
<1> DEFINE m == Len(world.records)
<1>1. /\ m \in Nat /\ DOMAIN world.records = 1 .. m /\ world.records \in Seq(AnRecords)
      /\ \A i \in 1 .. m : world.records[i] \in AnRecords
  BY ElementOfSeq DEF AnWorld
<1>2. r \in AnRecords
  <2>1. CASE r = An!User
    BY <2>1 DEF An!User, AnRecords
  <2>2. ASSUME NEW n \in 0 .. MaxCalls, r = An!Planner(n)
        PROVE  r \in AnRecords
    BY <2>2 DEF An!Planner, AnRecords
  <2>3. CASE r \in An!NextResults
    <3>1. An!Planners # {} /\ An!Planners \in SUBSET (1 .. m)
      BY <2>3, <1>1 DEF An!NextResults, An!Planners
    <3> DEFINE p == An!LastOf(An!Planners)
    <3>2. p \in 1 .. m
      <4>1. \E i \in An!Planners : \A j \in An!Planners : j <= i
        BY <1>1, <3>1, LastPosition
      <4> QED
        BY <3>1, <4>1 DEF An!LastOf
    <3>3. PICK k \in 1 .. world.records[p].calls : r = An!Result(p, k)
      BY <2>3, <3>1 DEF An!NextResults
    <3>4. k \in Nat
      BY <1>1, <3>2, <3>3 DEF AnRecords
    <3> HIDE DEF p
    <3> QED
      BY <3>2, <3>3, <3>4 DEF An!Result, AnRecords
  <2> QED
    BY <2>1, <2>2, <2>3 DEF An!NextRecords
<1>3. ASSUME GoesOn, m = 2
      PROVE  r.type = "user"
  <2>1. world.records[1].type = "user" /\ world.records[2].type # "user"
    BY <1>3 DEF AnWorld
  <2>2. \A i : i \in DOMAIN world.records /\ world.records[i].type = "user" <=> i = 1
    BY <1>1, <1>3, <2>1
  <2>3. An!Starts = {1}
    BY <2>2 DEF An!Starts
  <2>4. An!Cardinality(An!Starts) = An!Cardinality(world.old)
    BY <1>3, <2>3, AnCardinality, FS_Singleton DEF GoesOn
  <2> QED
    BY <2>4 DEF An!NextRecords, An!User
<1> QED
  BY <1>2, <1>3

LEMMA AnWorldStep ==
  ASSUME AnInv, An!Next
  PROVE  /\ AnWorld' /\ world'.old = world.old /\ (world.early => world'.early)
         /\ (AnCalm' => AnCalm)
<1> USE DEF An!Keeps, An!Writes, An!Sends
<1>1. AnWorld /\ DOMAIN world = {"overlap", "crashes", "records", "old", "early"}
      /\ world.crashes \in Nat /\ world.early \in BOOLEAN /\ world.overlap \in BOOLEAN
      /\ world.records \in Seq(AnRecords) /\ world.old \in {{}, {0}}
  BY DEF AnInv, AnWorld
<1>2. ASSUME world'.overlap = world.overlap, world'.crashes \in Nat, world'.crashes >= world.crashes,
             world'.records = world.records, world'.old = world.old, world'.early \in BOOLEAN,
             world.early => world'.early,
             world' = [overlap |-> world'.overlap, crashes |-> world'.crashes,
                       records |-> world'.records, old |-> world'.old, early |-> world'.early]
      PROVE  /\ AnWorld' /\ world'.old = world.old /\ (world.early => world'.early)
             /\ (AnCalm' => AnCalm)
  <2>1. world' \in [overlap : BOOLEAN, crashes : Nat, records : Seq(AnRecords),
                    old : {{}, {0}}, early : BOOLEAN]
    BY <1>1, <1>2
  <2>2. GoesOn' <=> GoesOn
    BY <1>2 DEF GoesOn
  <2> QED
    BY <1>1, <1>2, <2>1, <2>2 DEF AnWorld, AnCalm
<1>3. ASSUME NEW h \in AnHooks, An!Step(h)
      PROVE  /\ AnWorld' /\ world'.old = world.old /\ (world.early => world'.early)
             /\ (AnCalm' => AnCalm)
  <2>1. CASE world' = world
    BY <2>1, <1>1, <1>2 DEF AnWorld
  <2>2. CASE An!Parse(h)
    <3> DEFINE e == An!Local(h).kind = "preInvocation"
                      /\ An!Cardinality(An!Starts) <= An!Cardinality(world.old)
    <3>1. world' = [world EXCEPT !.early = @ \/ e]
      BY <2>2 DEF An!Parse
    <3> HIDE DEF e
    <3>2. /\ world' = [overlap |-> world.overlap, crashes |-> world.crashes,
                       records |-> world.records, old |-> world.old, early |-> world.early \/ e]
      BY <1>1, <3>1
    <3>3. (world.early \/ e) \in BOOLEAN
      BY <1>1
    <3> QED
      BY <1>1, <1>2, <3>2, <3>3
  <2>3. CASE An!Crash(h)
    <3>1. world' = [overlap |-> world.overlap, crashes |-> world.crashes + 1,
                    records |-> world.records, old |-> world.old, early |-> world.early]
      BY <2>3, <1>1 DEF An!Crash
    <3> QED
      BY <1>1, <1>2, <3>1
  <2> QED
    BY <1>3, <2>1, <2>2, <2>3 DEF An!Step, An!Fire, An!Ensure, An!SetSession, An!InitMark,
         An!ReadMark, An!SkipOld, An!SendTurn, An!SetMark
<1>4. ASSUME An!Record
      PROVE  /\ AnWorld' /\ world'.old = world.old /\ (world.early => world'.early)
             /\ (AnCalm' => AnCalm)
  <2>1. PICK r \in An!NextRecords : world' = [world EXCEPT !.records = Append(@, r)]
    BY <1>4 DEF An!Record
  <2> DEFINE q == Append(world.records, r)
  <2>2. r \in AnRecords /\ (GoesOn /\ Len(world.records) = 2 => r.type = "user")
    BY <1>1, AnGrows
  <2>3. /\ q \in Seq(AnRecords) /\ Len(world.records) \in Nat /\ Len(q) = Len(world.records) + 1
        /\ (\A i \in 1 .. Len(world.records) : q[i] = world.records[i])
        /\ q[Len(world.records) + 1] = r
    BY <1>1, <2>2
  <2> HIDE DEF q
  <2>4. world' = [overlap |-> world.overlap, crashes |-> world.crashes,
                  records |-> q, old |-> world.old, early |-> world.early]
    BY <1>1, <2>1 DEF q
  <2>5. world' \in [overlap : BOOLEAN, crashes : Nat, records : Seq(AnRecords),
                    old : {{}, {0}}, early : BOOLEAN]
    BY <1>1, <2>3, <2>4
  <2>6. world'.records = q /\ (GoesOn' <=> GoesOn) /\ (AnCalm' => AnCalm)
    BY <2>4 DEF GoesOn, AnCalm
  <2>7. GoesOn => /\ Len(q) >= 2 /\ q[1].type = "user" /\ q[2].type # "user"
                  /\ Len(q) >= 3 => q[3].type = "user"
    <3>1. GoesOn => /\ Len(world.records) >= 2 /\ world.records[1].type = "user"
                    /\ world.records[2].type # "user"
                    /\ Len(world.records) >= 3 => world.records[3].type = "user"
      BY <1>1 DEF AnWorld
    <3> DEFINE m == Len(world.records)
    <3>2. ASSUME GoesOn
          PROVE  q[1].type = "user" /\ q[2].type # "user" /\ (m = 2 => q[3].type = "user")
                 /\ (m >= 3 => q[3].type = "user") /\ m >= 2
      <4>1. m >= 2 /\ 1 \in 1 .. m /\ 2 \in 1 .. m /\ (m >= 3 => 3 \in 1 .. m)
        BY <2>3, <3>1, <3>2
      <4> QED
        BY <2>2, <2>3, <3>1, <3>2, <4>1
    <3>3. m \in Nat /\ Len(q) = m + 1
      BY <2>3
    <3> HIDE DEF m
    <3>4. /\ m >= 2 => m + 1 >= 2
          /\ m + 1 >= 3 => m = 2 \/ m >= 3
      BY <3>3
    <3> QED
      BY <3>2, <3>3, <3>4
  <2> QED
    BY <2>4, <2>5, <2>6, <2>7 DEF AnWorld
<1> QED
  BY <1>3, <1>4 DEF An!Next, AnHooks

(* One turn more.                                                          *)
LEMMA AnAppend ==
  ASSUME IsSeq(sent), NEW e, sent' = Append(sent, e)
  PROVE  An!SentTurns' = An!SentTurns \cup {e.turn}
<1>1. \A x : x \in An!SentTurns' <=> \E k \in DOMAIN sent' : sent'[k].turn = x
  BY DEF An!SentTurns
<1>2. \A x : x \in An!SentTurns <=> \E k \in DOMAIN sent : sent[k].turn = x
  BY DEF An!SentTurns
<1>3. \A x : x \in An!SentTurns' <=> x \in An!SentTurns \cup {e.turn}
  BY <1>1, <1>2, AppendAny
<1> QED
  BY <1>3

(* What a step of a hook keeps: the keys of the file but for a new one,    *)
(* the turns that were sent, what another hook knows.                      *)
LEMMA AnKept ==
  ASSUME AnInv, NEW h \in AnHooks, An!Step(h)
  PROVE  /\ An!SentTurns \subseteq An!SentTurns'
         /\ \A k : An!Has(store, k) => An!Has(store', k)
         /\ An!Has(store', An!StepKey) <=> An!Has(store, An!StepKey)
         /\ An!Has(store, An!StepKey) => store'[An!StepKey] = store[An!StepKey]
         /\ \A m : AnPlaced(m) => AnPlaced(m)'
<1>1. AnMove(h) /\ IsSeq(sent)
  BY AnMoves DEF AnInv, AnSent
<1>2. An!SentTurns \subseteq An!SentTurns'
  <2>1. \/ sent' = sent
        \/ \E e : sent' = Append(sent, e)
    BY <1>1 DEF AnMove
  <2>2. sent' = sent => An!SentTurns' = An!SentTurns
    BY DEF An!SentTurns
  <2> QED
    BY <1>1, <2>1, <2>2, AnAppend
<1>3. \/ store' = store
      \/ \E k \in {An!SessionKey, An!TurnKey} : \E v : store' = An!Put(store, k, v)
  BY <1>1 DEF AnMove
<1>4. /\ \A k : An!Has(store, k) => An!Has(store', k)
      /\ An!Has(store', An!StepKey) <=> An!Has(store, An!StepKey)
      /\ An!Has(store, An!StepKey) => store'[An!StepKey] = store[An!StepKey]
  <2>1. CASE store' = store
    BY <2>1
  <2>2. ASSUME NEW k \in {An!SessionKey, An!TurnKey}, NEW v, store' = An!Put(store, k, v)
        PROVE  /\ \A x : An!Has(store, x) => An!Has(store', x)
               /\ An!Has(store', An!StepKey) <=> An!Has(store, An!StepKey)
               /\ An!Has(store, An!StepKey) => store'[An!StepKey] = store[An!StepKey]
    <3>1. k # An!StepKey
      BY AnKeys
    <3> QED
      BY <2>2, <3>1, AnPut
  <2> QED
    BY <1>3, <2>1, <2>2
<1>5. world'.old = world.old /\ (world.early => world'.early) /\ (GoesOn' <=> GoesOn)
  BY AnWorldStep DEF An!Next, AnHooks, GoesOn
<1>6. ASSUME NEW m, AnPlaced(m)
      PROVE  AnPlaced(m)'
  <2>1. AnTurns(m) => AnTurns(m)'
    BY <1>5 DEF AnTurns
  <2> QED
    BY <1>2, <1>4, <1>5, <1>6, <2>1 DEF AnPlaced
<1> QED
  BY <1>2, <1>4, <1>6

(* A turn that is old is the one that the version before had sent, and it  *)
(* is old as long as the old watermark counts.                             *)
LEMMA AnOld ==
  ASSUME NEW l, AnPlaced(l), l.at = "loop", l.mark + 1 \in DOMAIN l.turns
  PROVE  /\ An!IsOld(l, l.mark + 1) => l.mark + 1 \in world.old
         /\ GoesOn /\ l.mark = -1 /\ ~An!IsOld(l, l.mark + 1) => world.early
<1>1. PICK N \in Nat \ {0} :
        /\ DOMAIN l.turns = 0 .. (N - 1) /\ \A n \in 0 .. (N - 1) : l.turns[n].maxStep \in Nat
        /\ GoesOn => \A n \in 0 .. (N - 1) : IF n = 0 THEN l.turns[n].maxStep = 1 ELSE l.turns[n].maxStep >= 2
  BY DEF AnPlaced, AnTurns
<1> DEFINE n == l.mark + 1
<1>2. n \in 0 .. (N - 1) /\ l.mark \in Int
  BY <1>1 DEF AnPlaced
<1>3. l.step = -1 \/ (l.step = 1 /\ GoesOn)
  BY DEF AnPlaced
<1>4. ASSUME An!IsOld(l, n)
      PROVE  n \in world.old
  <2>1. 0 < l.turns[n].maxStep /\ l.turns[n].maxStep <= l.step
    BY <1>4 DEF An!IsOld
  <2>2. /\ l.turns[n].maxStep \in Nat
        /\ GoesOn => IF n = 0 THEN l.turns[n].maxStep = 1 ELSE l.turns[n].maxStep >= 2
    BY <1>1, <1>2
  <2> HIDE DEF n
  <2>3. GoesOn
    <3>1. CASE l.step = 1 /\ GoesOn
      BY <3>1
    <3>2. CASE l.step = -1
      BY <2>1, <2>2, <3>2
    <3> QED
      BY <1>3, <3>1, <3>2
  <2>4. n = 0
    BY <1>3, <2>1, <2>2, <2>3
  <2> QED
    BY <2>3, <2>4 DEF GoesOn
<1>5. ASSUME GoesOn, l.mark = -1, ~An!IsOld(l, n)
      PROVE  world.early
  <2>1. n = 0 /\ l.turns[n].maxStep = 1
    BY <1>1, <1>2, <1>5
  <2>2. l.step # 1
    BY <1>5, <2>1 DEF An!IsOld
  <2> QED
    BY <1>5, <2>2 DEF AnPlaced
<1> QED
  BY <1>4, <1>5

LEMMA AnPlacedStep ==
  ASSUME AnInv, NEW h \in AnHooks, An!Step(h)
  PROVE  \A g \in AnHooks : AnPlaced(hooks[g])'
<1> DEFINE l == hooks[h]
           t == hooks'[h]
<1>l. /\ AnPlaced(l) /\ AnStore /\ AnSent /\ AnMove(h)
      /\ DOMAIN t = {"at", "kind", "turns", "i", "mark", "step"}
  BY AnMoves DEF AnInv
<1>k. /\ An!SentTurns \subseteq An!SentTurns'
      /\ \A k : An!Has(store, k) => An!Has(store', k)
      /\ \A m : AnPlaced(m) => AnPlaced(m)'
  BY AnKept
<1>w. world'.old = world.old /\ (world.early => world'.early) /\ (GoesOn' <=> GoesOn)
  BY AnWorldStep DEF An!Next, AnHooks, GoesOn
<1>o. ASSUME NEW g \in AnHooks, g # h
      PROVE  AnPlaced(hooks[g])'
  <2>1. \A m : m = hooks'[g] => (AnPlaced(m)' <=> AnPlaced(hooks[g])')
    OBVIOUS
  <2>2. hooks'[g] = hooks[g] /\ AnPlaced(hooks[g])
    BY <1>o, AnMoves DEF AnInv
  <2> QED
    BY <2>1, <2>2, <1>k
<1>t. AnTurns(l) /\ t.kind = l.kind /\ t.turns = l.turns => AnTurns(hooks[h])'
  BY <1>w DEF AnTurns
<1> SUFFICES AnPlaced(hooks[h])'
  BY <1>o
<1>1. CASE t.at \in {"ensure", "session", "initMark", "parse"}
  <2>1. /\ t.kind \in {"preInvocation", "stop"} /\ t.i = 0 /\ t.mark = -1 /\ t.step = -1
    BY <1>1, <1>l DEF AnMove, AnPlaced, AnSame
  <2>2. t.at \in {"session", "initMark"} => ~GoesOn
    BY <1>1, <1>l DEF AnMove, AnPlaced, AnSame, AnStore
  <2>3. t.at \in {"initMark", "parse"} => An!Has(store', An!SessionKey)
    <3>1. An!Has(An!Put(store, An!SessionKey, None), An!SessionKey)
      BY AnPut
    <3> QED
      BY <1>1, <1>l, <1>k, <3>1 DEF AnMove, AnPlaced, AnSame
  <2> QED
    BY <1>1, <1>l, <1>w, <2>1, <2>2, <2>3 DEF AnPlaced
<1>2. CASE t.at = "mark"
  <2>1. /\ l.at = "parse" /\ t.kind = l.kind /\ t.i = l.i /\ t.mark = l.mark /\ t.step = l.step
        /\ AnTurns(hooks[h])'
    BY <1>2, <1>l DEF AnMove
  <2> QED
    BY <1>2, <1>l, <1>k, <2>1 DEF AnPlaced
<1>3. CASE t.at = "loop" /\ l.at = "mark"
  <2>1. /\ t.kind = l.kind /\ t.turns = l.turns /\ t.i = l.i /\ store' = store /\ sent' = sent
        /\ IF An!Has(store, An!TurnKey) THEN t.mark = store[An!TurnKey] /\ t.step = l.step
           ELSE t.mark = l.mark /\ t.step = (IF An!Has(store, An!StepKey) THEN store[An!StepKey] ELSE -1)
    BY <1>3, <1>l DEF AnMove
  <2>2. l.i = 0 /\ l.mark = -1 /\ l.step = -1 /\ AnTurns(l) /\ l.kind \in {"preInvocation", "stop"}
        /\ An!Has(store, An!SessionKey)
    BY <1>3, <1>l DEF AnPlaced
  <2>3. /\ t.mark \in Int /\ t.mark >= -1
        /\ \A n \in 0 .. t.mark : n \in An!SentTurns \cup world.old
        /\ t.step = -1 \/ (t.step = 1 /\ GoesOn)
        /\ GoesOn /\ t.mark = -1 => world.early \/ t.step = 1
    BY <1>l, <2>1, <2>2 DEF AnStore
  <2>4. t.i \in Nat /\ t.i <= t.mark + 1
    BY <2>1, <2>2, <2>3
  <2> QED
    BY <1>3, <1>l, <1>k, <1>w, <1>t, <2>1, <2>2, <2>3, <2>4 DEF AnPlaced
<1>4. CASE t.at = "loop" /\ l.at = "loop"
  <2>1. /\ t.kind = l.kind /\ t.turns = l.turns /\ t.step = l.step
        /\ t.mark = l.mark + 1 /\ t.i = l.mark + 2 /\ l.mark + 1 \in Nat
        /\ l.mark + 1 \in DOMAIN l.turns /\ store' = store
        /\ \/ An!IsOld(l, l.mark + 1) /\ sent' = sent
           \/ \E e : e.turn = l.mark + 1 /\ sent' = Append(sent, e)
    BY <1>4, <1>l DEF AnMove
  <2>2. l.mark + 1 \in An!SentTurns' \cup world.old
    <3>1. CASE An!IsOld(l, l.mark + 1)
      BY <1>4, <1>l, <2>1, <3>1, AnOld
    <3>2. ASSUME NEW e, e.turn = l.mark + 1, sent' = Append(sent, e)
          PROVE  l.mark + 1 \in An!SentTurns'
      BY <1>l, <3>2, AnAppend DEF AnSent
    <3> QED
      BY <2>1, <3>1, <3>2
  <2>3. l.mark \in Int /\ \A n \in 0 .. l.mark : n \in An!SentTurns' \cup world.old
    BY <1>4, <1>l, <1>k DEF AnPlaced
  <2>4. \A n \in 0 .. t.mark : n \in An!SentTurns' \cup world.old
    <3>1. \A n \in 0 .. t.mark : n \in 0 .. l.mark \/ n = l.mark + 1
      BY <2>1, <2>3
    <3> QED
      BY <2>2, <2>3, <3>1
  <2>5. t.mark \in Nat /\ t.mark >= -1 /\ t.i \in Nat /\ t.i <= t.mark + 1 /\ t.mark # -1
    BY <2>1, <2>3
  <2>6. /\ AnTurns(l) /\ l.kind \in {"preInvocation", "stop"} /\ An!Has(store, An!SessionKey)
        /\ l.step = -1 \/ (l.step = 1 /\ GoesOn)
    BY <1>4, <1>l DEF AnPlaced
  <2> QED
    BY <1>4, <1>l, <1>w, <1>t, <2>1, <2>4, <2>5, <2>6 DEF AnPlaced
<1>5. CASE t.at = "done"
  BY <1>5, <1>l DEF AnPlaced
<1>6. \/ t.at \in {"ensure", "session", "initMark", "parse", "mark", "done"}
      \/ t.at = "loop" /\ l.at \in {"mark", "loop"}
  BY <1>l DEF AnMove
<1> QED
  BY <1>1, <1>2, <1>3, <1>4, <1>5, <1>6

LEMMA AnStoreStep ==
  ASSUME AnInv, NEW h \in AnHooks, An!Step(h)
  PROVE  AnStore'
<1> DEFINE l == hooks[h]
<1>l. AnPlaced(l) /\ AnStore /\ AnMove(h)
  BY AnMoves DEF AnInv
<1>k. /\ An!SentTurns \subseteq An!SentTurns'
      /\ \A k : An!Has(store, k) => An!Has(store', k)
      /\ An!Has(store', An!StepKey) <=> An!Has(store, An!StepKey)
      /\ An!Has(store, An!StepKey) => store'[An!StepKey] = store[An!StepKey]
  BY AnKept
<1>w. world'.old = world.old /\ (world.early => world'.early) /\ (GoesOn' <=> GoesOn)
  BY AnWorldStep DEF An!Next, AnHooks, GoesOn
<1>1. ASSUME An!Has(store', An!TurnKey) =>
               /\ store'[An!TurnKey] \in Int /\ store'[An!TurnKey] >= -1
               /\ \A n \in 0 .. store'[An!TurnKey] : n \in An!SentTurns' \cup world.old
               /\ GoesOn /\ store'[An!TurnKey] = -1 => world.early
      PROVE  AnStore'
  <2>1. GoesOn => /\ An!Has(store', An!StepKey) /\ An!Has(store', An!SessionKey)
                  /\ store'[An!StepKey] = 1
    BY <1>l, <1>k DEF AnStore
  <2>2. An!Has(store', An!StepKey) => GoesOn
    BY <1>l, <1>k DEF AnStore
  <2>3. An!Has(store', An!StepKey) <=> An!Has(store, An!StepKey)'
    BY DEF An!Has
  <2> QED
    BY <1>1, <1>w, <2>1, <2>2 DEF AnStore, An!Has, An!StepKey, An!TurnKey, An!SessionKey
<1>2. CASE store' = store
  BY <1>1, <1>2, <1>k, <1>l DEF AnStore
<1>3. CASE store' = An!Put(store, An!SessionKey, None)
  <2>1. /\ An!Has(store', An!TurnKey) <=> An!Has(store, An!TurnKey)
        /\ An!Has(store, An!TurnKey) => store'[An!TurnKey] = store[An!TurnKey]
    BY <1>3, AnPut, AnKeys
  <2> QED
    BY <1>1, <2>1, <1>k, <1>l DEF AnStore
<1>4. CASE l.at = "initMark" /\ store' = An!Put(store, An!TurnKey, -1)
  <2>1. store'[An!TurnKey] = -1 /\ ~GoesOn
    BY <1>4, <1>l, AnPut DEF AnPlaced
  <2>2. \A n \in 0 .. -1 : FALSE
    OBVIOUS
  <2> QED
    BY <1>1, <2>1, <2>2
<1>5. CASE l.at = "loop" /\ An!TurnsLeft(l) = {} /\ store' = An!Put(store, An!TurnKey, l.mark)
  <2>1. store'[An!TurnKey] = l.mark
    BY <1>5, AnPut
  <2>2. /\ l.mark \in Int /\ l.mark >= -1
        /\ \A n \in 0 .. l.mark : n \in An!SentTurns \cup world.old
    BY <1>5, <1>l DEF AnPlaced
  <2>3. GoesOn /\ l.mark = -1 => world.early
    BY <1>5, <1>l, AnNextTurn
  <2> QED
    BY <1>1, <1>k, <2>1, <2>2, <2>3
<1> QED
  BY <1>2, <1>3, <1>4, <1>5, <1>l DEF AnMove

LEMMA AnSentStep ==
  ASSUME AnInv, NEW h \in AnHooks, An!Step(h)
  PROVE  AnSent'
<1> DEFINE l == hooks[h]
<1>l. AnPlaced(l) /\ AnSent /\ AnMove(h)
  BY AnMoves DEF AnInv
<1>w. world'.old = world.old /\ (world.early => world'.early)
  BY AnWorldStep DEF An!Next, AnHooks
<1>1. CASE sent' = sent
  <2>1. An!SentTurns' = An!SentTurns
    BY <1>1 DEF An!SentTurns
  <2> QED
    BY <1>1, <1>l, <1>w, <2>1 DEF AnSent, IsSeq
<1>2. ASSUME NEW e, e.turn = l.mark + 1, l.mark + 1 \in Nat, l.mark + 1 \in DOMAIN l.turns,
             ~An!IsOld(l, l.mark + 1), l.at = "loop", sent' = Append(sent, e)
      PROVE  AnSent'
  <2>1. An!SentTurns' = An!SentTurns \cup {l.mark + 1}
    BY <1>2, <1>l, AnAppend DEF AnSent
  <2>2. l.mark + 1 \in world.old => world.early
    <3>1. l.mark + 1 \in world.old => GoesOn /\ l.mark + 1 = 0
      BY DEF AnInv, AnWorld, GoesOn
    <3>2. l.mark \in Int
      BY <1>2, <1>l DEF AnPlaced
    <3>3. l.mark + 1 = 0 => l.mark = -1
      BY <3>2
    <3> QED
      BY <1>2, <1>l, <3>1, <3>3, AnOld
  <2>3. An!SentTurns' \cap world'.old # {} => world'.early
    BY <1>l, <1>w, <2>1, <2>2 DEF AnSent
  <2>4. IsSeq(sent')
    BY <1>2, <1>l, AppendAny DEF AnSent
  <2>5. \A k \in DOMAIN sent' : sent'[k].turn \in Nat
    BY <1>2, <1>l, AppendAny DEF AnSent
  <2> QED
    BY <2>3, <2>4, <2>5 DEF AnSent, IsSeq
<1> QED
  BY <1>1, <1>2, <1>l DEF AnMove

LEMMA AnSteadyStep ==
  ASSUME AnInv, NEW h \in AnHooks, An!Step(h), AnCalm'
  PROVE  /\ \A g, f \in AnHooks : An!Running(g)' /\ An!Running(f)' => g = f
         /\ ~An!Has(store', An!SessionKey) => sent' = <<>>
         /\ \A g \in AnHooks : hooks'[g].at \in {"session", "initMark"} => sent' = <<>>
         /\ \A g \in AnHooks : hooks'[g].at = "loop" =>
              \A k \in DOMAIN sent' : sent'[k].turn <= hooks'[g].mark
         /\ (\A g \in AnHooks : hooks'[g].at # "loop") =>
              \A k \in DOMAIN sent' : An!Has(store', An!TurnKey) /\ sent'[k].turn <= store'[An!TurnKey]
         /\ \A k, m \in DOMAIN sent' : sent'[k].turn = sent'[m].turn => k = m
<1> DEFINE l == hooks[h]
           t == hooks'[h]
<1>l. AnPlaced(l) /\ AnSent /\ AnStore /\ AnMove(h)
  BY AnMoves DEF AnInv
<1>o. \A g \in AnHooks : g # h => hooks'[g] = hooks[g]
  BY AnMoves
<1>c. AnCalm
  BY AnWorldStep DEF An!Next, AnHooks
<1>s. /\ \A g, f \in AnHooks : An!Running(g) /\ An!Running(f) => g = f
      /\ ~An!Has(store, An!SessionKey) => sent = <<>>
      /\ \A g \in AnHooks : hooks[g].at \in {"session", "initMark"} => sent = <<>>
      /\ \A g \in AnHooks : hooks[g].at = "loop" =>
           \A k \in DOMAIN sent : sent[k].turn <= hooks[g].mark
      /\ (\A g \in AnHooks : hooks[g].at # "loop") =>
           \A k \in DOMAIN sent : An!Has(store, An!TurnKey) /\ sent[k].turn <= store[An!TurnKey]
      /\ \A k, m \in DOMAIN sent : sent[k].turn = sent[m].turn => k = m
  BY <1>c DEF AnInv, AnSteady
<1>r. \A g \in AnHooks : g # h => hooks'[g].at \in {"new", "done"}
  <2>1. \A g \in AnHooks : g # h => hooks[g].at \in {"new", "done"}
    <3>1. An!Running(h) \/ \A g \in AnHooks : ~An!Running(g)
      BY <1>l DEF AnMove, An!Running
    <3> QED
      BY <1>s, <3>1 DEF An!Running
  <2> QED
    BY <1>o, <2>1
<1>a. \A g, f \in AnHooks : An!Running(g)' /\ An!Running(f)' => g = f
  BY <1>r DEF An!Running
<1>h. ~An!Has(store', An!SessionKey) => ~An!Has(store, An!SessionKey)
  BY AnKept
<1>b. /\ \A g \in AnHooks : hooks'[g].at \in {"session", "initMark"} => g = h
      /\ \A g \in AnHooks : hooks'[g].at = "loop" => g = h
      /\ (\A g \in AnHooks : hooks'[g].at # "loop") <=> t.at # "loop"
      /\ (\A g \in AnHooks : hooks[g].at # "loop") <=> l.at # "loop"
  <2>1. \A g \in AnHooks : g # h => hooks[g].at # "loop" /\ hooks'[g].at # "loop"
    BY <1>o, <1>r
  <2> QED
    BY <1>r, <2>1
<1>1. SUFFICES /\ ~An!Has(store', An!SessionKey) => sent' = <<>>
               /\ t.at \in {"session", "initMark"} => sent' = <<>>
               /\ t.at = "loop" => \A k \in DOMAIN sent' : sent'[k].turn <= t.mark
               /\ t.at # "loop" => \A k \in DOMAIN sent' :
                    An!Has(store', An!TurnKey) /\ sent'[k].turn <= store'[An!TurnKey]
               /\ \A k, m \in DOMAIN sent' : sent'[k].turn = sent'[m].turn => k = m
  BY <1>a, <1>b
<1> HIDE DEF l, t
<1>n. sent = <<>> => DOMAIN sent = {}
  OBVIOUS
<1>2. CASE l.at # "loop" /\ t.at # "loop" /\ sent' = sent
  <2>1. t.at \in {"session", "initMark"} => sent = <<>>
    BY <1>2, <1>l, <1>s DEF AnMove, l, t
  <2>2. CASE store' = store
    BY <1>2, <1>s, <1>b, <2>1, <2>2
  <2>3. CASE sent = <<>>
    BY <1>2, <1>n, <2>3
  <2>4. \/ store' = store
        \/ sent = <<>>
    BY <1>2, <1>l, <1>s DEF AnMove, l, t
  <2> QED
    BY <2>2, <2>3, <2>4
<1>3. CASE l.at = "mark" /\ t.at = "loop"
  <2>1. /\ store' = store /\ sent' = sent
        /\ An!Has(store, An!TurnKey) => t.mark = store[An!TurnKey]
    BY <1>3, <1>l DEF AnMove, l, t
  <2> QED
    BY <1>3, <1>s, <1>b, <2>1
<1>4. CASE l.at = "loop" /\ t.at = "loop"
  <2>1. /\ store' = store /\ t.mark = l.mark + 1
        /\ sent' = sent \/ \E e : e.turn = l.mark + 1 /\ sent' = Append(sent, e)
    BY <1>4, <1>l DEF AnMove, l, t
  <2>2. /\ l.mark \in Int /\ An!Has(store, An!SessionKey)
        /\ \A k \in DOMAIN sent : sent[k].turn \in Nat /\ sent[k].turn <= l.mark
    BY <1>4, <1>l, <1>s DEF AnPlaced, AnSent, l
  <2>3. \A k \in DOMAIN sent : sent[k].turn <= l.mark + 1 /\ sent[k].turn # l.mark + 1
    BY <2>2
  <2>4. CASE sent' = sent
    BY <1>4, <1>s, <2>1, <2>2, <2>3, <2>4
  <2>5. ASSUME NEW e, e.turn = l.mark + 1, sent' = Append(sent, e)
        PROVE  /\ \A k \in DOMAIN sent' : sent'[k].turn <= t.mark
               /\ \A k, m \in DOMAIN sent' : sent'[k].turn = sent'[m].turn => k = m
    <3>1. /\ DOMAIN sent' = DOMAIN sent \cup {Len(sent')} /\ Len(sent') \notin DOMAIN sent
          /\ (\A k \in DOMAIN sent : sent'[k] = sent[k]) /\ sent'[Len(sent')] = e
      BY <1>l, <2>5, AppendAny DEF AnSent
    <3>2. l.mark + 1 <= t.mark
      BY <2>1, <2>2
    <3> QED
      BY <1>s, <2>1, <2>3, <2>5, <3>1, <3>2
  <2> QED
    BY <1>4, <2>1, <2>2, <2>4, <2>5
<1>5. CASE l.at = "loop" /\ t.at = "done"
  <2>1. store' = An!Put(store, An!TurnKey, l.mark) /\ sent' = sent
    BY <1>5, <1>l DEF AnMove, l, t
  <2>2. An!Has(store', An!TurnKey) /\ store'[An!TurnKey] = l.mark
    BY <2>1, AnPut
  <2> QED
    BY <1>5, <1>s, <1>h, <2>1, <2>2 DEF l
<1>6. \/ l.at # "loop" /\ t.at # "loop" /\ sent' = sent
      \/ l.at = "mark" /\ t.at = "loop"
      \/ l.at = "loop" /\ t.at \in {"loop", "done"}
  BY <1>l DEF AnMove, l, t
<1> QED
  BY <1>2, <1>3, <1>4, <1>5, <1>6

LEMMA AnInit ==
  ASSUME An!AntigravityAssumption, An!Init
  PROVE  AnInv
<1>1. PICK o \in Overlaps, old \in BOOLEAN :
        /\ world = [overlap |-> o, crashes |-> 0,
                    records |-> IF old THEN <<An!User, An!Planner(0)>> ELSE <<>>,
                    old |-> IF old THEN {0} ELSE {}, early |-> FALSE]
        /\ store = IF old THEN An!Put(An!Put(An!Empty, An!SessionKey, None), An!StepKey, 1)
                   ELSE An!Empty
  BY DEF An!Init
<1>2. /\ sent = <<>> /\ DOMAIN sent = {}
      /\ \A h \in AnHooks : hooks[h] = [at |-> "new", kind |-> None, turns |-> An!Empty,
                                        i |-> 0, mark |-> -1, step |-> -1]
      /\ DOMAIN hooks = AnHooks
  BY DEF An!Init, An!Unborn, AnHooks
<1>3. o \in BOOLEAN /\ (GoesOn <=> old)
  <2>1. {0} # {}
    OBVIOUS
  <2> QED
    BY <1>1, <2>1 DEF An!AntigravityAssumption, GoesOn
<1>4. AnWorld
  <2>1. An!User \in AnRecords /\ An!Planner(0) \in AnRecords
    BY DEF An!User, An!Planner, AnRecords
  <2>2. <<>> \in Seq(AnRecords) /\ <<An!User, An!Planner(0)>> \in Seq(AnRecords)
    BY <2>1
  <2>3. world \in [overlap : BOOLEAN, crashes : Nat, records : Seq(AnRecords),
                   old : {{}, {0}}, early : BOOLEAN]
    BY <1>1, <1>3, <2>2
  <2>4. old => world.records = <<An!User, An!Planner(0)>>
    BY <1>1
  <2>5. An!User.type = "user" /\ An!Planner(0).type # "user"
    BY DEF An!User, An!Planner
  <2>6. old => /\ Len(world.records) = 2 /\ world.records[1].type = "user"
               /\ world.records[2].type # "user"
    BY <2>4, <2>5
  <2> QED
    BY <1>3, <2>3, <2>6 DEF AnWorld
<1>5. AnStore
  <2>1. \A k : ~An!Has(An!Empty, k)
    BY DEF An!Has, An!Empty
  <2>2. CASE old
    <3> DEFINE d == An!Put(An!Empty, An!SessionKey, None)
    <3>1. An!Has(d, An!SessionKey) /\ ~An!Has(d, An!TurnKey) /\ ~An!Has(d, An!StepKey)
      BY <2>1, AnPut, AnKeys
    <3> HIDE DEF d
    <3>2. store = An!Put(d, An!StepKey, 1)
      BY <1>1, <2>2 DEF d
    <3>3. /\ An!Has(store, An!SessionKey) /\ ~An!Has(store, An!TurnKey)
          /\ An!Has(store, An!StepKey) /\ store[An!StepKey] = 1
      BY <3>1, <3>2, AnPut, AnKeys
    <3> QED
      BY <1>3, <2>2, <3>3 DEF AnStore
  <2>3. CASE ~old
    BY <1>1, <1>3, <2>1, <2>3 DEF AnStore
  <2> QED
    BY <2>2, <2>3
<1>6. AnSent
  <2>1. IsSeq(sent)
    BY <1>2 DEF IsSeq
  <2>2. An!SentTurns = {}
    BY <1>2 DEF An!SentTurns
  <2> QED
    BY <1>2, <2>1, <2>2 DEF AnSent
<1>7. \A h \in AnHooks : AnPlaced(hooks[h])
  BY <1>2 DEF AnPlaced
<1>8. AnSteady
  BY <1>2 DEF AnSteady, An!Running
<1> QED
  BY <1>2, <1>4, <1>5, <1>6, <1>7, <1>8 DEF AnInv

LEMMA AnStep ==
  ASSUME AnInv, [An!Next]_An!vars
  PROVE  AnInv'
<1>1. ASSUME NEW h \in AnHooks, An!Step(h)
      PROVE  AnInv'
  <2>1. AnWorld' /\ AnStore' /\ AnSent' /\ DOMAIN hooks' = AnHooks
        /\ \A g \in AnHooks : AnPlaced(hooks[g])'
    BY <1>1, AnWorldStep, AnStoreStep, AnSentStep, AnPlacedStep, AnMoves DEF An!Next, AnHooks
  <2>2. AnSteady'
    BY <1>1, AnSteadyStep DEF AnSteady, An!Running, An!Has, An!SessionKey, An!TurnKey
  <2> QED
    BY <2>1, <2>2 DEF AnInv, AnHooks
<1>2. ASSUME UNCHANGED <<store, hooks, sent>>, AnWorld', world'.old = world.old,
             world.early => world'.early, AnCalm' => AnCalm
      PROVE  AnInv'
  <2>1. An!SentTurns' = An!SentTurns /\ (GoesOn' <=> GoesOn)
    BY <1>2 DEF An!SentTurns, GoesOn
  <2>2. AnStore'
    BY <1>2, <2>1 DEF AnInv, AnStore, An!Has, An!StepKey, An!TurnKey, An!SessionKey
  <2>3. AnSent'
    BY <1>2, <2>1 DEF AnInv, AnSent, IsSeq
  <2>4. \A h \in AnHooks : AnPlaced(hooks[h])'
    <3>1. \A l : AnTurns(l) => AnTurns(l)'
      BY <1>2, <2>1 DEF AnTurns
    <3>2. \A l : AnPlaced(l) => AnPlaced(l)'
      BY <1>2, <2>1, <3>1 DEF AnPlaced, An!Has, An!SessionKey
    <3> QED
      <4> TAKE h \in AnHooks
      <4>1. \A l : l = hooks'[h] => (AnPlaced(l)' <=> AnPlaced(hooks[h])')
        OBVIOUS
      <4>2. hooks'[h] = hooks[h] /\ AnPlaced(hooks[h])
        BY <1>2 DEF AnInv
      <4> QED
        BY <3>2, <4>1, <4>2
  <2>5. AnSteady'
    BY <1>2 DEF AnInv, AnSteady, An!Running, An!Has, An!SessionKey, An!TurnKey
  <2> QED
    BY <1>2, <2>2, <2>3, <2>4, <2>5 DEF AnInv
<1>3. CASE An!Record
  <2>1. UNCHANGED <<store, hooks, sent>>
    BY <1>3 DEF An!Record
  <2>2. AnWorld' /\ world'.old = world.old /\ (world.early => world'.early) /\ (AnCalm' => AnCalm)
    BY <1>3, AnWorldStep DEF An!Next
  <2> QED
    BY <1>2, <2>1, <2>2
<1>4. CASE UNCHANGED An!vars
  <2>1. UNCHANGED <<store, hooks, sent, world>>
    BY <1>4 DEF An!vars
  <2>2. AnWorld' /\ (AnCalm' => AnCalm)
    BY <2>1 DEF AnInv, AnWorld, GoesOn, AnCalm
  <2> QED
    BY <1>2, <2>1, <2>2
<1> QED
  BY <1>1, <1>3, <1>4 DEF An!Next, AnHooks

(* As many turns as were sent, where none was sent twice.                  *)
LEMMA AnCounts ==
  ASSUME IsSeq(sent), \A k, m \in DOMAIN sent : sent[k].turn = sent[m].turn => k = m
  PROVE  An!Cardinality(An!SentTurns) = Len(sent)
<1> DEFINE f == [k \in 1 .. Len(sent) |-> sent[k].turn]
<1>1. Len(sent) \in Nat /\ DOMAIN sent = 1 .. Len(sent)
  BY AppendAny
<1>2. f \in Bijection(1 .. Len(sent), An!SentTurns)
  <2>1. An!SentTurns = {sent[k].turn : k \in 1 .. Len(sent)}
    BY <1>1 DEF An!SentTurns
  <2>2. f \in [1 .. Len(sent) -> An!SentTurns]
    BY <2>1
  <2>3. \A a, b \in DOMAIN f : f[a] = f[b] => a = b
    BY <1>1
  <2>4. \A x \in An!SentTurns : \E k \in 1 .. Len(sent) : f[k] = x
    BY <2>1
  <2> HIDE DEF f
  <2> QED
    BY <2>2, <2>3, <2>4 DEF Bijection, Injection, Surjection, IsInjective
<1>3. Cardinality(An!SentTurns) = Len(sent)
  BY <1>1, <1>2, FS_CountingElements DEF ExistsBijection
<1> QED
  BY <1>3, AnCardinality

(* Antigravity: whatever overlaps and dies, the watermark is above no turn *)
(* that was not sent, by this version or the one before; and while hooks   *)
(* come one after the other and none dies, no turn is sent twice, and none *)
(* of the version before unless a PreInvocation came early                 *)
(* (_emit_completed_turns).                                                *)
THEOREM AntigravityHolds == Spec => []WatermarkHolds
<1> DEFINE Inv == harness = "antigravity" => AnInv
<1>1. Init => Inv
  <2>1. An!AntigravityAssumption
    BY HarnessesAssumption
  <2> QED
    BY <2>1, AnInit DEF Init
<1>2. Inv /\ [Next]_vars => Inv'
  <2> SUFFICES ASSUME Inv, [Next]_vars, harness' = "antigravity"
               PROVE  AnInv'
    OBVIOUS
  <2>1. harness = "antigravity"
    BY DEF Next, vars
  <2>2. [Next]_vars /\ harness = "antigravity" => [An!Next]_An!vars
    BY DEF Next, vars, An!vars
  <2> QED
    BY <2>1, <2>2, AnStep
<1>3. Inv => WatermarkHolds
  <2> SUFFICES ASSUME AnInv
               PROVE  An!WatermarkHolds
    BY DEF WatermarkHolds
  <2>1. An!Has(store, An!TurnKey) => 0 .. store[An!TurnKey] \subseteq An!SentTurns \cup world.old
    BY DEF AnInv, AnStore
  <2>2. AnCalm => An!Cardinality(An!SentTurns) = Len(sent)
    BY AnCounts DEF AnInv, AnSent, AnSteady
  <2>3. An!SentTurns \cap world.old # {} => world.early
    BY DEF AnInv, AnSent
  <2> QED
    BY <2>1, <2>2, <2>3 DEF An!WatermarkHolds, AnCalm
<1> QED
  BY <1>1, <1>2, <1>3, PTL DEF Spec

-----------------------------------------------------------------------------
(* Antigravity: the calls of a turn *)

AnCalls == Nat \X Nat
AnSteps == [call : AnCalls, result : AnCalls \cup {None}]
AnMade == [pending : Seq(AnCalls), steps : Seq(AnSteps)]

AnIs(i, type) == world.records[i].type = type

(* A result is of a call of the last answer before it, and of a later call *)
(* than the results between the two.                                       *)
AnLog ==
  /\ world.records \in Seq(AnRecords)
  /\ \A i \in DOMAIN world.records : AnIs(i, "result") =>
       \E p \in 1 .. i - 1 :
         /\ AnIs(p, "planner") /\ \A j \in p + 1 .. i - 1 : ~AnIs(j, "planner")
         /\ world.records[i].of[1] = p /\ world.records[i].of[2] >= 1
         /\ \A j \in p + 1 .. i - 1 : AnIs(j, "result") => world.records[j].of[2] < world.records[i].of[2]

(* The steps that the records from first to e make: each is of a call of   *)
(* an answer among them, and each call is in one at most.                  *)
AnFits(x, first, e) ==
  /\ x.call[1] \in first .. e /\ AnIs(x.call[1], "planner") /\ x.call[2] \in 1 .. world.records[x.call[1]].calls
  /\ x.result # None => x.result[1] = x.call[1] /\ x.call[2] <= x.result[2]

AnOnce(q) == \A a, b \in DOMAIN q : q[a].call = q[b].call => a = b

AnHas(q, c) == \E a \in DOMAIN q : q[a].call = c

(* The calls that wait are the last ones of the last answer; as many as    *)
(* came before them have had a result.                                     *)
AnWaits(t, first, e) ==
  \E p \in first .. e : \E s, c \in Nat :
    /\ AnIs(p, "planner") /\ (\A j \in p + 1 .. e : ~AnIs(j, "planner"))
    /\ s + c = world.records[p].calls /\ Len(t.pending) = c /\ DOMAIN t.pending = 1 .. c
    /\ \A j \in 1 .. c : t.pending[j] = <<p, s + j>>
    /\ s > 0 => \E j \in p + 1 .. e : AnIs(j, "result") /\ world.records[j].of[2] >= s
    /\ \A a \in DOMAIN t.steps : t.steps[a].call[1] = p => t.steps[a].call[2] <= s

AnMaking(t, first, e) ==
  /\ t \in AnMade
  /\ \A a \in DOMAIN t.steps : AnFits(t.steps[a], first, e)
  /\ AnOnce(t.steps)
  /\ \A p \in first .. e : AnIs(p, "planner") => \A k \in 1 .. world.records[p].calls :
       AnHas(t.steps, <<p, k>>) \/ \E j \in DOMAIN t.pending : t.pending[j] = <<p, k>>
  /\ t.pending = <<>> \/ AnWaits(t, first, e)

(* All calls of the answers are in the steps.                              *)
AnWhole(q, first, e) ==
  /\ q \in Seq(AnSteps) /\ AnOnce(q)
  /\ \A a \in DOMAIN q : AnFits(q[a], first, e)
  /\ \A p \in first .. e : AnIs(p, "planner") => \A k \in 1 .. world.records[p].calls : AnHas(q, <<p, k>>)

LEMMA AnGivenUp ==
  ASSUME NEW q \in Seq(AnCalls)
  PROVE  /\ An!GivenUp(q) \in Seq(AnSteps) /\ DOMAIN An!GivenUp(q) = DOMAIN q
         /\ \A j \in DOMAIN q : An!GivenUp(q)[j].call = q[j] /\ An!GivenUp(q)[j].result = None
<1> DEFINE g == An!GivenUp(q)
<1>1. Len(q) \in Nat /\ DOMAIN q = 1 .. Len(q) /\ \A j \in DOMAIN q : q[j] \in AnCalls
  OBVIOUS
<1>2. DOMAIN g = DOMAIN q /\ g = [j \in 1 .. Len(q) |-> [call |-> q[j], result |-> None]]
  BY <1>1 DEF An!GivenUp
<1>3. \A j \in DOMAIN q : g[j].call = q[j] /\ g[j].result = None /\ g[j] \in AnSteps
  BY <1>1, <1>2 DEF AnSteps
<1> HIDE DEF g
<1>4. g \in [1 .. Len(q) -> AnSteps]
  BY <1>1, <1>2, <1>3
<1>5. g \in Seq(AnSteps)
  BY <1>1, <1>4
<1> QED
  BY <1>2, <1>3, <1>5 DEF g

(* Those that wait in the end are given up.                                *)
LEMMA AnFlushed ==
  ASSUME NEW t, NEW first \in Nat, NEW e \in Int, AnMaking(t, first, e)
  PROVE  AnWhole(t.steps \o An!GivenUp(t.pending), first, e)
<1> DEFINE g == An!GivenUp(t.pending)
           b == t.steps
           q == b \o g
<1>1. /\ t.steps \in Seq(AnSteps) /\ t.pending \in Seq(AnCalls)
      /\ \A a \in DOMAIN t.steps : AnFits(t.steps[a], first, e)
      /\ AnOnce(t.steps)
      /\ \A p \in first .. e : AnIs(p, "planner") => \A k \in 1 .. world.records[p].calls :
           AnHas(t.steps, <<p, k>>) \/ \E j \in DOMAIN t.pending : t.pending[j] = <<p, k>>
      /\ t.pending = <<>> \/ AnWaits(t, first, e)
  BY DEF AnMaking, AnMade
<1>2. /\ g \in Seq(AnSteps) /\ DOMAIN g = DOMAIN t.pending
      /\ \A j \in DOMAIN t.pending : g[j].call = t.pending[j] /\ g[j].result = None
  BY <1>1, AnGivenUp
<1>3. IsSeq(b) /\ b \in Seq(AnSteps)
  BY <1>1, SeqAny
<1>4. IsSeq(g)
  BY <1>2, SeqAny
<1> HIDE DEF g, b
<1>5. /\ IsSeq(b \o g) /\ Elems(b \o g) = Elems(b) \cup Elems(g)
      /\ Len(b) \in Nat /\ Len(g) \in Nat /\ DOMAIN b = 1 .. Len(b) /\ DOMAIN g = 1 .. Len(g)
      /\ Len(b \o g) = Len(b) + Len(g) /\ DOMAIN (b \o g) = 1 .. Len(b) + Len(g)
      /\ \A i \in DOMAIN b : (b \o g)[i] = b[i]
      /\ \A i \in DOMAIN g : (b \o g)[Len(b) + i] = g[i]
      /\ \A i \in 1 .. Len(b) + Len(g) : i \in DOMAIN b \/ (i > Len(b) /\ i - Len(b) \in DOMAIN g)
  BY <1>3, <1>4, ConcatAny, ZenonT(60)
<1>6. q \in Seq(AnSteps)
  BY <1>2, <1>3
<1> HIDE DEF q
<1>7. ASSUME NEW i \in DOMAIN q
      PROVE  \/ i \in DOMAIN b /\ q[i] = b[i]
             \/ \E j \in DOMAIN g : i = Len(b) + j /\ q[i] = g[j]
  <2>1. CASE i \in DOMAIN b
    BY <1>5, <2>1 DEF q
  <2>2. CASE i > Len(b) /\ i - Len(b) \in DOMAIN g
    <3>1. i = Len(b) + (i - Len(b))
      BY <1>5 DEF q
    <3> QED
      BY <1>5, <2>2, <3>1 DEF q
  <2> QED
    BY <1>5, <2>1, <2>2 DEF q
<1>8. /\ \A i \in DOMAIN b : i \in DOMAIN q /\ q[i] = b[i]
      /\ \A j \in DOMAIN g : Len(b) + j \in DOMAIN q /\ q[Len(b) + j] = g[j]
  BY <1>5 DEF q
<1>9. DOMAIN g # {} => AnWaits(t, first, e)
  BY <1>1, <1>2
<1>10. ASSUME NEW j \in DOMAIN g
       PROVE  /\ AnFits(g[j], first, e) /\ \A a \in DOMAIN b : b[a].call # g[j].call
              /\ \A k \in DOMAIN g : g[j].call = g[k].call => j = k
  <2>0. AnWaits(t, first, e)
    BY <1>9, <1>10
  <2>1. PICK p \in first .. e : \E s, c \in Nat :
          /\ AnIs(p, "planner") /\ (\A i \in p + 1 .. e : ~AnIs(i, "planner"))
          /\ s + c = world.records[p].calls /\ Len(t.pending) = c /\ DOMAIN t.pending = 1 .. c
          /\ \A i \in 1 .. c : t.pending[i] = <<p, s + i>>
          /\ s > 0 => \E i \in p + 1 .. e : AnIs(i, "result") /\ world.records[i].of[2] >= s
          /\ \A a \in DOMAIN t.steps : t.steps[a].call[1] = p => t.steps[a].call[2] <= s
    BY <2>0, Zenon DEF AnWaits
  <2>2. PICK s \in Nat, c \in Nat :
          /\ AnIs(p, "planner")
          /\ s + c = world.records[p].calls /\ DOMAIN t.pending = 1 .. c
          /\ \A i \in 1 .. c : t.pending[i] = <<p, s + i>>
          /\ \A a \in DOMAIN t.steps : t.steps[a].call[1] = p => t.steps[a].call[2] <= s
    BY <2>1
  <2>3. \A i \in DOMAIN g : g[i].call = <<p, s + i>> /\ g[i].result = None /\ i \in 1 .. c
    BY <1>2, <2>2
  <2>4. AnFits(g[j], first, e)
    <3>1. g[j].call[1] = p /\ g[j].call[2] = s + j /\ s + j \in 1 .. world.records[p].calls
      BY <2>2, <2>3
    <3> QED
      BY <2>2, <2>3, <3>1 DEF AnFits
  <2>5. ASSUME NEW a \in DOMAIN b
        PROVE  b[a].call # g[j].call
    <3>1. b[a] \in AnSteps
      BY <1>3
    <3>2. b[a].call[1] = p => b[a].call[2] <= s
      BY <2>2 DEF b
    <3>3. j \in Nat \ {0} /\ ~(s + j <= s)
      BY <2>3
    <3> QED
      BY <2>3, <3>1, <3>2, <3>3 DEF AnSteps, AnCalls
  <2>6. \A k \in DOMAIN g : g[j].call = g[k].call => j = k
    BY <2>3
  <2> QED
    BY <2>4, <2>5, <2>6
<1>11. AnOnce(q)
  <2> SUFFICES ASSUME NEW i \in DOMAIN q, NEW k \in DOMAIN q, q[i].call = q[k].call
               PROVE  i = k
    BY DEF AnOnce
  <2>1. CASE i \in DOMAIN b /\ k \in DOMAIN b
    BY <1>1, <1>8, <2>1 DEF AnOnce, b
  <2>2. CASE i \notin DOMAIN b \/ k \notin DOMAIN b
    BY <1>7, <1>10, <2>2
  <2> QED
    BY <2>1, <2>2
<1>12. \A i \in DOMAIN q : AnFits(q[i], first, e)
  BY <1>1, <1>7, <1>10 DEF b
<1>13. ASSUME NEW p \in first .. e, AnIs(p, "planner"), NEW k \in 1 .. world.records[p].calls
       PROVE  AnHas(q, <<p, k>>)
  <2>1. CASE AnHas(t.steps, <<p, k>>)
    BY <1>8, <2>1 DEF AnHas, b
  <2>2. CASE \E j \in DOMAIN t.pending : t.pending[j] = <<p, k>>
    BY <1>2, <1>8, <2>2 DEF AnHas
  <2> QED
    BY <1>1, <1>13, <2>1, <2>2
<1> QED
  BY <1>6, <1>11, <1>12, <1>13 DEF AnWhole, q, b, g

LEMMA AnRecordAt ==
  ASSUME AnLog, NEW i \in DOMAIN world.records
  PROVE  /\ world.records[i].calls \in Nat /\ world.records[i].of \in AnCalls
         /\ world.records[i].of[1] \in Nat /\ world.records[i].of[2] \in Nat
<1>1. \A S : \A q \in Seq(S) : \A k \in DOMAIN q : q[k] \in S
  OBVIOUS
<1>2. world.records[i] \in AnRecords
  BY <1>1 DEF AnLog
<1> QED
  BY <1>2 DEF AnRecords, AnCalls

(* One record more.                                                        *)
LEMMA AnPlanned ==
  ASSUME NEW t, NEW first \in Nat \ {0}, NEW e \in Nat, AnMaking(t, first, e), AnLog, first <= e + 1,
         e + 1 \in DOMAIN world.records, AnIs(e + 1, "planner")
  PROVE  AnMaking(An!AddRecord(t, e + 1), first, e + 1)
<1> DEFINE i == e + 1
           r == world.records[i]
           u == An!AddRecord(t, i)
           w == [k \in 1 .. r.calls |-> <<i, k>>]
           q == t.steps \o An!GivenUp(t.pending)
<1>1. u = [pending |-> w, steps |-> q]
  BY DEF An!AddRecord, AnIs
<1>2. AnWhole(q, first, e)
  BY AnFlushed
<1> HIDE DEF q, w
<1>3. u.pending = w /\ u.steps = q /\ AnWhole(u.steps, first, e)
  BY <1>1, <1>2
<1>4. r.calls \in Nat
  BY AnRecordAt
<1>5. w \in Seq(AnCalls) /\ Len(w) = r.calls /\ DOMAIN w = 1 .. r.calls /\ \A k \in 1 .. r.calls : w[k] = <<i, k>>
  <2>1. \A k \in 1 .. r.calls : <<i, k>> \in AnCalls
    BY <1>4 DEF AnCalls
  <2> DEFINE n == r.calls
  <2>2. w = [k \in 1 .. n |-> <<i, k>>] /\ n \in Nat
    BY <1>4 DEF w
  <2> HIDE DEF n
  <2>3. w \in [1 .. n -> AnCalls]
    BY <2>1, <2>2 DEF n
  <2>4. w \in Seq(AnCalls) /\ Len(w) = n /\ DOMAIN w = 1 .. n
    BY <2>2, <2>3
  <2> QED
    BY <2>2, <2>4 DEF n
<1>6. u \in AnMade
  BY <1>1, <1>3, <1>5 DEF AnMade, AnWhole
<1> HIDE DEF u
<1>7. /\ first .. e \subseteq first .. i /\ i \in first .. i
      /\ \A a \in DOMAIN u.steps : AnFits(u.steps[a], first, e)
  BY <1>3 DEF AnWhole
<1>8. \A a \in DOMAIN u.steps : AnFits(u.steps[a], first, i)
  BY <1>7 DEF AnFits
<1>9. \A p \in first .. i : p \in first .. e \/ p = i
  OBVIOUS
<1>10. \A p \in first .. i : AnIs(p, "planner") => \A k \in 1 .. world.records[p].calls :
         AnHas(u.steps, <<p, k>>) \/ \E j \in DOMAIN u.pending : u.pending[j] = <<p, k>>
  BY <1>3, <1>5, <1>9 DEF AnWhole
<1>11. AnWaits(u, first, i)
  <2>1. \A j \in i + 1 .. i : ~AnIs(j, "planner")
    OBVIOUS
  <2>2. \A a \in DOMAIN u.steps : u.steps[a].call[1] \in first .. e /\ u.steps[a].call[1] # i
    BY <1>7 DEF AnFits
  <2>3. \A k \in 1 .. r.calls : u.pending[k] = <<i, 0 + k>>
    BY <1>3, <1>5
  <2>4. 0 + r.calls = world.records[i].calls /\ 0 \in Nat
    BY <1>4
  <2>5. Len(u.pending) = r.calls /\ DOMAIN u.pending = 1 .. r.calls
    BY <1>3, <1>5
  <2> HIDE DEF r, i
  <2>6. \E s, c \in Nat :
          /\ s + c = world.records[i].calls /\ Len(u.pending) = c /\ DOMAIN u.pending = 1 .. c
          /\ \A j \in 1 .. c : u.pending[j] = <<i, s + j>>
          /\ ~(s > 0)
          /\ \A a \in DOMAIN u.steps : u.steps[a].call[1] = i => u.steps[a].call[2] <= s
    <3> WITNESS 0 \in Nat, r.calls \in Nat
    <3> QED
      BY <2>2, <2>3, <2>4, <2>5
  <2>7. AnIs(i, "planner")
    BY DEF i
  <2> QED
    BY <1>7, <2>1, <2>6, <2>7 DEF AnWaits
<1>12. AnOnce(u.steps)
  BY <1>3 DEF AnWhole
<1> QED
  BY <1>6, <1>8, <1>10, <1>11, <1>12 DEF AnMaking, u

LEMMA AnResulted ==
  ASSUME NEW t, NEW first \in Nat \ {0}, NEW e \in Nat, AnMaking(t, first, e), AnLog, first <= e + 1,
         e + 1 \in DOMAIN world.records, AnIs(e + 1, "result"), t.pending # <<>>
  PROVE  AnMaking(An!AddRecord(t, e + 1), first, e + 1)
<1> DEFINE i == e + 1
           r == world.records[i]
           u == An!AddRecord(t, i)
           x == [call |-> Head(t.pending), result |-> r.of]
<1>1. u = [pending |-> Tail(t.pending), steps |-> Append(t.steps, x)]
  BY DEF An!AddRecord, AnIs
<1>2. /\ t.steps \in Seq(AnSteps) /\ t.pending \in Seq(AnCalls)
      /\ \A a \in DOMAIN t.steps : AnFits(t.steps[a], first, e)
      /\ AnOnce(t.steps)
      /\ \A p \in first .. e : AnIs(p, "planner") => \A k \in 1 .. world.records[p].calls :
           AnHas(t.steps, <<p, k>>) \/ \E j \in DOMAIN t.pending : t.pending[j] = <<p, k>>
      /\ AnWaits(t, first, e)
  BY DEF AnMaking, AnMade
<1>3. PICK p \in first .. e : \E s, c \in Nat :
        /\ AnIs(p, "planner") /\ (\A j \in p + 1 .. e : ~AnIs(j, "planner"))
        /\ s + c = world.records[p].calls /\ Len(t.pending) = c /\ DOMAIN t.pending = 1 .. c
        /\ \A j \in 1 .. c : t.pending[j] = <<p, s + j>>
        /\ s > 0 => \E j \in p + 1 .. e : AnIs(j, "result") /\ world.records[j].of[2] >= s
        /\ \A a \in DOMAIN t.steps : t.steps[a].call[1] = p => t.steps[a].call[2] <= s
  BY <1>2 DEF AnWaits
<1>4. PICK s \in Nat, c \in Nat :
        /\ AnIs(p, "planner") /\ (\A j \in p + 1 .. e : ~AnIs(j, "planner"))
        /\ s + c = world.records[p].calls /\ Len(t.pending) = c /\ DOMAIN t.pending = 1 .. c
        /\ \A j \in 1 .. c : t.pending[j] = <<p, s + j>>
        /\ s > 0 => \E j \in p + 1 .. e : AnIs(j, "result") /\ world.records[j].of[2] >= s
        /\ \A a \in DOMAIN t.steps : t.steps[a].call[1] = p => t.steps[a].call[2] <= s
  BY <1>3
<1>5. /\ IsSeq(Tail(t.pending)) /\ Len(t.pending) \in Nat \ {0} /\ DOMAIN t.pending = 1 .. Len(t.pending)
      /\ Head(t.pending) = t.pending[1] /\ 1 \in DOMAIN t.pending
      /\ Len(Tail(t.pending)) = Len(t.pending) - 1 /\ DOMAIN Tail(t.pending) = 1 .. Len(t.pending) - 1
      /\ \A j \in DOMAIN Tail(t.pending) : Tail(t.pending)[j] = t.pending[j + 1] /\ j + 1 \in DOMAIN t.pending
  <2>1. IsSeq(t.pending)
    BY <1>2, SeqAny
  <2> QED
    BY <2>1, TailAny
<1>6. c \in Nat \ {0} /\ Head(t.pending) = <<p, s + 1>> /\ c - 1 \in Nat
  BY <1>4, <1>5
<1>7. r.of \in AnCalls /\ r.of[2] \in Nat
  BY AnRecordAt
<1>8. x \in AnSteps
  <2>1. Head(t.pending) \in AnCalls
    BY <1>2, <1>5
  <2> QED
    BY <1>7, <2>1 DEF AnSteps
(* The result is of the same answer, and not of an earlier call.           *)
<1>9. r.of[1] = p /\ r.of[2] \in Nat /\ r.of[2] >= s + 1
      /\ s + 1 \in 1 .. world.records[p].calls
  <2>1. r.of[2] \in Nat
    BY <1>7
  <2>2. PICK q \in 1 .. i - 1 :
          /\ AnIs(q, "planner") /\ \A j \in q + 1 .. i - 1 : ~AnIs(j, "planner")
          /\ world.records[i].of[1] = q /\ world.records[i].of[2] >= 1
          /\ \A j \in q + 1 .. i - 1 : AnIs(j, "result") => world.records[j].of[2] < world.records[i].of[2]
    BY DEF AnLog
  <2>3. i - 1 = e /\ p \in Nat /\ q \in Nat /\ p \in 1 .. e /\ q \in 1 .. e
    BY <2>2
  <2>4. q = p
    <3>1. ~(p < q)
      <4>1. p < q => q \in p + 1 .. e
        BY <2>3
      <4> QED
        BY <1>4, <2>2, <4>1
    <3>2. ~(q < p)
      <4>1. q < p => p \in q + 1 .. i - 1
        BY <2>3
      <4> QED
        BY <1>4, <2>2, <4>1
    <3> QED
      BY <2>3, <3>1, <3>2
  <2>5. r.of[2] >= s + 1
    <3>1. CASE s = 0
      BY <2>1, <2>2, <3>1
    <3>2. CASE s > 0
      <4>1. PICK j \in p + 1 .. e : AnIs(j, "result") /\ world.records[j].of[2] >= s
        BY <1>4, <3>2
      <4>2. world.records[j].of[2] < r.of[2]
        BY <2>2, <2>3, <2>4, <4>1
      <4>3. world.records[j].of[2] \in Nat
        <5>1. DOMAIN world.records = 1 .. Len(world.records) /\ Len(world.records) \in Nat
          BY DEF AnLog
        <5>2. j \in DOMAIN world.records
          BY <2>3, <4>1, <5>1
        <5> QED
          BY <5>2, AnRecordAt
      <4>4. \A a, b \in Nat : b >= s /\ b < a => a >= s + 1
        BY <1>4
      <4> QED
        BY <2>1, <4>1, <4>2, <4>3, <4>4
    <3> QED
      BY <3>1, <3>2
  <2> QED
    BY <1>4, <1>6, <2>1, <2>2, <2>4, <2>5
<1>10. u.pending = Tail(t.pending) /\ u.steps = Append(t.steps, x)
  <2> DEFINE y == Tail(t.pending)
             v == Append(t.steps, x)
  <2>1. u = [pending |-> y, steps |-> v]
    BY <1>1
  <2> HIDE DEF y, v, u
  <2>2. u.pending = y /\ u.steps = v
    BY <2>1
  <2> QED
    BY <2>2 DEF y, v
<1> HIDE DEF u, x
<1>11. /\ Len(t.steps) \in Nat /\ DOMAIN t.steps = 1 .. Len(t.steps) /\ Len(u.steps) = Len(t.steps) + 1
       /\ DOMAIN u.steps = DOMAIN t.steps \cup {Len(u.steps)} /\ Len(u.steps) \notin DOMAIN t.steps
       /\ (\A k \in DOMAIN t.steps : u.steps[k] = t.steps[k]) /\ u.steps[Len(u.steps)] = x
  <2>1. IsSeq(t.steps)
    BY <1>2, SeqAny
  <2> QED
    BY <1>10, <2>1, AppendAny
<1>12. u \in AnMade
  <2> DEFINE y == Tail(t.pending)
             v == Append(t.steps, x)
  <2>1. y \in Seq(AnCalls)
    BY <1>2
  <2>2. v \in Seq(AnSteps)
    BY <1>2, <1>8 DEF x
  <2>3. u = [pending |-> y, steps |-> v]
    BY <1>1 DEF u, x
  <2> HIDE DEF y, v
  <2> QED
    BY <2>1, <2>2, <2>3 DEF AnMade
<1>13. x.call = <<p, s + 1>> /\ x.result = r.of /\ x.call[1] = p /\ x.call[2] = s + 1
  BY <1>6 DEF x
<1>14. first .. e \subseteq first .. i
  OBVIOUS
<1>15. \A a \in DOMAIN u.steps : AnFits(u.steps[a], first, i)
  <2>1. AnFits(x, first, i)
    BY <1>4, <1>9, <1>13, <1>14 DEF AnFits
  <2>2. \A a \in DOMAIN t.steps : AnFits(t.steps[a], first, i)
    BY <1>2, <1>14 DEF AnFits
  <2> QED
    BY <1>11, <2>1, <2>2
<1>16. \A a \in DOMAIN t.steps : t.steps[a].call # x.call
  <2> TAKE a \in DOMAIN t.steps
  <2>1. t.steps[a].call[1] = p => t.steps[a].call[2] <= s
    BY <1>4
  <2>2. ~(s + 1 <= s)
    BY <1>4
  <2> HIDE DEF x
  <2> QED
    BY <1>13, <2>1, <2>2
<1>17. AnOnce(u.steps)
  BY <1>2, <1>11, <1>16 DEF AnOnce
<1>18. ASSUME NEW q \in first .. i, AnIs(q, "planner"), NEW k \in 1 .. world.records[q].calls
       PROVE  AnHas(u.steps, <<q, k>>) \/ \E j \in DOMAIN u.pending : u.pending[j] = <<q, k>>
  <2>1. q \in first .. e
    <3>1. ~AnIs(i, "planner")
      BY DEF AnIs
    <3> QED
      BY <1>18, <3>1
  <2>2. CASE AnHas(t.steps, <<q, k>>)
    BY <1>11, <2>2 DEF AnHas
  <2>3. ASSUME NEW j \in DOMAIN t.pending, t.pending[j] = <<q, k>>
        PROVE  AnHas(u.steps, <<q, k>>) \/ \E n \in DOMAIN u.pending : u.pending[n] = <<q, k>>
    <3>1. CASE j = 1
      BY <1>4, <1>5, <1>6, <1>11, <1>13, <2>3, <3>1 DEF AnHas
    <3>2. CASE j # 1
      <4>1. j - 1 \in DOMAIN Tail(t.pending) /\ (j - 1) + 1 = j
        BY <1>5, <3>2
      <4>2. u.pending[j - 1] = <<q, k>>
        BY <1>5, <1>10, <2>3, <4>1
      <4> QED
        BY <1>10, <4>1, <4>2
    <3> QED
      BY <3>1, <3>2
  <2> QED
    BY <1>2, <1>18, <2>1, <2>2, <2>3
<1>19. AnWaits(u, first, i)
  <2> DEFINE d == c - 1
             z == s + 1
  <2>1. z \in Nat /\ d \in Nat /\ z + d = world.records[p].calls /\ p \in first .. i /\ p \in Nat
    BY <1>4, <1>6, <1>14
  <2>2. Len(u.pending) = d /\ DOMAIN u.pending = 1 .. d
    BY <1>4, <1>5, <1>10
  <2>3. ASSUME NEW j \in 1 .. d
        PROVE  u.pending[j] = <<p, z + j>>
    <3>1. j + 1 \in 1 .. c /\ j \in DOMAIN Tail(t.pending) /\ s + (j + 1) = z + j
      <4>1. c \in Nat \ {0} /\ s \in Nat /\ DOMAIN Tail(t.pending) = 1 .. d
        BY <1>4, <1>5, <1>6
      <4>2. j \in 1 .. c - 1 /\ j + 1 \in 1 .. c /\ s + (j + 1) = s + 1 + j
        BY <4>1
      <4> QED
        BY <4>1, <4>2
    <3>2. u.pending[j] = t.pending[j + 1] /\ t.pending[j + 1] = <<p, s + (j + 1)>>
      BY <1>4, <1>5, <1>10, <3>1
    <3> QED
      BY <3>1, <3>2
  <2>4. \A j \in p + 1 .. i : ~AnIs(j, "planner")
    <3>1. ~AnIs(i, "planner")
      BY DEF AnIs
    <3>2. \A j \in p + 1 .. i : j \in p + 1 .. e \/ j = i
      BY <2>1
    <3> QED
      BY <1>4, <3>1, <3>2
  <2>5. i \in p + 1 .. i /\ AnIs(i, "result") /\ world.records[i].of[2] >= z
    BY <1>9, <2>1
  <2>6. \A a \in DOMAIN u.steps : u.steps[a].call[1] = p => u.steps[a].call[2] <= z
    <3>1. \A a \in DOMAIN t.steps : t.steps[a].call[1] = p => t.steps[a].call[2] <= z
      <4> TAKE a \in DOMAIN t.steps
      <4>1. AnFits(t.steps[a], first, e)
        BY <1>2
      <4>2. t.steps[a].call[1] = p => t.steps[a].call[2] <= s /\ t.steps[a].call[2] \in 1 .. world.records[p].calls
        BY <1>4, <4>1 DEF AnFits
      <4>3. world.records[p].calls \in Nat
        BY <1>4
      <4> QED
        BY <4>2, <4>3
    <3>2. x.call[2] <= z
      BY <1>13, <2>1
    <3> QED
      BY <1>11, <3>1, <3>2
  <2> HIDE DEF d, z, i
  <2>7. \E a, b \in Nat :
          /\ AnIs(p, "planner") /\ (\A j \in p + 1 .. i : ~AnIs(j, "planner"))
          /\ a + b = world.records[p].calls /\ Len(u.pending) = b /\ DOMAIN u.pending = 1 .. b
          /\ \A j \in 1 .. b : u.pending[j] = <<p, a + j>>
          /\ a > 0 => \E j \in p + 1 .. i : AnIs(j, "result") /\ world.records[j].of[2] >= a
          /\ \A k \in DOMAIN u.steps : u.steps[k].call[1] = p => u.steps[k].call[2] <= a
    <3> z \in Nat /\ d \in Nat
      BY <2>1
    <3> WITNESS z \in Nat, d \in Nat
    <3> QED
      BY <1>4, <2>1, <2>2, <2>3, <2>4, <2>5, <2>6
  <2> QED
    BY <2>1, <2>7 DEF AnWaits
<1> QED
  BY <1>12, <1>15, <1>17, <1>18, <1>19 DEF AnMaking, u

LEMMA AnOther ==
  ASSUME NEW t, NEW first \in Nat \ {0}, NEW e \in Nat, AnMaking(t, first, e), first <= e + 1,
         ~AnIs(e + 1, "planner"), AnIs(e + 1, "result") => t.pending = <<>>
  PROVE  AnMaking(An!AddRecord(t, e + 1), first, e + 1)
<1> DEFINE i == e + 1
<1>1. An!AddRecord(t, i) = t
  BY DEF An!AddRecord, AnIs
<1>2. first .. e \subseteq first .. i /\ \A p \in first .. i : p \in first .. e \/ p = i
  OBVIOUS
<1>3. \A a \in DOMAIN t.steps : AnFits(t.steps[a], first, i)
  BY <1>2 DEF AnMaking, AnFits
<1>4. \A p \in first .. i : AnIs(p, "planner") => \A k \in 1 .. world.records[p].calls :
        AnHas(t.steps, <<p, k>>) \/ \E j \in DOMAIN t.pending : t.pending[j] = <<p, k>>
  BY <1>2 DEF AnMaking
<1>5. ASSUME t.pending # <<>>
      PROVE  AnWaits(t, first, i)
  <2>1. PICK p \in first .. e : \E s, c \in Nat :
          /\ AnIs(p, "planner") /\ (\A j \in p + 1 .. e : ~AnIs(j, "planner"))
          /\ s + c = world.records[p].calls /\ Len(t.pending) = c /\ DOMAIN t.pending = 1 .. c
          /\ \A j \in 1 .. c : t.pending[j] = <<p, s + j>>
          /\ s > 0 => \E j \in p + 1 .. e : AnIs(j, "result") /\ world.records[j].of[2] >= s
          /\ \A a \in DOMAIN t.steps : t.steps[a].call[1] = p => t.steps[a].call[2] <= s
    BY <1>5 DEF AnMaking, AnWaits
  <2>2. PICK s, c \in Nat :
          /\ AnIs(p, "planner") /\ (\A j \in p + 1 .. e : ~AnIs(j, "planner"))
          /\ s + c = world.records[p].calls /\ Len(t.pending) = c /\ DOMAIN t.pending = 1 .. c
          /\ \A j \in 1 .. c : t.pending[j] = <<p, s + j>>
          /\ s > 0 => \E j \in p + 1 .. e : AnIs(j, "result") /\ world.records[j].of[2] >= s
          /\ \A a \in DOMAIN t.steps : t.steps[a].call[1] = p => t.steps[a].call[2] <= s
    BY <2>1
  <2>3. \A j \in p + 1 .. i : j \in p + 1 .. e \/ j = i
    OBVIOUS
  <2>4. p + 1 .. e \subseteq p + 1 .. i /\ p \in first .. i
    OBVIOUS
  <2> HIDE DEF i
  <2>5. ~AnIs(i, "planner")
    BY DEF i
  <2>6. \E m, n \in Nat :
          /\ AnIs(p, "planner") /\ (\A j \in p + 1 .. i : ~AnIs(j, "planner"))
          /\ m + n = world.records[p].calls /\ Len(t.pending) = n /\ DOMAIN t.pending = 1 .. n
          /\ \A j \in 1 .. n : t.pending[j] = <<p, m + j>>
          /\ m > 0 => \E j \in p + 1 .. i : AnIs(j, "result") /\ world.records[j].of[2] >= m
          /\ \A a \in DOMAIN t.steps : t.steps[a].call[1] = p => t.steps[a].call[2] <= m
    <3> WITNESS s \in Nat, c \in Nat
    <3>1. \A j \in p + 1 .. i : ~AnIs(j, "planner")
      BY <2>2, <2>3, <2>5
    <3>2. s > 0 => \E j \in p + 1 .. i : AnIs(j, "result") /\ world.records[j].of[2] >= s
      BY <2>2, <2>4
    <3> QED
      BY <2>2, <3>1, <3>2
  <2> QED
    BY <2>4, <2>6 DEF AnWaits
<1> QED
  BY <1>1, <1>3, <1>4, <1>5 DEF AnMaking

LEMMA AnAdded ==
  ASSUME NEW t, NEW first \in Nat \ {0}, NEW e \in Nat, AnMaking(t, first, e), AnLog, first <= e + 1,
         e + 1 \in DOMAIN world.records
  PROVE  AnMaking(An!AddRecord(t, e + 1), first, e + 1)
<1>1. CASE AnIs(e + 1, "planner")
  BY <1>1, AnPlanned
<1>2. CASE AnIs(e + 1, "result") /\ t.pending # <<>>
  BY <1>2, AnResulted
<1>3. CASE ~AnIs(e + 1, "planner") /\ (AnIs(e + 1, "result") => t.pending = <<>>)
  BY <1>3, AnOther
<1> QED
  BY <1>1, <1>2, <1>3

(* What the code makes of the records of a turn is that list.              *)
LEMMA AnAddIn ==
  ASSUME AnLog, NEW t \in AnMade, NEW i \in DOMAIN world.records
  PROVE  An!AddRecord(t, i) \in AnMade
<1> DEFINE r == world.records[i]
           u == An!AddRecord(t, i)
<1>1. t.steps \in Seq(AnSteps) /\ t.pending \in Seq(AnCalls) /\ r.calls \in Nat /\ r.of \in AnCalls /\ i \in Nat
  <2>1. DOMAIN world.records = 1 .. Len(world.records) /\ Len(world.records) \in Nat
    BY DEF AnLog
  <2> QED
    BY <2>1, AnRecordAt DEF AnMade
<1>2. CASE r.type = "planner"
  <2> DEFINE g == An!GivenUp(t.pending)
             v == t.steps \o g
             n == r.calls
             w == [k \in 1 .. n |-> <<i, k>>]
  <2>1. g \in Seq(AnSteps)
    BY <1>1, AnGivenUp
  <2> HIDE DEF g
  <2>2. v \in Seq(AnSteps)
    BY <1>1, <2>1
  <2>3. \A k \in 1 .. n : <<i, k>> \in AnCalls
    BY <1>1 DEF AnCalls
  <2>6. n \in Nat
    BY <1>1
  <2> HIDE DEF n
  <2>4. w \in Seq(AnCalls)
    BY <2>3, <2>6
  <2>5. u = [pending |-> w, steps |-> v]
    BY <1>2 DEF An!AddRecord, g, n
  <2> HIDE DEF v, w
  <2> QED
    BY <2>2, <2>4, <2>5 DEF AnMade
<1>3. CASE r.type = "result" /\ t.pending # <<>>
  <2> DEFINE x == [call |-> Head(t.pending), result |-> r.of]
             v == Append(t.steps, x)
             y == Tail(t.pending)
  <2>1. x \in AnSteps /\ y \in Seq(AnCalls)
    BY <1>1, <1>3 DEF AnSteps
  <2>2. u = [pending |-> y, steps |-> v]
    BY <1>3 DEF An!AddRecord
  <2> HIDE DEF x, y
  <2>3. v \in Seq(AnSteps)
    BY <1>1, <2>1
  <2> HIDE DEF v
  <2> QED
    BY <2>1, <2>2, <2>3 DEF AnMade
<1>4. CASE r.type # "planner" /\ ~(r.type = "result" /\ t.pending # <<>>)
  BY <1>4 DEF An!AddRecord
<1> QED
  BY <1>2, <1>3, <1>4

LEMMA AnBuilt ==
  ASSUME AnLog, NEW first \in DOMAIN world.records, NEW last \in DOMAIN world.records, first <= last
  PROVE  AnWhole(An!ToolSteps(first, last), first, last)
<1> DEFINE m == last - first + 1
           W == An!Built(first, last)
           b == [pending |-> <<>>, steps |-> <<>>]
           g == [p \in AnMade \X (1 .. m) |-> An!AddRecord(p[1], first + p[2] - 1)]
<1>1. /\ first \in Nat \ {0} /\ last \in Nat /\ m \in Nat /\ first + m - 1 = last
      /\ \A n \in 1 .. m : first + n - 1 \in DOMAIN world.records
  <2>1. DOMAIN world.records = 1 .. Len(world.records) /\ Len(world.records) \in Nat
    BY DEF AnLog
  <2> QED
    BY <2>1
<1>2. b \in AnMade
  BY DEF AnMade
<1>3. \A t \in AnMade : \A n \in 1 .. m : An!AddRecord(t, first + n - 1) \in AnMade
  BY <1>1, AnAddIn
<1> HIDE DEF m, b
<1>4. /\ g \in [AnMade \X (1 .. m) -> AnMade]
      /\ \A t \in AnMade : \A n \in 1 .. m : g[<<t, n>>] = An!AddRecord(t, first + n - 1)
  BY <1>3
<1> HIDE DEF g
<1>5. PICK f \in [0 .. m -> AnMade] : Follows(f, b, g, m)
  BY <1>1, <1>2, <1>4, Recursion
<1>6. f = [n \in 0 .. m |-> IF n = 0 THEN b ELSE An!AddRecord(f[n - 1], first + n - 1)]
  <2>1. ASSUME NEW n \in 0 .. m
        PROVE  f[n] = IF n = 0 THEN b ELSE An!AddRecord(f[n - 1], first + n - 1)
    <3>1. n # 0 => n \in 1 .. m /\ n - 1 \in 0 .. m
      BY <1>1
    <3> QED
      BY <1>4, <1>5, <3>1 DEF Follows
  <2>2. f = [n \in 0 .. m |-> f[n]]
    OBVIOUS
  <2> QED
    BY <2>1, <2>2
<1>7. W = [n \in 0 .. m |-> IF n = 0 THEN b ELSE An!AddRecord(W[n - 1], first + n - 1)]
  BY <1>6 DEF An!Built, m, b
<1> HIDE DEF W
<1> DEFINE T == {n \in 0 .. m : AnMaking(W[n], first, first + n - 1)}
<1>8. 0 \in T
  <2>0. 0 \in 0 .. m
    BY <1>1
  <2>1. W[0] = b /\ 0 \in 0 .. m
    BY <1>7, <2>0
  <2>2. b.pending = <<>> /\ b.steps = <<>> /\ DOMAIN <<>> = {}
    BY DEF b
  <2>3. first .. first + 0 - 1 = {}
    BY <1>1
  <2>4. AnMaking(b, first, first + 0 - 1)
    BY <1>2, <2>2, <2>3 DEF AnMaking, AnOnce
  <2> QED
    BY <2>1, <2>4
<1>9. ASSUME NEW n \in 1 .. m, n - 1 \in T
      PROVE  n \in T
  <2> DEFINE e == first + n - 2
  <2>1. e \in Nat /\ e + 1 = first + n - 1 /\ first + (n - 1) - 1 = e /\ first <= e + 1 /\ n \in 0 .. m /\ n # 0
    BY <1>1
  <2> HIDE DEF e
  <2>2. AnMaking(W[n - 1], first, e)
    BY <1>9, <2>1
  <2>3. W[n] = An!AddRecord(W[n - 1], e + 1) /\ e + 1 \in DOMAIN world.records
    BY <1>1, <1>7, <2>1
  <2>4. AnMaking(An!AddRecord(W[n - 1], e + 1), first, e + 1)
    BY <1>1, <2>1, <2>2, <2>3, AnAdded
  <2> QED
    BY <2>1, <2>3, <2>4
<1>10. T = 0 .. m
  <2>1. T \in SUBSET (0 .. m)
    OBVIOUS
  <2> HIDE DEF T
  <2> QED
    BY <1>1, <1>8, <1>9, <2>1, UpTo
<1>11. AnMaking(W[m], first, last)
  <2>1. m \in 0 .. m
    BY <1>1
  <2>2. m \in T
    <3> HIDE DEF T
    <3> QED
      BY <1>10, <2>1
  <2> QED
    BY <1>1, <2>2
<1>12. An!ToolSteps(first, last) = W[m].steps \o An!GivenUp(W[m].pending)
  BY DEF An!ToolSteps, W, m
<1> QED
  BY <1>1, <1>11, <1>12, AnFlushed

(* All turns that a hook has parsed, and those that were sent, have their  *)
(* calls paired.                                                           *)
AnPaired(q) == \E first, e \in DOMAIN world.records : AnWhole(q, first, e)

AnKeeps(l) == l.at \in {"mark", "loop"} => \A n \in DOMAIN l.turns : AnPaired(l.turns[n].steps)

AnPairs ==
  /\ AnLog
  /\ \A h \in AnHooks : AnKeeps(hooks[h])
  /\ \A k \in DOMAIN sent : AnPaired(sent[k].steps)

LEMMA AnTurnPaired ==
  ASSUME AnWorld, AnLog, An!Starts # {}, NEW n \in DOMAIN An!Parsed
  PROVE  AnPaired(An!Parsed[n].steps)
<1> DEFINE S == An!Starts
           N == Cardinality(S)
           m == Len(world.records)
           R == An!RecordsOf(n)
           last == An!LastOf(R)
           first == An!FirstOf(R)
<1>1. m \in Nat /\ DOMAIN world.records = 1 .. m /\ S \in SUBSET (1 .. m)
  BY DEF AnWorld, An!Starts
<1>2. /\ N \in Nat
      /\ \A k \in 1 .. N : Nth(S, k) \in S /\ Rank(S, Nth(S, k)) = k
  BY <1>1, NthPosition
<1>3. An!Cardinality(S) = N /\ \A i : An!TurnOf(i) = Rank(S, i) - 1
  BY AnCardinality DEF An!TurnOf, Rank
<1>4. n \in 0 .. (N - 1)
  BY <1>3 DEF An!Parsed
<1>5. R \in SUBSET (1 .. m) /\ \A i \in 1 .. m : i \in R <=> Rank(S, i) - 1 = n
  BY <1>1, <1>3 DEF An!RecordsOf
<1>6. Nth(S, n + 1) \in R
  <2>1. n \in Nat /\ n + 1 \in 1 .. N /\ n + 1 - 1 = n
    BY <1>2, <1>4
  <2>2. Nth(S, n + 1) \in 1 .. m /\ Rank(S, Nth(S, n + 1)) = n + 1
    BY <1>1, <1>2, <2>1
  <2> HIDE DEF R, S
  <2> QED
    BY <1>5, <2>1, <2>2
<1>7. An!Parsed[n].steps = An!ToolSteps(first, last)
  BY <1>3, <1>4 DEF An!Parsed, An!ParsedTurn
<1>8. last \in R /\ \A j \in R : j <= last
  <2>1. \E i \in R : \A j \in R : j <= i
    BY <1>1, <1>5, <1>6, LastPosition
  <2> HIDE DEF R
  <2> QED
    BY <2>1 DEF An!LastOf
<1>9. first \in R /\ \A j \in R : first <= j
  <2>1. \E i \in R : \A j \in R : i <= j
    BY <1>5, <1>6, LeastNumber
  <2> HIDE DEF R
  <2> QED
    BY <2>1 DEF An!FirstOf
<1>10. first \in DOMAIN world.records /\ last \in DOMAIN world.records /\ first <= last
  <2> HIDE DEF first, last, R
  <2> QED
    BY <1>1, <1>5, <1>8, <1>9
<1> HIDE DEF first, last
<1>11. AnWhole(An!ToolSteps(first, last), first, last)
  BY <1>10, AnBuilt
<1> QED
  BY <1>7, <1>10, <1>11 DEF AnPaired

(* The transcript only gets longer, so what is paired stays so.            *)
LEMMA AnStaysPaired ==
  ASSUME DOMAIN world.records \subseteq DOMAIN world'.records,
         \A i \in DOMAIN world.records : world'.records[i] = world.records[i],
         DOMAIN world.records = 1 .. Len(world.records), Len(world.records) \in Nat,
         NEW q, AnPaired(q)
  PROVE  AnPaired(q)'
<1>1. PICK first \in DOMAIN world.records, e \in DOMAIN world.records : AnWhole(q, first, e)
  BY DEF AnPaired
<1>2. \A p \in first .. e : world'.records[p] = world.records[p]
  <2>1. first .. e \subseteq DOMAIN world.records
    OBVIOUS
  <2> QED
    BY <2>1
<1>3. AnWhole(q, first, e)'
  <2>1. \A x : AnFits(x, first, e) => AnFits(x, first, e)'
    BY <1>2 DEF AnFits, AnIs
  <2>2. \A a \in DOMAIN q : AnFits(q[a], first, e)'
    BY <1>1, <2>1 DEF AnWhole
  <2>3. \A p \in first .. e : AnIs(p, "planner")' => \A k \in 1 .. world'.records[p].calls : AnHas(q, <<p, k>>)
    BY <1>1, <1>2 DEF AnWhole, AnIs
  <2>4. q \in Seq(AnSteps) /\ AnOnce(q)
    BY <1>1 DEF AnWhole
  <2> QED
    BY <2>2, <2>3, <2>4 DEF AnWhole, AnOnce, AnHas
<1> QED
  BY <1>1, <1>3 DEF AnPaired

(* The results of an answer come in the order of its calls.                *)
LEMMA AnLogGrows ==
  ASSUME AnWorld, AnLog, An!Record
  PROVE  /\ AnLog'
         /\ DOMAIN world.records \subseteq DOMAIN world'.records
         /\ \A i \in DOMAIN world.records : world'.records[i] = world.records[i]
<1> DEFINE q == world.records
           m == Len(q)
<1>1. PICK r \in An!NextRecords : world' = [world EXCEPT !.records = Append(@, r)]
  BY DEF An!Record
<1>2. r \in AnRecords
  BY AnGrows
<1>3. q \in Seq(AnRecords) /\ m \in Nat /\ DOMAIN q = 1 .. m /\ \A i \in 1 .. m : q[i] \in AnRecords
  BY ElementOfSeq DEF AnWorld
<1>4. world'.records = Append(q, r)
  BY <1>1 DEF AnWorld
<1>5. /\ Append(q, r) \in Seq(AnRecords) /\ DOMAIN Append(q, r) = 1 .. m + 1 /\ Append(q, r)[m + 1] = r
      /\ \A i \in 1 .. m : Append(q, r)[i] = q[i]
  BY <1>2, <1>3
<1>6. \A i \in 1 .. m + 1 : i \in 1 .. m \/ i = m + 1
  BY <1>3
<1>7. ASSUME r.type = "result"
      PROVE  \E p \in 1 .. m :
               /\ q[p].type = "planner" /\ \A j \in p + 1 .. m : q[j].type # "planner"
               /\ r.of[1] = p /\ r.of[2] >= 1
               /\ \A j \in p + 1 .. m : q[j].type = "result" => q[j].of[2] < r.of[2]
  <2>1. r \in An!NextResults
    BY <1>7 DEF An!NextRecords, An!User, An!Planner
  <2>2. An!Planners # {} /\ An!Planners \in SUBSET (1 .. m)
    BY <1>3, <2>1 DEF An!NextResults, An!Planners
  <2> DEFINE p == An!LastOf(An!Planners)
  <2>3. p \in An!Planners /\ \A j \in An!Planners : j <= p
    <3>1. \E i \in An!Planners : \A j \in An!Planners : j <= i
      BY <1>3, <2>2, LastPosition
    <3> QED
      BY <3>1 DEF An!LastOf
  <2>4. PICK k \in 1 .. q[p].calls :
          /\ r = An!Result(p, k)
          /\ \A o \in {q[i].of[2] : i \in (p + 1) .. Len(q)} : o < k
    BY <2>1, <2>2 DEF An!NextResults
  <2> HIDE DEF p
  <2>5. p \in 1 .. m /\ q[p].type = "planner"
    BY <2>2, <2>3 DEF An!Planners
  <2>6. r.of[1] = p /\ r.of[2] = k /\ k >= 1
    <3>1. q[p].calls \in Nat
      BY <1>3, <2>5 DEF AnRecords
    <3> QED
      BY <2>4, <3>1 DEF An!Result
  <2>7. \A j \in p + 1 .. m : q[j].type # "planner"
    <3> SUFFICES ASSUME NEW j \in p + 1 .. m, q[j].type = "planner"
                 PROVE  FALSE
      OBVIOUS
    <3>1. j \in An!Planners
      BY <1>3, <2>5 DEF An!Planners
    <3> QED
      BY <1>3, <2>3, <2>5, <3>1
  <2>8. \A j \in p + 1 .. m : q[j].of[2] < k
    BY <2>4
  <2> QED
    BY <2>5, <2>6, <2>7, <2>8
<1> DEFINE v == Append(q, r)
<1>8. ASSUME NEW i \in 1 .. m + 1, v[i].type = "result"
      PROVE  \E p \in 1 .. i - 1 :
               /\ v[p].type = "planner" /\ \A j \in p + 1 .. i - 1 : v[j].type # "planner"
               /\ v[i].of[1] = p /\ v[i].of[2] >= 1
               /\ \A j \in p + 1 .. i - 1 : v[j].type = "result" => v[j].of[2] < v[i].of[2]
  <2> HIDE DEF v
  <2>1. /\ v[m + 1] = r /\ \A j \in 1 .. m : v[j] = q[j]
    BY <1>5 DEF v
  <2>2. CASE i = m + 1
    <3>1. i - 1 = m
      BY <1>3, <2>2
    <3>2. \A p \in 1 .. m : \A j \in p + 1 .. m : j \in 1 .. m
      OBVIOUS
    <3>3. v[i] = r
      BY <2>1, <2>2
    <3> HIDE DEF q
    <3>4. \E p \in 1 .. m :
               /\ v[p].type = "planner" /\ \A j \in p + 1 .. m : v[j].type # "planner"
               /\ r.of[1] = p /\ r.of[2] >= 1
               /\ \A j \in p + 1 .. m : v[j].type = "result" => v[j].of[2] < r.of[2]
      BY <1>7, <1>8, <2>1, <3>2, <3>3
    <3> QED
      BY <3>1, <3>3, <3>4
  <2>3. CASE i \in 1 .. m
    <3>1. q[i].type = "result" /\ v[i] = q[i]
      BY <1>8, <2>1, <2>3
    <3>2. PICK p \in 1 .. i - 1 :
               /\ q[p].type = "planner" /\ \A j \in p + 1 .. i - 1 : q[j].type # "planner"
               /\ q[i].of[1] = p /\ q[i].of[2] >= 1
               /\ \A j \in p + 1 .. i - 1 : q[j].type = "result" => q[j].of[2] < q[i].of[2]
      BY <1>3, <2>3, <3>1 DEF AnLog, AnIs
    <3>3. p \in 1 .. m /\ \A j \in p + 1 .. i - 1 : j \in 1 .. m
      BY <1>3, <2>3
    <3> QED
      BY <2>1, <3>1, <3>2, <3>3
  <2> QED
    BY <1>6, <2>2, <2>3
<1> HIDE DEF v
<1>9. world'.records = v /\ v \in Seq(AnRecords) /\ DOMAIN v = 1 .. m + 1
  BY <1>4, <1>5 DEF v
<1>10. AnLog'
  BY <1>8, <1>9 DEF AnLog, AnIs
<1>11. \A i \in 1 .. m : i \in 1 .. m + 1 /\ v[i] = q[i]
  BY <1>3, <1>5 DEF v
<1> QED
  BY <1>3, <1>9, <1>10, <1>11

LEMMA AnSendsPaired ==
  ASSUME AnInv, NEW h \in AnHooks, An!Step(h)
  PROVE  /\ world'.records = world.records
         /\ \/ sent' = sent
            \/ /\ hooks[h].at = "loop"
               /\ \E n \in DOMAIN hooks[h].turns :
                    sent' = Append(sent, [turn |-> n, steps |-> hooks[h].turns[n].steps])
         /\ \/ hooks'[h].at \notin {"mark", "loop"}
            \/ hooks'[h].turns = hooks[h].turns /\ hooks[h].at \in {"mark", "loop"}
            \/ hooks'[h].turns = An!Parsed /\ An!Starts # {}
<1> DEFINE l == hooks[h]
<1>w. DOMAIN world = {"overlap", "crashes", "records", "old", "early"}
  BY DEF AnInv, AnWorld
<1>l. AnPlaced(l) /\ DOMAIN hooks = AnHooks
  BY DEF AnInv
<1>1. world'.records = world.records
  BY <1>w DEF An!Step, An!Fire, An!Ensure, An!SetSession, An!InitMark, An!Parse, An!ReadMark, An!SkipOld,
       An!SendTurn, An!SetMark, An!Crash, An!Keeps, An!Writes, An!Sends
<1>2. CASE An!SendTurn(h)
  <2> DEFINE n == An!FirstOf(An!TurnsLeft(l))
  <2>1. /\ l.at = "loop" /\ An!TurnsLeft(l) # {}
        /\ sent' = Append(sent, [turn |-> n, steps |-> l.turns[n].steps])
        /\ hooks' = [hooks EXCEPT ![h] = [[l EXCEPT !.i = n + 1, !.mark = n] EXCEPT !.at = "loop"]]
    BY <1>2 DEF An!SendTurn, An!Sends, An!Local, An!Goto
  <2>2. n \in DOMAIN l.turns
    BY <1>l, <2>1, AnNextTurn
  <2> HIDE DEF n
  <2>3. DOMAIN l = {"at", "kind", "turns", "i", "mark", "step"}
    BY <1>l DEF AnPlaced
  <2>4. hooks'[h].turns = l.turns
    BY <1>l, <2>1, <2>3
  <2> QED
    BY <1>1, <2>1, <2>2, <2>4
<1>3. CASE An!Parse(h)
  <2>1. sent' = sent /\ hooks' = [hooks EXCEPT ![h] =
          IF An!Starts = {} THEN An!Ended ELSE [[l EXCEPT !.turns = An!Parsed] EXCEPT !.at = "mark"]]
    BY <1>3 DEF An!Parse, An!Local, An!Goto
  <2>2. DOMAIN l = {"at", "kind", "turns", "i", "mark", "step"}
    BY <1>l DEF AnPlaced
  <2>3. An!Ended.at = "done"
    BY DEF An!Ended, An!Unborn
  <2>4. CASE An!Starts = {}
    BY <1>1, <1>l, <2>1, <2>3, <2>4
  <2>5. CASE An!Starts # {}
    <3>1. hooks'[h] = [[l EXCEPT !.turns = An!Parsed] EXCEPT !.at = "mark"]
      BY <1>l, <2>1, <2>5
    <3>2. hooks'[h].turns = An!Parsed
      BY <2>2, <3>1
    <3> QED
      BY <1>1, <2>1, <2>5, <3>2
  <2> QED
    BY <2>4, <2>5
<1>4. CASE ~An!SendTurn(h) /\ ~An!Parse(h)
  <2>1. sent' = sent
    BY <1>4 DEF An!Step, An!Fire, An!Ensure, An!SetSession, An!InitMark, An!ReadMark, An!SkipOld,
         An!SetMark, An!Crash, An!Keeps, An!Writes
  <2>2. AnMove(h)
    BY AnMoves
  <2>3. l.at # "parse" \/ hooks'[h].at = "done"
    <3>1. CASE An!Crash(h)
      BY <1>l, <3>1 DEF An!Crash, An!Ended, An!Unborn
    <3> QED
      BY <1>4, <3>1 DEF An!Step, An!Fire, An!Ensure, An!SetSession, An!InitMark, An!ReadMark, An!SkipOld,
         An!SetMark, An!Local
  <2>4. \/ hooks'[h].at \notin {"mark", "loop"}
        \/ hooks'[h].turns = l.turns /\ l.at \in {"mark", "loop"}
    <3>1. hooks'[h].at = "ensure" \/ hooks'[h].at = "done" => hooks'[h].at \notin {"mark", "loop"}
      OBVIOUS
    <3>2. hooks'[h].at = "initMark" \/ hooks'[h].at = "session" \/ hooks'[h].at = "parse" => hooks'[h].at \notin {"mark", "loop"}
      OBVIOUS
    <3> QED
      BY <2>2, <2>3, <3>1, <3>2 DEF AnMove
  <2> QED
    BY <1>1, <2>1, <2>4
<1> QED
  BY <1>2, <1>3, <1>4

LEMMA AnPairsStep ==
  ASSUME AnInv, AnPairs, [An!Next]_An!vars
  PROVE  AnPairs'
<1>0. DOMAIN hooks = AnHooks /\ AnWorld /\ AnLog /\ DOMAIN world.records = 1 .. Len(world.records)
      /\ Len(world.records) \in Nat /\ IsSeq(sent)
  BY DEF AnInv, AnWorld, AnPairs, AnSent
<1>1. ASSUME AnLog',
             DOMAIN world.records \subseteq DOMAIN world'.records,
             \A i \in DOMAIN world.records : world'.records[i] = world.records[i],
             \A h \in AnHooks :
               \/ hooks'[h].at \notin {"mark", "loop"}
               \/ hooks'[h].turns = hooks[h].turns /\ hooks[h].at \in {"mark", "loop"}
               \/ hooks'[h].turns = An!Parsed /\ An!Starts # {},
             \/ sent' = sent
             \/ \E h \in AnHooks :
               /\ hooks[h].at = "loop"
               /\ \E n \in DOMAIN hooks[h].turns :
                    sent' = Append(sent, [turn |-> n, steps |-> hooks[h].turns[n].steps])
      PROVE  AnPairs'
  <2>1. \A q : AnPaired(q) => AnPaired(q)'
    BY <1>0, <1>1, AnStaysPaired
  <2>2. ASSUME NEW h \in AnHooks
        PROVE  AnKeeps(hooks[h])'
    <3>1. ASSUME hooks'[h].at \in {"mark", "loop"}, NEW n \in DOMAIN hooks'[h].turns
          PROVE  AnPaired(hooks'[h].turns[n].steps)
      <4>1. CASE hooks'[h].turns = hooks[h].turns /\ hooks[h].at \in {"mark", "loop"}
        BY <3>1, <4>1 DEF AnPairs, AnKeeps
      <4>2. CASE hooks'[h].turns = An!Parsed /\ An!Starts # {}
        BY <1>0, <3>1, <4>2, AnTurnPaired
      <4> QED
        BY <1>1, <3>1, <4>1, <4>2
    <3>2. \A q : (\E n \in DOMAIN hooks'[h].turns : q = hooks'[h].turns[n].steps) /\ AnPaired(q)' => AnPaired(q)'
      OBVIOUS
    <3>3. ASSUME hooks'[h].at \in {"mark", "loop"}, NEW n \in DOMAIN hooks'[h].turns
          PROVE  AnPaired(hooks[h].turns[n].steps)'
      <4>1. \A q : q = hooks'[h].turns[n].steps => (AnPaired(q)' <=> AnPaired(hooks[h].turns[n].steps)')
        BY DEF AnPaired, AnWhole
      <4>2. AnPaired(hooks'[h].turns[n].steps)
        BY <3>1, <3>3
      <4> QED
        BY <2>1, <4>1, <4>2
    <3> QED
      BY <3>3 DEF AnKeeps
  <2>3. ASSUME NEW k \in DOMAIN sent'
        PROVE  AnPaired(sent[k].steps)'
    <3>1. AnPaired(sent'[k].steps)
      <4>1. CASE sent' = sent
        BY <2>3, <4>1 DEF AnPairs
      <4>2. ASSUME NEW h \in AnHooks, hooks[h].at = "loop", NEW n \in DOMAIN hooks[h].turns,
                   sent' = Append(sent, [turn |-> n, steps |-> hooks[h].turns[n].steps])
            PROVE  AnPaired(sent'[k].steps)
        <5> DEFINE x == [turn |-> n, steps |-> hooks[h].turns[n].steps]
        <5>1. AnPaired(x.steps)
          BY <4>2 DEF AnPairs, AnKeeps
        <5> HIDE DEF x
        <5>2. \/ k \in DOMAIN sent /\ sent'[k] = sent[k]
              \/ sent'[k] = x
          BY <1>0, <2>3, <4>2, AppendAny DEF x
        <5> QED
          BY <5>1, <5>2 DEF AnPairs
      <4> QED
        BY <1>1, <4>1, <4>2
    <3>2. \A q : q = sent'[k].steps => (AnPaired(q)' <=> AnPaired(sent[k].steps)')
      BY DEF AnPaired, AnWhole
    <3> QED
      BY <2>1, <3>1, <3>2
  <2> QED
    BY <1>1, <2>2, <2>3 DEF AnPairs, AnHooks
<1>5. world'.records = world.records /\ AnLog => AnLog'
  <2> SUFFICES ASSUME world'.records = world.records, AnLog
               PROVE  AnLog'
    OBVIOUS
  <2>1. \A i, type : AnIs(i, type) <=> AnIs(i, type)'
    BY DEF AnIs
  <2> QED
    BY <2>1 DEF AnLog
<1>2. CASE An!Record
  BY <1>0, <1>1, <1>2, AnLogGrows DEF An!Record, AnPairs, AnKeeps
<1>3. ASSUME NEW h \in AnHooks, An!Step(h)
      PROVE  AnPairs'
  <2>0. world'.records = world.records
    BY <1>3, AnSendsPaired
  <2>1. AnLog'
    BY <1>0, <1>5, <2>0
  <2>2. \A g \in AnHooks : g # h => hooks'[g] = hooks[g]
    BY <1>3, AnMoves
  <2> QED
    BY <1>1, <1>3, <2>0, <2>1, <2>2, AnSendsPaired
<1>4. CASE UNCHANGED An!vars
  <2>1. world' = world /\ hooks' = hooks /\ sent' = sent
    BY <1>4 DEF An!vars
  <2>2. AnLog'
    BY <1>0, <1>5, <2>1
  <2> QED
    BY <1>1, <2>1, <2>2
<1> QED
  BY <1>2, <1>3, <1>4 DEF An!Next, AnHooks

LEMMA AnPairsInit ==
  ASSUME An!Init
  PROVE  AnPairs
<1>1. PICK old \in BOOLEAN : world.records = IF old THEN <<An!User, An!Planner(0)>> ELSE <<>>
  BY DEF An!Init
<1>2. sent = <<>> /\ \A h \in AnHooks : hooks[h].at = "new"
  BY DEF An!Init, An!Unborn, AnHooks
<1>3. An!User \in AnRecords /\ An!Planner(0) \in AnRecords /\ An!User.type # "result" /\ An!Planner(0).type # "result"
  BY DEF An!User, An!Planner, AnRecords
<1>4. AnLog
  <2>1. CASE old
    <3>1. /\ world.records \in Seq(AnRecords) /\ DOMAIN world.records = {1, 2}
          /\ world.records[1].type # "result" /\ world.records[2].type # "result"
      BY <1>1, <1>3, <2>1
    <3> QED
      BY <3>1 DEF AnLog, AnIs
  <2>2. CASE ~old
    BY <1>1, <2>2 DEF AnLog
  <2> QED
    BY <2>1, <2>2
<1> QED
  BY <1>2, <1>4 DEF AnPairs, AnKeeps

(* As many calls as steps, and the properties that the code is about.      *)
LEMMA AnPairedCalls ==
  ASSUME NEW steps, AnPaired(steps)
  PROVE  LET calls == {steps[a].call : a \in DOMAIN steps} IN
         /\ An!Cardinality(calls) = Len(steps)
         /\ \A c \in calls : \A k \in 1 .. world.records[c[1]].calls : <<c[1], k>> \in calls
         /\ \A a \in DOMAIN steps : steps[a].result # None =>
              steps[a].result[1] = steps[a].call[1] /\ steps[a].call[2] <= steps[a].result[2]
<1> DEFINE calls == {steps[a].call : a \in DOMAIN steps}
           f == [a \in 1 .. Len(steps) |-> steps[a].call]
<1>1. PICK first \in DOMAIN world.records, e \in DOMAIN world.records : AnWhole(steps, first, e)
  BY DEF AnPaired
<1>2. steps \in Seq(AnSteps) /\ AnOnce(steps) /\ (\A a \in DOMAIN steps : AnFits(steps[a], first, e))
      /\ \A p \in first .. e : AnIs(p, "planner") => \A k \in 1 .. world.records[p].calls : AnHas(steps, <<p, k>>)
  BY <1>1 DEF AnWhole
<1>3. Len(steps) \in Nat /\ DOMAIN steps = 1 .. Len(steps)
  BY <1>2
<1>4. f \in Bijection(1 .. Len(steps), calls)
  <2>1. f \in [1 .. Len(steps) -> calls]
    BY <1>3
  <2>2. \A a, b \in DOMAIN f : f[a] = f[b] => a = b
    BY <1>2, <1>3 DEF AnOnce
  <2>3. \A x \in calls : \E k \in 1 .. Len(steps) : f[k] = x
    BY <1>3
  <2> HIDE DEF f
  <2> QED
    BY <2>1, <2>2, <2>3 DEF Bijection, Injection, Surjection, IsInjective
<1>5. An!Cardinality(calls) = Len(steps)
  BY <1>3, <1>4, FS_CountingElements, AnCardinality DEF ExistsBijection
<1>6. ASSUME NEW a \in DOMAIN steps, NEW k \in 1 .. world.records[steps[a].call[1]].calls
      PROVE  <<steps[a].call[1], k>> \in calls
  <2>1. AnHas(steps, <<steps[a].call[1], k>>)
    BY <1>2, <1>6 DEF AnFits
  <2> QED
    BY <2>1 DEF AnHas
<1>7. \A a \in DOMAIN steps : steps[a].result # None =>
        steps[a].result[1] = steps[a].call[1] /\ steps[a].call[2] <= steps[a].result[2]
  BY <1>2 DEF AnFits
<1> QED
  BY <1>5, <1>6, <1>7

(* Antigravity: whatever overlaps and dies and however many results are    *)
(* missing, the calls of an answer are in a turn that is sent together,    *)
(* each once, and a result is under a call of its own answer and not under *)
(* a later call than its own (parse_transcript, _build_turn).              *)
THEOREM AntigravityCalls == Spec => []CallsPaired
<1> DEFINE Inv == harness = "antigravity" => AnInv /\ AnPairs
<1>1. Init => Inv
  <2>1. An!AntigravityAssumption
    BY HarnessesAssumption
  <2> QED
    BY <2>1, AnInit, AnPairsInit DEF Init
<1>2. Inv /\ [Next]_vars => Inv'
  <2> SUFFICES ASSUME Inv, [Next]_vars, harness' = "antigravity"
               PROVE  AnInv' /\ AnPairs'
    OBVIOUS
  <2>1. harness = "antigravity"
    BY DEF Next, vars
  <2>2. [Next]_vars /\ harness = "antigravity" => [An!Next]_An!vars
    BY DEF Next, vars, An!vars
  <2> QED
    BY <2>1, <2>2, AnStep, AnPairsStep
<1>3. Inv => CallsPaired
  <2> SUFFICES ASSUME AnPairs
               PROVE  An!CallsPaired
    BY DEF CallsPaired
  <2> QED
    BY AnPairedCalls DEF AnPairs, An!CallsPaired
<1> QED
  BY <1>1, <1>2, <1>3, PTL DEF Spec

-----------------------------------------------------------------------------
(* Codex *)

CxHooks == HooksOf["codex"]
CxTypes == {"start", "prompt", "say", "complete", "count", "call", "output", "searchEnd", "searchCall"}
CxRecords == [type : CxTypes, of : Nat]
CxMaybe == Nat \cup {None}
CxCalls == [at : Nat, id : CxMaybe, search : BOOLEAN, output : CxMaybe]
CxMade == [in : BOOLEAN, over : BOOLEAN, number : Nat, prompt : CxMaybe, output : CxMaybe,
           prev : CxMaybe, usage : Seq(Nat), calls : Seq(CxCalls), search : CxMaybe]

CxIs(i, type) == world[i].type = type

(* The places of the records of a type that are at most at i.              *)
CxUpTo(type, i) == {j \in Cx!Of(type) : j <= i}

(* The rollout: starts and searches are numbered, the totals do not fall,  *)
(* and an output is of a call before it.                                   *)
CxLog ==
  /\ world \in Seq(CxRecords)
  /\ \A type \in {"start", "searchEnd"} : \A i \in Cx!Of(type) : world[i].of = Rank(Cx!Of(type), i)
  /\ \E M \in Nat : {world[i].of : i \in Cx!Of("count")} = 1 .. M
  /\ \A i, j \in Cx!Of("count") : i < j => world[i].of <= world[j].of
  /\ \A i \in Cx!Of("output") : world[i].of < i

(* The call at a place of its own, with an output that is of it.           *)
CxCallAt(c, first, e) ==
  /\ c.at \in first .. e /\ world[c.at].type = (IF c.search THEN "searchCall" ELSE "call")
  /\ ~c.search =>
       /\ c.id = c.at
       /\ IF c.output = None THEN \A i \in first .. e : CxIs(i, "output") => world[i].of # c.at
          ELSE c.output \in first .. e /\ CxIs(c.output, "output") /\ world[c.output].of = c.at

CxSearchIds(t) == {k \in DOMAIN t.calls : t.calls[k].search /\ t.calls[k].id # None}

(* The last number of a search is above all others that were taken.        *)
CxSearched(t, e) ==
  LET known == {world[i].of : i \in CxUpTo("searchEnd", e)} IN
  /\ t.search \in known \cup {None}
  /\ \A k \in CxSearchIds(t) : t.calls[k].id \in known /\ t.calls[k].id # t.search
  /\ \A k, l \in CxSearchIds(t) : t.calls[k].id = t.calls[l].id => k = l

(* What was added up is what the records say, the last total the last of   *)
(* them.                                                                   *)
CxCounted(t, first, e) ==
  /\ {t.usage[k] : k \in DOMAIN t.usage} = {world[i].of : i \in {j \in first .. e : CxIs(j, "count")}}
  /\ \A k, l \in DOMAIN t.usage : t.usage[k] = t.usage[l] => k = l
  /\ IF t.prev = None THEN \A i \in first .. e : ~CxIs(i, "count")
     ELSE /\ \E i \in first .. e : CxIs(i, "count") /\ world[i].of = t.prev
          /\ \A i \in first .. e : CxIs(i, "count") => world[i].of <= t.prev

CxCalled(t, first, e) ==
  /\ \A k \in DOMAIN t.calls : CxCallAt(t.calls[k], first, e)
  /\ \A i \in first .. e : CxIs(i, "call") \/ CxIs(i, "searchCall") => \E k \in DOMAIN t.calls : t.calls[k].at = i
  /\ \A k, l \in DOMAIN t.calls : k < l => t.calls[k].at < t.calls[l].at

(* The walk has gathered what the records from first to e say.             *)
CxGot(t, first, e) ==
  /\ t \in CxMade
  /\ t.prompt = None \/ t.prompt \in first .. e
  /\ t.output = None \/ t.output \in first .. e
  /\ CxCounted(t, first, e) /\ CxCalled(t, first, e) /\ CxSearched(t, e)

(* The turn begins at first, and no other between that and e.              *)
CxTurn(turn, first, e) ==
  /\ CxIs(first, "start") /\ world[first].of = turn
  /\ \A i \in first + 1 .. e : ~CxIs(i, "start")

(* The walk of the first n records.                                        *)
CxWalk(t, turn, n) ==
  \/ /\ t = [Cx!Nothing EXCEPT !.number = Cardinality(CxUpTo("start", n))]
     /\ \A i \in CxUpTo("start", n) : world[i].of # turn
  \/ \E first \in 1 .. n : \E e \in first .. n :
       /\ t.in /\ t.number = turn /\ CxTurn(turn, first, e) /\ CxGot(t, first, e)
       /\ IF t.over THEN e + 1 <= n /\ CxIs(e + 1, "start") ELSE e = n

(* A payload, as far as the rollout had been written.                      *)
CxFound(t, turn, seen) ==
  /\ seen \in DOMAIN world
  /\ \E first \in 1 .. seen : \E e \in first .. seen :
       /\ t.number = turn /\ CxTurn(turn, first, e) /\ CxGot(t, first, e)
       /\ e # seen => CxIs(e + 1, "start")

CxInv ==
  /\ CxLog /\ DOMAIN hooks = CxHooks /\ IsSeq(sent)
  /\ \A h \in CxHooks :
       /\ DOMAIN hooks[h] = {"at", "turn", "found", "seen"}
       /\ hooks[h].at = "send" => CxFound(hooks[h].found, hooks[h].turn, hooks[h].seen)
  /\ \A n \in DOMAIN sent : ~sent[n].legacy => CxFound(sent[n].found, sent[n].turn, sent[n].seen)

LEMMA CxNothing ==
  /\ Cx!Nothing = [in |-> FALSE, over |-> FALSE, number |-> 0, prompt |-> None, output |-> None,
                   prev |-> None, usage |-> <<>>, calls |-> <<>>, search |-> None]
  /\ \A n : [Cx!Nothing EXCEPT !.number = n] =
                [in |-> FALSE, over |-> FALSE, number |-> n, prompt |-> None, output |-> None,
                 prev |-> None, usage |-> <<>>, calls |-> <<>>, search |-> None]
  /\ None \notin Nat
<1>1. None \notin Nat
  BY HarnessesAssumption DEF Cx!CodexAssumption
<1>2. ASSUME NEW n
      PROVE  [Cx!Nothing EXCEPT !.number = n] =
                [in |-> FALSE, over |-> FALSE, number |-> n, prompt |-> None, output |-> None,
                 prev |-> None, usage |-> <<>>, calls |-> <<>>, search |-> None]
  <2>1. ASSUME NEW a, NEW b, NEW c, NEW d, NEW x,
               x = [in |-> a, over |-> a, number |-> b, prompt |-> c, output |-> c,
                    prev |-> c, usage |-> d, calls |-> d, search |-> c]
        PROVE  [x EXCEPT !.number = n] =
                 [in |-> a, over |-> a, number |-> n, prompt |-> c, output |-> c,
                  prev |-> c, usage |-> d, calls |-> d, search |-> c]
    BY <2>1
  <2> DEFINE no == FALSE
             q == <<>>
  <2>2. Cx!Nothing = [in |-> no, over |-> no, number |-> 0, prompt |-> None, output |-> None,
                      prev |-> None, usage |-> q, calls |-> q, search |-> None]
    BY DEF Cx!Nothing
  <2> HIDE DEF no, q
  <2>3. [Cx!Nothing EXCEPT !.number = n] =
          [in |-> no, over |-> no, number |-> n, prompt |-> None, output |-> None,
           prev |-> None, usage |-> q, calls |-> q, search |-> None]
    BY <2>1, <2>2
  <2> QED
    BY <2>3 DEF no, q
<1> QED
  BY <1>1, <1>2 DEF Cx!Nothing

LEMMA CxCardinality == \A S : Cx!Cardinality(S) = Cardinality(S)
BY DEF Cx!Cardinality, Cardinality

LEMMA CxWorld ==
  ASSUME world \in Seq(CxRecords)
  PROVE  /\ Len(world) \in Nat /\ DOMAIN world = 1 .. Len(world)
         /\ \A i \in DOMAIN world : world[i].type \in CxTypes /\ world[i].of \in Nat /\ i \in Nat
         /\ \A type : Cx!Of(type) \in SUBSET (1 .. Len(world)) /\ \A i : i \in Cx!Of(type) <=> i \in DOMAIN world /\ CxIs(i, type)
<1>1. \A S : \A q \in Seq(S) : \A k \in DOMAIN q : q[k] \in S
  OBVIOUS
<1>2. Len(world) \in Nat /\ DOMAIN world = 1 .. Len(world)
  OBVIOUS
<1>3. \A i \in DOMAIN world : world[i] \in CxRecords
  BY <1>1
<1> QED
  BY <1>2, <1>3 DEF CxRecords, Cx!Of, CxIs

-----------------------------------------------------------------------------
(* One record more, for a walk that is in the turn.                        *)

CxSame(u, t) == u.in = t.in /\ u.over = t.over /\ u.number = t.number

LEMMA CxSetCalls ==
  ASSUME NEW t \in CxMade, NEW y \in Seq(CxCalls), NEW u, u = [t EXCEPT !.calls = y]
  PROVE  /\ u \in CxMade /\ CxSame(u, t) /\ u.prompt = t.prompt /\ u.output = t.output
         /\ u.prev = t.prev /\ u.usage = t.usage /\ u.calls = y /\ u.search = t.search
BY DEF CxMade, CxSame

LEMMA CxSetCallsSearch ==
  ASSUME NEW t \in CxMade, NEW y \in Seq(CxCalls), NEW z \in CxMaybe,
         NEW u, u = [t EXCEPT !.calls = y, !.search = z]
  PROVE  /\ u \in CxMade /\ CxSame(u, t) /\ u.prompt = t.prompt /\ u.output = t.output
         /\ u.prev = t.prev /\ u.usage = t.usage /\ u.calls = y /\ u.search = z
BY DEF CxMade, CxSame

LEMMA CxSetSearch ==
  ASSUME NEW t \in CxMade, NEW z \in CxMaybe, NEW u, u = [t EXCEPT !.search = z]
  PROVE  /\ u \in CxMade /\ CxSame(u, t) /\ u.prompt = t.prompt /\ u.output = t.output
         /\ u.prev = t.prev /\ u.usage = t.usage /\ u.calls = t.calls /\ u.search = z
BY DEF CxMade, CxSame

LEMMA CxSetText ==
  ASSUME NEW t \in CxMade, NEW i \in Nat, NEW u, u = [t EXCEPT !.prompt = i] \/ u = [t EXCEPT !.output = i]
  PROVE  /\ u \in CxMade /\ CxSame(u, t) /\ u.prompt \in {t.prompt, i} /\ u.output \in {t.output, i}
         /\ u.prev = t.prev /\ u.usage = t.usage /\ u.calls = t.calls /\ u.search = t.search
<1>1. CASE u = [t EXCEPT !.prompt = i]
  BY <1>1 DEF CxMade, CxSame, CxMaybe
<1>2. CASE u = [t EXCEPT !.output = i]
  BY <1>2 DEF CxMade, CxSame, CxMaybe
<1> QED
  BY <1>1, <1>2

LEMMA CxSetStart ==
  ASSUME NEW t \in CxMade, NEW n \in Nat, NEW b \in BOOLEAN,
         NEW u, u = [t EXCEPT !.over = TRUE] \/ u = [t EXCEPT !.number = n, !.in = b]
  PROVE  u \in CxMade
<1>1. CASE u = [t EXCEPT !.over = TRUE]
  BY <1>1 DEF CxMade
<1>2. CASE u = [t EXCEPT !.number = n, !.in = b]
  BY <1>2 DEF CxMade
<1> QED
  BY <1>1, <1>2

(* What a record of another type leaves as it is.                          *)
LEMMA CxCountedStays ==
  ASSUME NEW t, NEW u, NEW first \in Nat, NEW e \in Nat, first <= e + 1, CxCounted(t, first, e),
         ~CxIs(e + 1, "count"), u.usage = t.usage, u.prev = t.prev
  PROVE  CxCounted(u, first, e + 1)
<1>1. \A i \in first .. e + 1 : i \in first .. e \/ i = e + 1
  OBVIOUS
<1>2. first .. e \subseteq first .. e + 1
  OBVIOUS
<1>3. \A i : i \in first .. e + 1 /\ CxIs(i, "count") <=> i \in first .. e /\ CxIs(i, "count")
  BY <1>1, <1>2
<1> DEFINE I == {j \in first .. e : CxIs(j, "count")}
           J == {j \in first .. e + 1 : CxIs(j, "count")}
<1>4. I = J
  BY <1>3
<1> QED
  BY <1>3, <1>4 DEF CxCounted

LEMMA CxCalledStays ==
  ASSUME NEW t, NEW u, NEW first \in Nat, NEW e \in Nat, first <= e + 1, CxCalled(t, first, e),
         ~CxIs(e + 1, "call"), ~CxIs(e + 1, "searchCall"), ~CxIs(e + 1, "output"), u.calls = t.calls
  PROVE  CxCalled(u, first, e + 1)
<1>1. \A i \in first .. e + 1 : i \in first .. e \/ i = e + 1
  OBVIOUS
<1>2. first .. e \subseteq first .. e + 1
  OBVIOUS
<1>3. \A c : CxCallAt(c, first, e) => CxCallAt(c, first, e + 1)
  BY <1>1, <1>2 DEF CxCallAt
<1> QED
  BY <1>1, <1>3 DEF CxCalled

LEMMA CxSearchedStays ==
  ASSUME NEW t, NEW u, NEW e \in Nat, CxSearched(t, e), u.search = t.search, CxLog,
         u.calls = t.calls
  PROVE  CxSearched(u, e + 1)
<1>1. CxUpTo("searchEnd", e) \subseteq CxUpTo("searchEnd", e + 1)
  <2>1. \A i \in Cx!Of("searchEnd") : i \in Nat
    BY CxWorld DEF CxLog
  <2> QED
    BY <2>1 DEF CxUpTo
<1> DEFINE K == {world[i].of : i \in CxUpTo("searchEnd", e)}
           L == {world[i].of : i \in CxUpTo("searchEnd", e + 1)}
<1>2. K \subseteq L
  BY <1>1
<1>3. CxSearchIds(u) = CxSearchIds(t)
  BY DEF CxSearchIds
<1> HIDE DEF K, L
<1>4. /\ t.search \in K \cup {None}
      /\ \A k \in CxSearchIds(t) : t.calls[k].id \in K /\ t.calls[k].id # t.search
      /\ \A k, l \in CxSearchIds(t) : t.calls[k].id = t.calls[l].id => k = l
  BY DEF CxSearched, K
<1>5. /\ u.search \in L \cup {None}
      /\ \A k \in CxSearchIds(u) : u.calls[k].id \in L /\ u.calls[k].id # u.search
      /\ \A k, l \in CxSearchIds(u) : u.calls[k].id = u.calls[l].id => k = l
  BY <1>2, <1>3, <1>4
<1> QED
  BY <1>5 DEF CxSearched, L

(* A prompt or a text.                                                     *)
LEMMA CxTold ==
  ASSUME CxLog, NEW t, NEW first \in Nat \ {0}, NEW e \in Nat, CxGot(t, first, e), first <= e,
         world[e + 1].type \in {"prompt", "say", "complete"},
         NEW u, u = [t EXCEPT !.prompt = e + 1] \/ u = [t EXCEPT !.output = e + 1]
  PROVE  CxGot(u, first, e + 1) /\ CxSame(u, t)
<1>1. t \in CxMade
  BY DEF CxGot
<1>2. /\ u \in CxMade /\ CxSame(u, t) /\ u.prompt \in {t.prompt, e + 1} /\ u.output \in {t.output, e + 1}
      /\ u.prev = t.prev /\ u.usage = t.usage /\ u.calls = t.calls /\ u.search = t.search
  <2>1. e + 1 \in Nat
    OBVIOUS
  <2> QED
    BY <1>1, <2>1, CxSetText
<1>3. /\ ~CxIs(e + 1, "count") /\ ~CxIs(e + 1, "call") /\ ~CxIs(e + 1, "searchCall") /\ ~CxIs(e + 1, "output")
      /\ first <= e + 1
  BY DEF CxIs
<1>4. CxCounted(u, first, e + 1) /\ CxCalled(u, first, e + 1) /\ CxSearched(u, e + 1)
  BY <1>2, <1>3, CxCountedStays, CxCalledStays, CxSearchedStays DEF CxGot
<1>5. (u.prompt = None \/ u.prompt \in first .. e + 1) /\ (u.output = None \/ u.output \in first .. e + 1)
  BY <1>2 DEF CxGot
<1> QED
  BY <1>2, <1>4, <1>5 DEF CxGot

(* A token count.                                                          *)
LEMMA CxTotalled ==
  ASSUME CxLog, NEW t, NEW first \in Nat \ {0}, NEW e \in Nat, CxGot(t, first, e), first <= e,
         e + 1 \in DOMAIN world, CxIs(e + 1, "count"), NEW u, u = Cx!CountOnce(t, world[e + 1])
  PROVE  CxGot(u, first, e + 1) /\ CxSame(u, t)
<1> DEFINE i == e + 1
           n == world[i].of
<1>1. /\ t \in CxMade /\ t.usage \in Seq(Nat) /\ t.prev \in CxMaybe /\ first <= e + 1
      /\ CxCounted(t, first, e) /\ CxCalled(t, first, e) /\ CxSearched(t, e)
      /\ (t.prompt = None \/ t.prompt \in first .. e) /\ (t.output = None \/ t.output \in first .. e)
  BY DEF CxGot, CxMade
<1>2. n \in Nat /\ ~CxIs(i, "call") /\ ~CxIs(i, "searchCall") /\ ~CxIs(i, "output")
  BY CxWorld DEF CxLog, CxIs
<1>3. /\ \A j \in first .. i : j \in first .. e \/ j = i
      /\ first .. e \subseteq first .. i /\ i \in first .. i
  OBVIOUS
<1> DEFINE I == {j \in first .. e : CxIs(j, "count")}
           J == {j \in first .. i : CxIs(j, "count")}
<1>4. J = I \cup {i}
  BY <1>3
<1>5. {world[j].of : j \in J} = {world[j].of : j \in I} \cup {n}
  BY <1>4
<1> HIDE DEF I, J
<1>6. /\ {t.usage[k] : k \in DOMAIN t.usage} = {world[j].of : j \in I}
      /\ \A k, l \in DOMAIN t.usage : t.usage[k] = t.usage[l] => k = l
      /\ t.prev = None => I = {}
      /\ t.prev # None => (\E j \in I : world[j].of = t.prev) /\ \A j \in I : world[j].of <= t.prev
      /\ t.prev # None => t.prev \in Nat
  BY <1>1 DEF CxCounted, I, CxMaybe
<1>7. \A j \in I : world[j].of <= n /\ world[j].of \in Nat
  <2> TAKE j \in I
  <2>1. j \in first .. e /\ CxIs(j, "count") /\ j < i
    BY DEF I
  <2>2. j \in DOMAIN world
    <3>1. Len(world) \in Nat /\ DOMAIN world = 1 .. Len(world)
      BY CxWorld DEF CxLog
    <3> QED
      BY <2>1, <3>1
  <2>3. j \in Cx!Of("count") /\ i \in Cx!Of("count")
    BY <2>1, <2>2, CxWorld DEF CxLog
  <2> HIDE DEF i
  <2> QED
    BY <2>1, <2>2, <2>3, CxWorld DEF CxLog
<1>8. CASE n = t.prev
  <2>1. u = t
    BY <1>8 DEF Cx!CountOnce
  <2>2. t.prev # None
    BY <1>2, <1>8, CxNothing
  <2>3. n \in {world[j].of : j \in I}
    BY <1>6, <1>8, <2>2
  <2>4. {world[j].of : j \in J} = {world[j].of : j \in I}
    BY <1>5, <2>3
  <2>5. /\ \E j \in J : world[j].of = t.prev
        /\ \A j \in J : world[j].of <= t.prev
    BY <1>2, <1>4, <1>6, <1>8, <2>2
  <2> HIDE DEF n, i
  <2>6. CxCounted(t, first, i)
    BY <1>6, <2>2, <2>4, <2>5 DEF CxCounted, J
  <2>7. CxCalled(t, first, i) /\ CxSearched(t, i)
    BY <1>1, <1>2, CxCalledStays, CxSearchedStays DEF i
  <2> QED
    BY <1>1, <1>3, <2>1, <2>6, <2>7 DEF CxGot, CxSame, i
<1>9. CASE n # t.prev
  <2> DEFINE y == Append(t.usage, n)
  <2>1. u = [t EXCEPT !.usage = y, !.prev = n]
    BY <1>9 DEF Cx!CountOnce
  <2>2. /\ y \in Seq(Nat) /\ Len(t.usage) \in Nat /\ DOMAIN t.usage = 1 .. Len(t.usage)
        /\ DOMAIN y = 1 .. Len(t.usage) + 1 /\ y[Len(t.usage) + 1] = n
        /\ \A k \in 1 .. Len(t.usage) : y[k] = t.usage[k]
    BY <1>1, <1>2
  <2> HIDE DEF y, n
  <2>3. /\ u \in CxMade /\ CxSame(u, t) /\ u.prompt = t.prompt /\ u.output = t.output
        /\ u.prev = n /\ u.usage = y /\ u.calls = t.calls /\ u.search = t.search
    <3>1. t \in CxMade /\ n \in Nat /\ y \in Seq(Nat)
      BY <1>1, <1>2, <2>2
    <3> QED
      BY <2>1, <3>1 DEF CxMade, CxSame, CxMaybe
  <2>4. \A k \in DOMAIN y : k \in DOMAIN t.usage \/ k = Len(t.usage) + 1
    BY <2>2
  <2>a. /\ \A k \in DOMAIN t.usage : k \in DOMAIN y /\ y[k] = t.usage[k]
        /\ Len(t.usage) + 1 \in DOMAIN y
    BY <2>2
  <2>5. \A k \in DOMAIN t.usage : t.usage[k] # n
    <3> SUFFICES ASSUME NEW k \in DOMAIN t.usage, t.usage[k] = n
                 PROVE  FALSE
      OBVIOUS
    <3>1. PICK j \in I : world[j].of = n
      <4>1. n \in {t.usage[l] : l \in DOMAIN t.usage}
        OBVIOUS
      <4> QED
        BY <1>6, <4>1
    <3>2. t.prev # None
      BY <1>6, <3>1
    <3>3. n <= t.prev /\ t.prev <= n /\ t.prev \in Nat
      BY <1>6, <1>7, <3>1, <3>2
    <3> QED
      BY <1>2, <1>9, <3>3
  <2>6. {y[k] : k \in DOMAIN y} = {t.usage[k] : k \in DOMAIN t.usage} \cup {n}
    <3>1. ASSUME NEW k \in DOMAIN y
          PROVE  y[k] \in {t.usage[l] : l \in DOMAIN t.usage} \cup {n}
      BY <2>2, <2>4, <2>a
    <3>2. ASSUME NEW k \in DOMAIN t.usage
          PROVE  t.usage[k] \in {y[l] : l \in DOMAIN y}
      BY <2>a
    <3>3. n \in {y[l] : l \in DOMAIN y}
      BY <2>2, <2>a
    <3> QED
      BY <3>1, <3>2, <3>3
  <2>7. \A k, l \in DOMAIN y : y[k] = y[l] => k = l
    BY <1>6, <2>2, <2>4, <2>5, <2>a
  <2>8. /\ \E j \in J : world[j].of = n
        /\ \A j \in J : world[j].of <= n
    BY <1>2, <1>4, <1>7 DEF n
  <2>9. n # None
    BY <1>2, CxNothing
  <2>10. {y[k] : k \in DOMAIN y} = {world[j].of : j \in J}
    BY <1>5, <1>6, <2>6 DEF n
  <2> HIDE DEF i
  <2>11. CxCounted(u, first, i)
    BY <2>3, <2>7, <2>8, <2>9, <2>10 DEF CxCounted, J
  <2>12. CxCalled(u, first, i) /\ CxSearched(u, i)
    BY <1>1, <1>2, <2>3, CxCalledStays, CxSearchedStays DEF i
  <2> QED
    BY <1>1, <1>3, <2>3, <2>11, <2>12 DEF CxGot, i
<1> QED
  BY <1>8, <1>9

(* One call more; it is at the end, after all others.                      *)
LEMMA CxCallMore ==
  ASSUME NEW q \in Seq(CxCalls), NEW c \in CxCalls, NEW first \in Nat, NEW e \in Nat, first <= e
  PROVE  \A i, m \in Nat : \A y, t : i = e + 1 /\ y = Append(q, c) /\ m = Len(q) /\ t.calls = q =>
           /\ DOMAIN y = DOMAIN q \cup {m + 1} /\ m + 1 \notin DOMAIN q
           /\ (\A k \in DOMAIN q : y[k] = q[k]) /\ y[m + 1] = c
           /\ CxCalled(t, first, e) /\ CxCallAt(c, first, i) /\ c.at = i /\ ~CxIs(i, "output") =>
                \A u : u.calls = y => CxCalled(u, first, i)
<1> TAKE i, m \in Nat
<1> TAKE y, t
<1> SUFFICES ASSUME i = e + 1, y = Append(q, c), m = Len(q), t.calls = q
             PROVE  /\ DOMAIN y = DOMAIN q \cup {m + 1} /\ m + 1 \notin DOMAIN q
                    /\ (\A k \in DOMAIN q : y[k] = q[k]) /\ y[m + 1] = c
                    /\ CxCalled(t, first, e) /\ CxCallAt(c, first, i) /\ c.at = i /\ ~CxIs(i, "output") =>
                         \A u : u.calls = y => CxCalled(u, first, i)
  OBVIOUS
<1>1. t.calls \in Seq(CxCalls)
  OBVIOUS
<1>2. /\ y \in Seq(CxCalls) /\ m \in Nat /\ DOMAIN t.calls = 1 .. m
      /\ DOMAIN y = 1 .. m + 1 /\ y[m + 1] = c
      /\ \A k \in 1 .. m : y[k] = t.calls[k]
  BY <1>1
<1>3. /\ \A k \in DOMAIN y : k \in DOMAIN t.calls \/ k = m + 1
      /\ \A k \in DOMAIN t.calls : k \in DOMAIN y /\ y[k] = t.calls[k] /\ k < m + 1
      /\ m + 1 \in DOMAIN y
  BY <1>2
<1>4. /\ \A j \in first .. i : j \in first .. e \/ j = i
      /\ first .. e \subseteq first .. i
      /\ \A j \in first .. e : j < i
  OBVIOUS
<1>10. DOMAIN y = DOMAIN q \cup {m + 1} /\ m + 1 \notin DOMAIN q
  BY <1>2, <1>3
<1> SUFFICES ASSUME CxCalled(t, first, e), CxCallAt(c, first, i), c.at = i, ~CxIs(i, "output")
             PROVE  \A u : u.calls = y => CxCalled(u, first, i)
  BY <1>2, <1>3, <1>10
<1>5. \A x : CxCallAt(x, first, e) => CxCallAt(x, first, i)
  BY <1>4 DEF CxCallAt
<1>6. \A k \in DOMAIN y : CxCallAt(y[k], first, i)
  BY <1>1, <1>2, <1>3, <1>5 DEF CxCalled
<1>7. ASSUME NEW j \in first .. i, CxIs(j, "call") \/ CxIs(j, "searchCall")
      PROVE  \E k \in DOMAIN y : y[k].at = j
  <2>1. CASE j = i
    BY <1>2, <1>3, <2>1
  <2>2. CASE j \in first .. e
    <3>1. PICK k \in DOMAIN t.calls : t.calls[k].at = j
      BY <1>1, <1>7, <2>2 DEF CxCalled
    <3> QED
      BY <1>3, <3>1
  <2> QED
    BY <1>4, <2>1, <2>2
<1>8. ASSUME NEW k \in DOMAIN y, NEW l \in DOMAIN y, k < l
      PROVE  y[k].at < y[l].at
  <2>1. k \in DOMAIN t.calls
    BY <1>2, <1>8
  <2>2. y[k].at \in first .. e
    BY <1>1, <1>3, <2>1 DEF CxCalled, CxCallAt
  <2>3. CASE l = m + 1
    BY <1>2, <1>4, <2>2, <2>3
  <2>4. CASE l \in DOMAIN t.calls
    BY <1>1, <1>3, <1>8, <2>1, <2>4 DEF CxCalled
  <2> QED
    BY <1>3, <2>3, <2>4
<1>9. \A u : u.calls = y => CxCalled(u, first, i)
  BY <1>6, <1>7, <1>8 DEF CxCalled
<1> QED
  BY <1>9

LEMMA CxCalling ==
  ASSUME CxLog, NEW t, NEW first \in Nat \ {0}, NEW e \in Nat, CxGot(t, first, e), first <= e,
         e + 1 \in DOMAIN world, CxIs(e + 1, "call"), NEW u, u = Cx!AddCall(t, e + 1)
  PROVE  CxGot(u, first, e + 1) /\ CxSame(u, t)
<1> DEFINE i == e + 1
           c == [at |-> i, id |-> i, search |-> FALSE, output |-> None]
           y == Append(t.calls, c)
<1>1. /\ t \in CxMade /\ t.calls \in Seq(CxCalls) /\ first <= i
      /\ CxCounted(t, first, e) /\ CxCalled(t, first, e) /\ CxSearched(t, e)
      /\ (t.prompt = None \/ t.prompt \in first .. e) /\ (t.output = None \/ t.output \in first .. e)
  BY DEF CxGot, CxMade
<1>2. ~CxIs(i, "count") /\ ~CxIs(i, "searchCall") /\ ~CxIs(i, "output") /\ i \in first .. i /\ i \in Nat
  BY DEF CxIs
<1>3. c \in CxCalls
  BY DEF CxCalls, CxMaybe
<1>4. CxCallAt(c, first, i)
  <2>1. \A j \in first .. i : CxIs(j, "output") => world[j].of # i
    <3> TAKE j \in first .. i
    <3>1. Len(world) \in Nat /\ DOMAIN world = 1 .. Len(world)
      BY CxWorld DEF CxLog
    <3>2. j \in DOMAIN world /\ j <= i
      BY <3>1
    <3>3. CxIs(j, "output") => world[j].of < j /\ world[j].of \in Nat
      BY <3>2, CxWorld DEF CxLog
    <3> HIDE DEF i
    <3> QED
      BY <1>2, <3>2, <3>3
  <2> QED
    BY <1>2, <2>1 DEF CxCallAt, CxIs
<1>5. u = [t EXCEPT !.calls = y] /\ c.at = i /\ c.search = FALSE
  BY DEF Cx!AddCall
<1> HIDE DEF c
<1>6. y \in Seq(CxCalls)
  BY <1>1, <1>3
<1> HIDE DEF y
<1>7. /\ u \in CxMade /\ CxSame(u, t) /\ u.prompt = t.prompt /\ u.output = t.output
      /\ u.prev = t.prev /\ u.usage = t.usage /\ u.calls = y /\ u.search = t.search
  BY <1>1, <1>5, <1>6 DEF CxMade, CxSame
<1> DEFINE m == Len(t.calls)
<1>8. i = e + 1 /\ CxCallAt(c, first, i) /\ c.at = i /\ ~CxIs(i, "output") /\ y = Append(t.calls, c) /\ m = Len(t.calls)
  BY <1>2, <1>4, <1>5 DEF y
<1>9. /\ \A z : z.calls = y => CxCalled(z, first, i)
      /\ DOMAIN y = DOMAIN t.calls \cup {m + 1} /\ m + 1 \notin DOMAIN t.calls
      /\ (\A k \in DOMAIN t.calls : y[k] = t.calls[k]) /\ y[m + 1] = c
  <2>1. first \in Nat /\ m \in Nat /\ t.calls = t.calls
    BY <1>1
  <2> DEFINE q == t.calls
  <2>q. q \in Seq(CxCalls) /\ first <= e
    BY <1>1
  <2> HIDE DEF i, m, q
  <2>2. \A j, k \in Nat : \A z, x : j = e + 1 /\ z = Append(q, c) /\ k = Len(q) /\ x.calls = q =>
          /\ DOMAIN z = DOMAIN q \cup {k + 1} /\ k + 1 \notin DOMAIN q
          /\ (\A n \in DOMAIN q : z[n] = q[n]) /\ z[k + 1] = c
          /\ CxCalled(x, first, e) /\ CxCallAt(c, first, j) /\ c.at = j /\ ~CxIs(j, "output") =>
               \A v : v.calls = z => CxCalled(v, first, j)
    BY <1>3, <2>1, <2>q, CxCallMore
  <2>3. i \in Nat /\ m \in Nat /\ i = e + 1 /\ y = Append(q, c) /\ m = Len(q) /\ t.calls = q
    BY <1>2, <1>8, <2>1 DEF q
  <2> HIDE DEF y
  <2>4. /\ DOMAIN y = DOMAIN q \cup {m + 1} /\ m + 1 \notin DOMAIN q
        /\ (\A n \in DOMAIN q : y[n] = q[n]) /\ y[m + 1] = c
    BY <2>2, <2>3
  <2>5. \A v : v.calls = y => CxCalled(v, first, i)
    BY <1>1, <1>8, <2>2, <2>3
  <2> QED
    BY <2>4, <2>5 DEF q
<1>10. CxSearchIds(u) = CxSearchIds(t)
  BY <1>5, <1>7, <1>9 DEF CxSearchIds
<1>11. CxSearched(u, i)
  <2>1. CxSearched(t, i)
    BY <1>1, CxSearchedStays
  <2> HIDE DEF i
  <2>2. \A k \in CxSearchIds(t) : u.calls[k] = t.calls[k]
    BY <1>7, <1>9 DEF CxSearchIds
  <2> QED
    BY <1>7, <1>10, <2>1, <2>2 DEF CxSearched
<1>12. CxCounted(u, first, i)
  BY <1>1, <1>2, <1>7, CxCountedStays
<1> QED
  BY <1>1, <1>7, <1>9, <1>11, <1>12 DEF CxGot

(* A search call takes the number that waits.                              *)
LEMMA CxSearching ==
  ASSUME CxLog, NEW t, NEW first \in Nat \ {0}, NEW e \in Nat, CxGot(t, first, e), first <= e,
         e + 1 \in DOMAIN world, CxIs(e + 1, "searchCall"), NEW u, u = Cx!AddSearch(t, e + 1)
  PROVE  CxGot(u, first, e + 1) /\ CxSame(u, t)
<1> DEFINE i == e + 1
           c == [at |-> i, id |-> t.search, search |-> TRUE, output |-> i]
           y == Append(t.calls, c)
<1>1. /\ t \in CxMade /\ t.calls \in Seq(CxCalls) /\ first <= i /\ t.search \in CxMaybe
      /\ CxCounted(t, first, e) /\ CxCalled(t, first, e) /\ CxSearched(t, e)
      /\ (t.prompt = None \/ t.prompt \in first .. e) /\ (t.output = None \/ t.output \in first .. e)
  BY DEF CxGot, CxMade
<1>2. ~CxIs(i, "count") /\ ~CxIs(i, "call") /\ ~CxIs(i, "output") /\ i \in first .. i /\ i \in Nat
  BY DEF CxIs
<1>3. c \in CxCalls
  BY <1>1 DEF CxCalls, CxMaybe
<1>4. CxCallAt(c, first, i)
  BY <1>2 DEF CxCallAt, CxIs
<1>5. u = [t EXCEPT !.calls = y, !.search = None] /\ c.at = i /\ c.search = TRUE /\ c.id = t.search
  BY DEF Cx!AddSearch
<1> HIDE DEF c
<1>6. y \in Seq(CxCalls)
  BY <1>1, <1>3
<1> HIDE DEF y
<1>7. /\ u \in CxMade /\ CxSame(u, t) /\ u.prompt = t.prompt /\ u.output = t.output
      /\ u.prev = t.prev /\ u.usage = t.usage /\ u.calls = y /\ u.search = None
  BY <1>1, <1>5, <1>6 DEF CxMade, CxSame, CxMaybe
<1> DEFINE m == Len(t.calls)
<1>8. i = e + 1 /\ CxCallAt(c, first, i) /\ c.at = i /\ ~CxIs(i, "output") /\ y = Append(t.calls, c) /\ m = Len(t.calls)
  BY <1>2, <1>4, <1>5 DEF y
<1>9. /\ \A z : z.calls = y => CxCalled(z, first, i)
      /\ DOMAIN y = DOMAIN t.calls \cup {m + 1} /\ m + 1 \notin DOMAIN t.calls
      /\ (\A k \in DOMAIN t.calls : y[k] = t.calls[k]) /\ y[m + 1] = c
  <2>1. first \in Nat /\ m \in Nat /\ t.calls = t.calls
    BY <1>1
  <2> DEFINE q == t.calls
  <2>q. q \in Seq(CxCalls) /\ first <= e
    BY <1>1
  <2> HIDE DEF i, m, q
  <2>2. \A j, k \in Nat : \A z, x : j = e + 1 /\ z = Append(q, c) /\ k = Len(q) /\ x.calls = q =>
          /\ DOMAIN z = DOMAIN q \cup {k + 1} /\ k + 1 \notin DOMAIN q
          /\ (\A n \in DOMAIN q : z[n] = q[n]) /\ z[k + 1] = c
          /\ CxCalled(x, first, e) /\ CxCallAt(c, first, j) /\ c.at = j /\ ~CxIs(j, "output") =>
               \A v : v.calls = z => CxCalled(v, first, j)
    BY <1>3, <2>1, <2>q, CxCallMore
  <2>3. i \in Nat /\ m \in Nat /\ i = e + 1 /\ y = Append(q, c) /\ m = Len(q) /\ t.calls = q
    BY <1>2, <1>8, <2>1 DEF q
  <2> HIDE DEF y
  <2>4. /\ DOMAIN y = DOMAIN q \cup {m + 1} /\ m + 1 \notin DOMAIN q
        /\ (\A n \in DOMAIN q : y[n] = q[n]) /\ y[m + 1] = c
    BY <2>2, <2>3
  <2>5. \A v : v.calls = y => CxCalled(v, first, i)
    BY <1>1, <1>8, <2>2, <2>3
  <2> QED
    BY <2>4, <2>5 DEF q
<1> DEFINE n == m + 1
           L == {world[j].of : j \in CxUpTo("searchEnd", i)}
<1>10. \A k : k \in CxSearchIds(u) <=> k \in CxSearchIds(t) \/ (k = n /\ t.search # None)
  <2> HIDE DEF n, i
  <2> QED
    BY <1>5, <1>7, <1>9 DEF CxSearchIds, n
<1>11. /\ t.search \in L \cup {None}
       /\ \A k \in CxSearchIds(t) : t.calls[k].id \in L /\ t.calls[k].id # t.search
       /\ \A k, l \in CxSearchIds(t) : t.calls[k].id = t.calls[l].id => k = l
  <2>1. CxSearched(t, i)
    BY <1>1, CxSearchedStays
  <2> QED
    BY <2>1 DEF CxSearched
<1>12. CxSearched(u, i)
  <2>1. \A k \in CxSearchIds(t) : u.calls[k].id = t.calls[k].id /\ t.calls[k].id # None
    BY <1>7, <1>9 DEF CxSearchIds
  <2>2. u.calls[n].id = t.search
    BY <1>5, <1>7, <1>9
  <2> HIDE DEF n, i, L
  <2>3. \A k \in CxSearchIds(u) : u.calls[k].id \in L /\ u.calls[k].id # None
    BY <1>10, <1>11, <2>1, <2>2
  <2>4. \A k, l \in CxSearchIds(u) : u.calls[k].id = u.calls[l].id => k = l
    BY <1>10, <1>11, <2>1, <2>2
  <2> QED
    BY <1>7, <2>3, <2>4 DEF CxSearched, L
<1>13. CxCounted(u, first, i)
  BY <1>1, <1>2, <1>7, CxCountedStays
<1> QED
  BY <1>1, <1>7, <1>9, <1>12, <1>13 DEF CxGot

(* The end of a search, with a number that none had.                       *)
LEMMA CxSearchedNext ==
  ASSUME CxLog, NEW t, NEW first \in Nat \ {0}, NEW e \in Nat, CxGot(t, first, e), first <= e,
         e + 1 \in DOMAIN world, CxIs(e + 1, "searchEnd"),
         NEW u, u = [t EXCEPT !.search = world[e + 1].of]
  PROVE  CxGot(u, first, e + 1) /\ CxSame(u, t)
<1> DEFINE i == e + 1
           n == world[i].of
           S == Cx!Of("searchEnd")
           K == {world[j].of : j \in CxUpTo("searchEnd", e)}
           L == {world[j].of : j \in CxUpTo("searchEnd", i)}
<1>1. /\ t \in CxMade /\ t.calls \in Seq(CxCalls) /\ first <= i
      /\ CxCounted(t, first, e) /\ CxCalled(t, first, e) /\ CxSearched(t, e)
      /\ (t.prompt = None \/ t.prompt \in first .. e) /\ (t.output = None \/ t.output \in first .. e)
  BY DEF CxGot, CxMade
<1>2. ~CxIs(i, "count") /\ ~CxIs(i, "call") /\ ~CxIs(i, "output") /\ ~CxIs(i, "searchCall") /\ i \in Nat
  BY DEF CxIs
<1>3. /\ Len(world) \in Nat /\ S \in SUBSET (1 .. Len(world)) /\ n \in Nat /\ i \in S
      /\ \A j \in S : world[j].of = Rank(S, j)
  BY CxWorld DEF CxLog
<1>4. n \notin K
  <2> SUFFICES ASSUME NEW j \in CxUpTo("searchEnd", e), world[j].of = n
               PROVE  FALSE
    OBVIOUS
  <2>1. j \in S /\ j <= e /\ j \in Nat
    BY <1>3 DEF CxUpTo
  <2>2. j < i
    BY <2>1
  <2> HIDE DEF i, S
  <2>3. Rank(S, j) < Rank(S, i)
    BY <1>3, <2>1, <2>2, RankGrows
  <2>4. Rank(S, j) = n /\ Rank(S, i) = n
    BY <1>3, <2>1
  <2> QED
    BY <1>3, <2>3, <2>4
<1>5. n \in L
  BY <1>3, <1>2 DEF CxUpTo
<1>6. n \in CxMaybe
  BY <1>3 DEF CxMaybe
<1>7. u = [t EXCEPT !.search = n]
  OBVIOUS
<1> HIDE DEF n
<1>8. /\ u \in CxMade /\ CxSame(u, t) /\ u.prompt = t.prompt /\ u.output = t.output
      /\ u.prev = t.prev /\ u.usage = t.usage /\ u.calls = t.calls /\ u.search = n
  BY <1>1, <1>6, <1>7 DEF CxMade, CxSame
<1>9. CxSearchIds(u) = CxSearchIds(t)
  BY <1>8 DEF CxSearchIds
<1>10. /\ \A k \in CxSearchIds(t) : t.calls[k].id \in K
       /\ \A k, l \in CxSearchIds(t) : t.calls[k].id = t.calls[l].id => k = l
  BY <1>1 DEF CxSearched
<1>11. \A k \in CxSearchIds(t) : t.calls[k].id \in L
  <2>1. CxSearched(t, i)
    BY <1>1, CxSearchedStays
  <2> QED
    BY <2>1 DEF CxSearched
<1>12. CxSearched(u, i)
  <2> HIDE DEF K, i, L, S
  <2>1. /\ u.search \in L \cup {None}
        /\ \A k \in CxSearchIds(u) : u.calls[k].id \in L /\ u.calls[k].id # u.search
        /\ \A k, l \in CxSearchIds(u) : u.calls[k].id = u.calls[l].id => k = l
    BY <1>4, <1>5, <1>8, <1>9, <1>10, <1>11
  <2> QED
    BY <2>1 DEF CxSearched, L
<1>13. CxCounted(u, first, i) /\ CxCalled(u, first, i)
  BY <1>1, <1>2, <1>8, CxCountedStays, CxCalledStays
<1> QED
  BY <1>1, <1>8, <1>12, <1>13 DEF CxGot

(* An output goes to its call, if that is one of the turn.                 *)
LEMMA CxOutput ==
  ASSUME CxLog, NEW t, NEW first \in Nat \ {0}, NEW e \in Nat, CxGot(t, first, e), first <= e,
         e + 1 \in DOMAIN world, CxIs(e + 1, "output"), NEW u, u = Cx!AddOutput(t, e + 1, world[e + 1])
  PROVE  CxGot(u, first, e + 1) /\ CxSame(u, t)
<1> DEFINE i == e + 1
           n == world[i].of
           g(k) == IF ~t.calls[k].search /\ t.calls[k].id = n
                   THEN [t.calls[k] EXCEPT !.output = i] ELSE t.calls[k]
           y == [k \in DOMAIN t.calls |-> g(k)]
<1>1. /\ t \in CxMade /\ t.calls \in Seq(CxCalls) /\ first <= i
      /\ CxCounted(t, first, e) /\ CxCalled(t, first, e) /\ CxSearched(t, e)
      /\ (t.prompt = None \/ t.prompt \in first .. e) /\ (t.output = None \/ t.output \in first .. e)
  BY DEF CxGot, CxMade
<1>2. ~CxIs(i, "count") /\ ~CxIs(i, "call") /\ ~CxIs(i, "searchCall") /\ i \in Nat /\ i \in first .. i
  BY DEF CxIs
<1>3. Len(t.calls) \in Nat /\ DOMAIN t.calls = 1 .. Len(t.calls) /\ \A k \in DOMAIN t.calls : t.calls[k] \in CxCalls
  <2>1. \A S : \A q \in Seq(S) : \A k \in DOMAIN q : q[k] \in S
    OBVIOUS
  <2> QED
    BY <1>1, <2>1
<1>4. n \in Nat
  BY CxWorld DEF CxLog
<1>5. u = [t EXCEPT !.calls = y]
  BY DEF Cx!AddOutput
<1> HIDE DEF n, i
<1>6. ASSUME NEW k \in DOMAIN t.calls
      PROVE  /\ g(k) \in CxCalls /\ g(k).at = t.calls[k].at /\ g(k).search = t.calls[k].search
             /\ g(k).id = t.calls[k].id
             /\ g(k).output = IF ~t.calls[k].search /\ t.calls[k].id = n THEN i ELSE t.calls[k].output
  BY <1>2, <1>3 DEF CxCalls, CxMaybe
<1>7. DOMAIN y = DOMAIN t.calls /\ \A k \in DOMAIN t.calls : y[k] = g(k)
  OBVIOUS
<1>8. y \in Seq(CxCalls)
  <2>1. \A k \in 1 .. Len(t.calls) : g(k) \in CxCalls
    BY <1>3, <1>6
  <2>2. y = [k \in 1 .. Len(t.calls) |-> g(k)]
    BY <1>3
  <2> HIDE DEF g, y
  <2> QED
    BY <1>3, <2>1, <2>2
<1>9. /\ \A k \in DOMAIN t.calls : y[k].at = t.calls[k].at /\ y[k].search = t.calls[k].search
      /\ \A k \in DOMAIN t.calls : y[k].id = t.calls[k].id
      /\ \A k \in DOMAIN t.calls : ~t.calls[k].search /\ t.calls[k].id = n => y[k].output = i
      /\ \A k \in DOMAIN t.calls : ~(~t.calls[k].search /\ t.calls[k].id = n) => y[k].output = t.calls[k].output
  <2>1. \A k \in DOMAIN t.calls :
             /\ g(k).at = t.calls[k].at /\ g(k).search = t.calls[k].search
             /\ g(k).id = t.calls[k].id
             /\ g(k).output = IF ~t.calls[k].search /\ t.calls[k].id = n THEN i ELSE t.calls[k].output
    BY <1>6
  <2> HIDE DEF g, y
  <2> QED
    BY <1>7, <2>1
<1> HIDE DEF g, y
<1>10. /\ u \in CxMade /\ CxSame(u, t) /\ u.prompt = t.prompt /\ u.output = t.output
       /\ u.prev = t.prev /\ u.usage = t.usage /\ u.calls = y /\ u.search = t.search
  BY <1>1, <1>5, <1>8 DEF CxMade, CxSame
<1>11. /\ \A j \in first .. i : j \in first .. e \/ j = i
       /\ first .. e \subseteq first .. i
  BY DEF i
<1>12. CxIs(i, "output") /\ world[i].of = n /\ i # None
  BY <1>2, CxNothing DEF n, i
<1>13. ASSUME NEW k \in DOMAIN t.calls
       PROVE  CxCallAt(y[k], first, i)
  <2>1. CxCallAt(t.calls[k], first, e)
    BY <1>1 DEF CxCalled
  <2> DEFINE c == t.calls[k]
             d == y[k]
  <2>2. /\ d.at = c.at /\ d.search = c.search /\ d.id = c.id
        /\ ~c.search /\ c.id = n => d.output = i
        /\ ~(~c.search /\ c.id = n) => d.output = c.output
    BY <1>9
  <2> HIDE DEF c, d
  <2>3. CxCallAt(c, first, e)
    BY <2>1 DEF c
  <2>4. d.at \in first .. i /\ world[d.at].type = (IF d.search THEN "searchCall" ELSE "call")
    BY <1>11, <2>2, <2>3 DEF CxCallAt
  <2>5. ASSUME ~d.search
        PROVE  /\ d.id = d.at
               /\ IF d.output = None THEN \A j \in first .. i : CxIs(j, "output") => world[j].of # d.at
                  ELSE d.output \in first .. i /\ CxIs(d.output, "output") /\ world[d.output].of = d.at
    <3>1. /\ c.id = c.at
          /\ c.output = None => \A j \in first .. e : CxIs(j, "output") => world[j].of # c.at
          /\ c.output # None => c.output \in first .. e /\ CxIs(c.output, "output") /\ world[c.output].of = c.at
      BY <2>2, <2>3, <2>5 DEF CxCallAt
    <3>2. CASE c.id = n
      BY <1>2, <1>12, <2>2, <2>5, <3>1, <3>2
    <3>3. CASE c.id # n
      BY <1>11, <1>12, <2>2, <2>5, <3>1, <3>3
    <3> QED
      BY <3>2, <3>3
  <2>6. CxCallAt(d, first, i)
    BY <2>4, <2>5 DEF CxCallAt
  <2> QED
    BY <2>6 DEF d
<1>14. CxCalled(u, first, i)
  <2>1. \A j \in first .. i : CxIs(j, "call") \/ CxIs(j, "searchCall") => \E k \in DOMAIN y : y[k].at = j
    <3> SUFFICES ASSUME NEW j \in first .. i, CxIs(j, "call") \/ CxIs(j, "searchCall")
                 PROVE  \E k \in DOMAIN y : y[k].at = j
      OBVIOUS
    <3>1. j \in first .. e
      BY <1>2, <1>11
    <3>2. PICK k \in DOMAIN t.calls : t.calls[k].at = j
      BY <1>1, <3>1 DEF CxCalled
    <3> QED
      BY <1>7, <1>9, <3>2
  <2>2. \A k, l \in DOMAIN y : k < l => y[k].at < y[l].at
    BY <1>1, <1>7, <1>9 DEF CxCalled
  <2> QED
    BY <1>7, <1>10, <1>13, <2>1, <2>2 DEF CxCalled
<1>15. CxSearched(u, i)
  <2>1. CxSearched(t, i)
    BY <1>1, CxSearchedStays DEF i
  <2>2. CxSearchIds(u) = CxSearchIds(t) /\ \A k \in CxSearchIds(t) : u.calls[k].id = t.calls[k].id
    BY <1>7, <1>9, <1>10 DEF CxSearchIds
  <2> QED
    BY <1>10, <2>1, <2>2 DEF CxSearched
<1>16. CxCounted(u, first, i)
  BY <1>1, <1>2, <1>10, CxCountedStays DEF i
<1>17. (u.prompt = None \/ u.prompt \in first .. i) /\ (u.output = None \/ u.output \in first .. i)
  BY <1>1, <1>10, <1>11
<1> QED
  BY <1>10, <1>14, <1>15, <1>16, <1>17 DEF CxGot, i

-----------------------------------------------------------------------------
(* The walk                                                                *)

LEMMA CxInTurn ==
  ASSUME CxLog, NEW t, NEW first \in Nat \ {0}, NEW e \in Nat, CxGot(t, first, e), first <= e,
         e + 1 \in DOMAIN world, ~CxIs(e + 1, "start"), t.in, ~t.over,
         NEW turn, NEW u, u = Cx!AddRecord(t, e + 1, turn)
  PROVE  CxGot(u, first, e + 1) /\ CxSame(u, t)
<1> DEFINE r == world[e + 1]
<1>1. r.type \in CxTypes /\ r.type # "start"
  BY CxWorld DEF CxLog, CxIs
<1>2. CASE r.type \in {"prompt", "say", "complete"}
  <2>1. u = [t EXCEPT !.prompt = e + 1] \/ u = [t EXCEPT !.output = e + 1]
    BY <1>2 DEF Cx!AddRecord
  <2> QED
    BY <1>2, <2>1, CxTold
<1>3. CASE r.type = "count"
  <2>1. u = Cx!CountOnce(t, world[e + 1])
    BY <1>3 DEF Cx!AddRecord
  <2> QED
    BY <1>3, <2>1, CxTotalled DEF CxIs
<1>4. CASE r.type = "call"
  <2>1. u = Cx!AddCall(t, e + 1)
    BY <1>4 DEF Cx!AddRecord
  <2> QED
    BY <1>4, <2>1, CxCalling DEF CxIs
<1>5. CASE r.type = "output"
  <2>1. u = Cx!AddOutput(t, e + 1, world[e + 1])
    BY <1>5 DEF Cx!AddRecord
  <2> QED
    BY <1>5, <2>1, CxOutput DEF CxIs
<1>6. CASE r.type = "searchEnd"
  <2>1. u = [t EXCEPT !.search = world[e + 1].of]
    BY <1>6 DEF Cx!AddRecord
  <2> QED
    BY <1>6, <2>1, CxSearchedNext DEF CxIs
<1>7. CASE r.type = "searchCall"
  <2>1. u = Cx!AddSearch(t, e + 1)
    BY <1>7 DEF Cx!AddRecord
  <2> QED
    BY <1>7, <2>1, CxSearching DEF CxIs
<1> QED
  BY <1>1, <1>2, <1>3, <1>4, <1>5, <1>6, <1>7 DEF CxTypes

(* The walk stays with what it gathers.                                    *)
LEMMA CxAddIn ==
  ASSUME CxLog, NEW t \in CxMade, NEW i \in DOMAIN world, NEW turn
  PROVE  Cx!AddRecord(t, i, turn) \in CxMade
<1> DEFINE r == world[i]
           u == Cx!AddRecord(t, i, turn)
<1> SUFFICES u \in CxMade
  OBVIOUS
<1>1. r.type \in CxTypes /\ r.of \in Nat /\ i \in Nat
  BY CxWorld DEF CxLog
<1>2. t.calls \in Seq(CxCalls) /\ t.usage \in Seq(Nat) /\ t.number \in Nat /\ t.search \in CxMaybe
  BY DEF CxMade
<1>3. CASE t.over \/ (r.type # "start" /\ ~t.in)
  <2>1. u = t
    BY <1>3 DEF Cx!AddRecord
  <2> QED
    BY <2>1
<1>4. CASE ~t.over /\ r.type = "start"
  <2>1. u = [t EXCEPT !.over = TRUE] \/ u = [t EXCEPT !.number = @ + 1, !.in = (r.of = turn)]
    BY <1>4 DEF Cx!AddRecord, Cx!StartTurn
  <2>2. t.number + 1 \in Nat /\ (r.of = turn) \in BOOLEAN
    BY <1>2
  <2>3. CASE u = [t EXCEPT !.over = TRUE]
    BY <2>3 DEF CxMade
  <2>4. CASE u = [t EXCEPT !.number = @ + 1, !.in = (r.of = turn)]
    <3> DEFINE n == t.number + 1
               b == r.of = turn
    <3>1. u = [t EXCEPT !.number = n, !.in = b]
      BY <2>4 DEF CxMade
    <3>2. n \in Nat /\ b \in BOOLEAN
      BY <2>2
    <3> HIDE DEF n, b, u
    <3> QED
      BY <3>1, <3>2 DEF CxMade
  <2> QED
    BY <2>1, <2>3, <2>4
<1>5. CASE ~t.over /\ t.in /\ r.type \in {"prompt", "say", "complete"}
  <2>1. u = [t EXCEPT !.prompt = i] \/ u = [t EXCEPT !.output = i]
    BY <1>5 DEF Cx!AddRecord
  <2> QED
    BY <1>1, <2>1, CxSetText
<1>6. CASE ~t.over /\ t.in /\ r.type = "count"
  <2>1. u = t \/ u = [t EXCEPT !.usage = Append(@, r.of), !.prev = r.of]
    BY <1>6 DEF Cx!AddRecord, Cx!CountOnce
  <2> DEFINE y == Append(t.usage, r.of)
             n == r.of
  <2>2. y \in Seq(Nat) /\ n \in Nat
    BY <1>1, <1>2
  <2>3. u = t \/ u = [t EXCEPT !.usage = y, !.prev = n]
    BY <2>1 DEF CxMade
  <2> HIDE DEF y, n, u
  <2> QED
    BY <2>2, <2>3 DEF CxMade, CxMaybe
<1>7. CASE ~t.over /\ t.in /\ r.type = "call"
  <2> DEFINE c == [at |-> i, id |-> i, search |-> FALSE, output |-> None]
             y == Append(t.calls, c)
  <2>1. u = [t EXCEPT !.calls = y]
    BY <1>7 DEF Cx!AddRecord, Cx!AddCall
  <2>2. c \in CxCalls
    BY <1>1 DEF CxCalls, CxMaybe
  <2> HIDE DEF c
  <2>3. y \in Seq(CxCalls)
    BY <1>2, <2>2
  <2> HIDE DEF y, u
  <2> QED
    BY <2>1, <2>3 DEF CxMade
<1>8. CASE ~t.over /\ t.in /\ r.type = "output"
  <2> DEFINE n == r.of
             g(k) == IF ~t.calls[k].search /\ t.calls[k].id = n
                     THEN [t.calls[k] EXCEPT !.output = i] ELSE t.calls[k]
             y == [k \in DOMAIN t.calls |-> g(k)]
  <2>1. u = [t EXCEPT !.calls = y]
    BY <1>8 DEF Cx!AddRecord, Cx!AddOutput
  <2>2. Len(t.calls) \in Nat /\ DOMAIN t.calls = 1 .. Len(t.calls) /\ \A k \in DOMAIN t.calls : t.calls[k] \in CxCalls
    <3>1. \A S : \A q \in Seq(S) : \A k \in DOMAIN q : q[k] \in S
      OBVIOUS
    <3> QED
      BY <1>2, <3>1
  <2> HIDE DEF n
  <2>3. \A k \in DOMAIN t.calls : g(k) \in CxCalls
    BY <1>1, <2>2 DEF CxCalls, CxMaybe
  <2>4. y \in Seq(CxCalls)
    <3>1. y = [k \in 1 .. Len(t.calls) |-> g(k)]
      BY <2>2
    <3>2. \A k \in 1 .. Len(t.calls) : g(k) \in CxCalls
      BY <2>2, <2>3
    <3> HIDE DEF y, g
    <3> QED
      BY <2>2, <3>1, <3>2
  <2> HIDE DEF y, u
  <2> QED
    BY <2>1, <2>4 DEF CxMade
<1>9. CASE ~t.over /\ t.in /\ r.type = "searchEnd"
  <2>1. u = [t EXCEPT !.search = r.of]
    BY <1>9 DEF Cx!AddRecord
  <2>2. r.of \in CxMaybe
    BY <1>1 DEF CxMaybe
  <2> HIDE DEF u, r
  <2> QED
    BY <2>1, <2>2 DEF CxMade
<1>10. CASE ~t.over /\ t.in /\ r.type = "searchCall"
  <2> DEFINE c == [at |-> i, id |-> t.search, search |-> TRUE, output |-> i]
             y == Append(t.calls, c)
  <2>1. u = [t EXCEPT !.calls = y, !.search = None]
    BY <1>10 DEF Cx!AddRecord, Cx!AddSearch
  <2>2. c \in CxCalls
    BY <1>1, <1>2 DEF CxCalls, CxMaybe
  <2> HIDE DEF c
  <2>3. y \in Seq(CxCalls)
    BY <1>2, <2>2
  <2> HIDE DEF y, u
  <2> QED
    BY <2>1, <2>3 DEF CxMade, CxMaybe
<1> QED
  BY <1>1, <1>3, <1>4, <1>5, <1>6, <1>7, <1>8, <1>9, <1>10 DEF CxTypes

(* One start more.                                                         *)
LEMMA CxStarted ==
  ASSUME CxLog, NEW e \in Nat, e + 1 \in DOMAIN world
  PROVE  /\ Cardinality(CxUpTo("start", e)) \in Nat
         /\ CxIs(e + 1, "start") =>
              /\ Cardinality(CxUpTo("start", e + 1)) = Cardinality(CxUpTo("start", e)) + 1
              /\ world[e + 1].of = Cardinality(CxUpTo("start", e + 1))
         /\ ~CxIs(e + 1, "start") => CxUpTo("start", e + 1) = CxUpTo("start", e)
         /\ \A i \in CxUpTo("start", e + 1) : i \in CxUpTo("start", e) \/ i = e + 1
<1> DEFINE S == Cx!Of("start")
<1>1. /\ Len(world) \in Nat /\ S \in SUBSET (1 .. Len(world))
      /\ \A i : i \in S <=> i \in DOMAIN world /\ CxIs(i, "start")
  BY CxWorld DEF CxLog
<1>2. \A i \in S : i <= e + 1 <=> (i <= e \/ i = e + 1)
  BY <1>1
<1>3. \A i : i \in CxUpTo("start", e + 1) <=> i \in CxUpTo("start", e) \/ (i = e + 1 /\ i \in S)
  BY <1>2 DEF CxUpTo
<1>4. CxUpTo("start", e) \in SUBSET (1 .. Len(world)) /\ e + 1 \notin CxUpTo("start", e)
  BY <1>1 DEF CxUpTo
<1>5. IsFiniteSet(CxUpTo("start", e)) /\ Cardinality(CxUpTo("start", e)) \in Nat
  BY <1>1, <1>4, SubsetOfInterval
<1>6. ASSUME CxIs(e + 1, "start")
      PROVE  /\ Cardinality(CxUpTo("start", e + 1)) = Cardinality(CxUpTo("start", e)) + 1
             /\ world[e + 1].of = Cardinality(CxUpTo("start", e + 1))
  <2>1. CxUpTo("start", e + 1) = CxUpTo("start", e) \cup {e + 1}
    BY <1>1, <1>3, <1>6
  <2>2. Cardinality(CxUpTo("start", e + 1)) = Cardinality(CxUpTo("start", e)) + 1
    BY <1>4, <1>5, <2>1, FS_AddElement
  <2>3. e + 1 \in S
    BY <1>1, <1>6
  <2>4. world[e + 1].of = Rank(S, e + 1)
    BY <2>3 DEF CxLog
  <2> QED
    BY <2>2, <2>4 DEF Rank, CxUpTo
<1>7. ASSUME ~CxIs(e + 1, "start")
      PROVE  CxUpTo("start", e + 1) = CxUpTo("start", e)
  BY <1>1, <1>3, <1>7
<1> QED
  BY <1>3, <1>5, <1>6, <1>7

LEMMA CxWalks ==
  ASSUME CxLog, NEW turn, NEW i \in DOMAIN world, NEW t, CxWalk(t, turn, i - 1),
         NEW u, u = Cx!AddRecord(t, i, turn)
  PROVE  CxWalk(u, turn, i)
<1> DEFINE C(n) == Cardinality(CxUpTo("start", n))
<1>1. i \in Nat /\ i - 1 \in Nat /\ (i - 1) + 1 = i /\ i >= 1 /\ world[i].of \in Nat
  <2>1. Len(world) \in Nat /\ DOMAIN world = 1 .. Len(world) /\ world[i].of \in Nat
    BY CxWorld DEF CxLog
  <2> QED
    BY <2>1
<1>2. /\ C(i - 1) \in Nat
      /\ CxIs(i, "start") => C(i) = C(i - 1) + 1 /\ world[i].of = C(i)
      /\ ~CxIs(i, "start") => CxUpTo("start", i) = CxUpTo("start", i - 1)
      /\ \A j \in CxUpTo("start", i) : j \in CxUpTo("start", i - 1) \/ j = i
  BY <1>1, CxStarted
<1> HIDE DEF C
<1>3. ASSUME t = [Cx!Nothing EXCEPT !.number = C(i - 1)], \A j \in CxUpTo("start", i - 1) : world[j].of # turn
      PROVE  CxWalk(u, turn, i)
  <2>1. t = [in |-> FALSE, over |-> FALSE, number |-> C(i - 1), prompt |-> None, output |-> None,
             prev |-> None, usage |-> <<>>, calls |-> <<>>, search |-> None]
    BY <1>3, CxNothing
  <2>2. CASE ~CxIs(i, "start")
    <3>1. u = t
      BY <2>1, <2>2 DEF Cx!AddRecord, CxIs
    <3>2. CxUpTo("start", i) = CxUpTo("start", i - 1) /\ C(i) = C(i - 1)
      BY <1>2, <2>2 DEF C
    <3> QED
      BY <1>3, <3>1, <3>2 DEF CxWalk, C
  <2>3. CASE CxIs(i, "start")
    <3> DEFINE b == world[i].of = turn
    <3>1. u = [t EXCEPT !.number = C(i - 1) + 1, !.in = b]
      BY <2>1, <2>3 DEF Cx!AddRecord, Cx!StartTurn, CxIs
    <3>2. b \in BOOLEAN
      OBVIOUS
    <3>3. b <=> world[i].of = turn
      OBVIOUS
    <3> HIDE DEF b
    <3>4. u = [in |-> b, over |-> FALSE, number |-> C(i), prompt |-> None, output |-> None,
               prev |-> None, usage |-> <<>>, calls |-> <<>>, search |-> None]
      BY <1>2, <2>1, <2>3, <3>1
    <3>5. CASE b
      <4>1. world[i].of = turn /\ C(i) = turn /\ C(i) \in Nat
        BY <1>1, <1>2, <2>3, <3>3, <3>5
      <4>2. u \in CxMade
        <5>1. <<>> \in Seq(Nat) /\ <<>> \in Seq(CxCalls)
          OBVIOUS
        <5> QED
          BY <3>2, <3>4, <4>1, <5>1 DEF CxMade, CxMaybe
      <4>3. /\ u.in /\ ~u.over /\ u.number = turn /\ u.prompt = None /\ u.output = None /\ u.prev = None
            /\ u.usage = <<>> /\ u.calls = <<>> /\ u.search = None
        BY <3>4, <3>5, <4>1
      <4>4. i .. i = {i} /\ i + 1 .. i = {}
        BY <1>1
      <4>5. ~CxIs(i, "count") /\ ~CxIs(i, "call") /\ ~CxIs(i, "searchCall")
        BY <2>3 DEF CxIs
      <4>6. DOMAIN <<>> = {}
        OBVIOUS
      <4>7. CxCounted(u, i, i)
        <5>1. {u.usage[k] : k \in DOMAIN u.usage} = {}
          BY <4>3, <4>6
        <5>2. {j \in i .. i : CxIs(j, "count")} = {}
          BY <4>4, <4>5
        <5>3. {world[l].of : l \in {j \in i .. i : CxIs(j, "count")}} = {}
          BY <5>2
        <5> QED
          BY <4>3, <4>4, <4>5, <4>6, <5>1, <5>3 DEF CxCounted
      <4>8. CxCalled(u, i, i)
        BY <4>3, <4>4, <4>5, <4>6 DEF CxCalled
      <4>9. CxSearched(u, i)
        BY <4>3, <4>6 DEF CxSearched, CxSearchIds
      <4>10. CxGot(u, i, i)
        BY <4>2, <4>3, <4>7, <4>8, <4>9 DEF CxGot
      <4>11. CxTurn(turn, i, i)
        BY <2>3, <4>1, <4>4 DEF CxTurn
      <4>12. i \in 1 .. i /\ i \in i .. i
        BY <1>1
      <4> QED
        BY <4>3, <4>10, <4>11, <4>12 DEF CxWalk
    <3>6. CASE ~b
      <4>1. u = [Cx!Nothing EXCEPT !.number = C(i)]
        <5>1. b = FALSE
          BY <3>2, <3>6
        <5> QED
          BY <3>4, <5>1, CxNothing
      <4>2. \A j \in CxUpTo("start", i) : world[j].of # turn
        BY <1>2, <1>3, <3>3, <3>6
      <4> QED
        BY <4>1, <4>2 DEF CxWalk, C
    <3> QED
      BY <3>5, <3>6
  <2> QED
    BY <2>2, <2>3
<1>4. ASSUME NEW first \in 1 .. i - 1, NEW e \in first .. i - 1, t.in, t.number = turn, CxTurn(turn, first, e),
             CxGot(t, first, e), IF t.over THEN e + 1 <= i - 1 /\ CxIs(e + 1, "start") ELSE e = i - 1
      PROVE  CxWalk(u, turn, i)
  <2>1. /\ first \in Nat \ {0} /\ e \in Nat /\ first <= e /\ first \in 1 .. i /\ e \in first .. i
        /\ i \in first .. i
    BY <1>1, <1>4
  <2>2. CASE t.over
    <3>1. u = t
      BY <2>2 DEF Cx!AddRecord
    <3>2. e + 1 <= i /\ CxIs(e + 1, "start")
      BY <1>1, <1>4, <2>1, <2>2
    <3> QED
      BY <1>4, <2>1, <2>2, <3>1, <3>2 DEF CxWalk
  <2>3. CASE ~t.over /\ CxIs(i, "start")
    <3>1. u = [t EXCEPT !.over = TRUE]
      BY <1>4, <2>3 DEF Cx!AddRecord, Cx!StartTurn, CxIs
    <3>2. t \in CxMade
      BY <1>4 DEF CxGot
    <3>3. /\ u \in CxMade /\ u.in = t.in /\ u.over /\ u.number = t.number /\ u.prompt = t.prompt
          /\ u.output = t.output /\ u.prev = t.prev /\ u.usage = t.usage /\ u.calls = t.calls
          /\ u.search = t.search
      BY <3>1, <3>2 DEF CxMade
    <3>4. CxGot(u, first, e)
      <4>1. CxSearchIds(u) = CxSearchIds(t)
        BY <3>3 DEF CxSearchIds
      <4>2. CxCounted(t, first, e) /\ CxCalled(t, first, e) /\ CxSearched(t, e)
        BY <1>4 DEF CxGot
      <4>3. CxCounted(u, first, e)
        BY <3>3, <4>2 DEF CxCounted
      <4>4. CxCalled(u, first, e)
        BY <3>3, <4>2 DEF CxCalled
      <4>5. CxSearched(u, e)
        BY <3>3, <4>1, <4>2 DEF CxSearched
      <4> QED
        BY <1>4, <3>3, <4>3, <4>4, <4>5 DEF CxGot
    <3>5. e + 1 <= i /\ CxIs(e + 1, "start")
      BY <1>1, <1>4, <2>3
    <3> QED
      BY <1>4, <2>1, <3>3, <3>4, <3>5 DEF CxWalk
  <2>4. CASE ~t.over /\ ~CxIs(i, "start")
    <3>1. e + 1 = i
      BY <1>1, <1>4, <2>4
    <3>2. e + 1 \in DOMAIN world /\ ~CxIs(e + 1, "start") /\ u = Cx!AddRecord(t, e + 1, turn)
      BY <2>4, <3>1
    <3>3. CxGot(u, first, e + 1) /\ CxSame(u, t)
      BY <1>4, <2>1, <2>4, <3>2, CxInTurn
    <3>4. CxGot(u, first, i)
      BY <3>1, <3>3
    <3>5. CxTurn(turn, first, i)
      <4>1. \A j \in first + 1 .. i : j \in first + 1 .. e \/ j = i
        BY <1>1, <2>1, <3>1
      <4> QED
        BY <1>4, <2>4, <4>1 DEF CxTurn
    <3>6. u.in /\ ~u.over /\ u.number = turn
      BY <1>4, <2>4, <3>3 DEF CxSame
    <3> QED
      BY <2>1, <3>4, <3>5, <3>6 DEF CxWalk
  <2> QED
    BY <2>2, <2>3, <2>4
<1> QED
  BY <1>3, <1>4 DEF CxWalk, C

LEMMA CxExtracted ==
  ASSUME CxLog, NEW turn, Cx!Extract(turn).in
  PROVE  CxFound(Cx!Extract(turn), turn, Len(world))
<1> DEFINE m == Len(world)
           W == Cx!Gathered(turn)
           b == Cx!Nothing
           g == [p \in CxMade \X (1 .. m) |-> Cx!AddRecord(p[1], p[2], turn)]
<1>1. m \in Nat /\ DOMAIN world = 1 .. m
  BY CxWorld DEF CxLog
<1>2. b \in CxMade
  <2>1. <<>> \in Seq(Nat) /\ <<>> \in Seq(CxCalls)
    OBVIOUS
  <2> QED
    BY <2>1, CxNothing DEF CxMade, CxMaybe
<1>3. \A t \in CxMade : \A n \in 1 .. m : Cx!AddRecord(t, n, turn) \in CxMade
  BY <1>1, CxAddIn
<1> HIDE DEF m, b
<1>4. /\ g \in [CxMade \X (1 .. m) -> CxMade]
      /\ \A t \in CxMade : \A n \in 1 .. m : g[<<t, n>>] = Cx!AddRecord(t, n, turn)
  BY <1>3
<1> HIDE DEF g
<1>5. PICK f \in [0 .. m -> CxMade] : Follows(f, b, g, m)
  BY <1>1, <1>2, <1>4, Recursion
<1>6. f = [n \in 0 .. m |-> IF n = 0 THEN b ELSE Cx!AddRecord(f[n - 1], n, turn)]
  <2>1. ASSUME NEW n \in 0 .. m
        PROVE  f[n] = IF n = 0 THEN b ELSE Cx!AddRecord(f[n - 1], n, turn)
    <3>1. n # 0 => n \in 1 .. m /\ n - 1 \in 0 .. m
      BY <1>1
    <3> QED
      BY <1>4, <1>5, <3>1 DEF Follows
  <2>2. f = [n \in 0 .. m |-> f[n]]
    OBVIOUS
  <2> QED
    BY <2>1, <2>2
<1>7. W = [n \in 0 .. m |-> IF n = 0 THEN b ELSE Cx!AddRecord(W[n - 1], n, turn)]
  BY <1>6 DEF Cx!Gathered, m, b
<1> HIDE DEF W
<1> DEFINE T == {n \in 0 .. m : CxWalk(W[n], turn, n)}
<1>8. 0 \in T
  <2>0. 0 \in 0 .. m
    BY <1>1
  <2>1. W[0] = b
    BY <1>7, <2>0
  <2>2. CxUpTo("start", 0) = {}
    <3>1. Cx!Of("start") \in SUBSET (1 .. Len(world))
      BY CxWorld DEF CxLog
    <3> QED
      BY <3>1 DEF CxUpTo
  <2>3. Cardinality(CxUpTo("start", 0)) = 0
    BY <2>2, FS_EmptySet
  <2>4. b = [Cx!Nothing EXCEPT !.number = 0]
    <3>1. Cx!Nothing = [Cx!Nothing EXCEPT !.number = 0]
      BY CxNothing
    <3> QED
      BY <3>1 DEF b
  <2>5. CxWalk(b, turn, 0)
    BY <2>2, <2>3, <2>4 DEF CxWalk
  <2> QED
    BY <2>0, <2>1, <2>5
<1>9. ASSUME NEW n \in 1 .. m, n - 1 \in T
      PROVE  n \in T
  <2>1. n \in DOMAIN world /\ n \in 0 .. m /\ n # 0 /\ W[n] = Cx!AddRecord(W[n - 1], n, turn)
    BY <1>1, <1>7
  <2>2. CxWalk(W[n - 1], turn, n - 1)
    BY <1>9
  <2>3. CxWalk(W[n], turn, n)
    BY <2>1, <2>2, CxWalks
  <2> QED
    BY <2>1, <2>3
<1>10. T = 0 .. m
  <2>1. T \in SUBSET (0 .. m)
    OBVIOUS
  <2> HIDE DEF T
  <2> QED
    BY <1>1, <1>8, <1>9, <2>1, UpTo
<1>11. CxWalk(W[m], turn, m)
  <2>1. m \in T
    <3>1. m \in 0 .. m
      BY <1>1
    <3> HIDE DEF T
    <3> QED
      BY <1>10, <3>1
  <2> QED
    BY <2>1
<1>12. Cx!Extract(turn) = W[m]
  BY DEF Cx!Extract, W, m
<1>13. CxFound(W[m], turn, m)
  <2>1. W[m].in
    BY <1>12
  <2>2. W[m] # [Cx!Nothing EXCEPT !.number = Cardinality(CxUpTo("start", m))]
    BY <2>1, CxNothing
  <2>3. PICK first \in 1 .. m : \E e \in first .. m :
          /\ W[m].in /\ W[m].number = turn /\ CxTurn(turn, first, e) /\ CxGot(W[m], first, e)
          /\ IF W[m].over THEN e + 1 <= m /\ CxIs(e + 1, "start") ELSE e = m
    BY <1>11, <2>2 DEF CxWalk
  <2>4. m \in DOMAIN world
    BY <1>1, <2>3
  <2> QED
    BY <2>3, <2>4 DEF CxFound
<1> QED
  BY <1>12, <1>13 DEF m

-----------------------------------------------------------------------------
(* The rollout grows                                                       *)

LEMMA CxStaysFound ==
  ASSUME DOMAIN world \subseteq DOMAIN world', \A i \in DOMAIN world : world'[i] = world[i], CxLog,
         NEW t, NEW turn, NEW seen, CxFound(t, turn, seen)
  PROVE  CxFound(t, turn, seen)'
<1>0. Len(world) \in Nat /\ DOMAIN world = 1 .. Len(world) /\ seen \in DOMAIN world
  BY CxWorld DEF CxLog, CxFound
<1>a. PICK first \in 1 .. seen : \E e \in first .. seen :
        /\ t.number = turn /\ CxTurn(turn, first, e) /\ CxGot(t, first, e)
        /\ e # seen => CxIs(e + 1, "start")
  BY DEF CxFound
<1>1. PICK e \in first .. seen :
        /\ t.number = turn /\ CxTurn(turn, first, e) /\ CxGot(t, first, e)
        /\ e # seen => CxIs(e + 1, "start")
  BY <1>a
<1>2. /\ 1 .. seen \subseteq DOMAIN world /\ first .. e \subseteq 1 .. seen /\ first + 1 .. e \subseteq 1 .. seen
      /\ (e # seen => e + 1 \in 1 .. seen) /\ first \in 1 .. seen
  BY <1>0
<1>3. /\ \A i \in 1 .. seen : world'[i] = world[i]
      /\ \A i \in 1 .. seen : \A type : CxIs(i, type)' <=> CxIs(i, type)
  BY <1>2 DEF CxIs
<1>4. CxTurn(turn, first, e)'
  BY <1>1, <1>2, <1>3 DEF CxTurn
<1>5. \A i \in first .. e : world'[i] = world[i] /\ \A type : CxIs(i, type)' <=> CxIs(i, type)
  BY <1>2, <1>3
<1>6. CxCounted(t, first, e)'
  <2>1. CxCounted(t, first, e)
    BY <1>1 DEF CxGot
  <2> DEFINE I == {j \in first .. e : CxIs(j, "count")}
  <2>2. I' = I
    BY <1>5
  <2>3. \A i \in I : world'[i].of = world[i].of
    BY <1>5
  <2>4. {world'[i].of : i \in I} = {world[i].of : i \in I}
    BY <2>3
  <2>5. {world[i].of : i \in I}' = {world[i].of : i \in I}
    BY <2>2, <2>4
  <2> QED
    BY <1>5, <2>1, <2>5 DEF CxCounted
<1>7. CxCalled(t, first, e)'
  <2>1. \A c : CxCallAt(c, first, e) => CxCallAt(c, first, e)'
    BY <1>5 DEF CxCallAt
  <2>2. CxCalled(t, first, e)
    BY <1>1 DEF CxGot
  <2>3. \A k \in DOMAIN t.calls : CxCallAt(t.calls[k], first, e)'
    BY <2>1, <2>2 DEF CxCalled
  <2> QED
    BY <1>5, <2>2, <2>3 DEF CxCalled
<1>8. CxSearched(t, e)'
  <2>1. CxSearched(t, e)
    BY <1>1 DEF CxGot
  <2> DEFINE K == {world[i].of : i \in CxUpTo("searchEnd", e)}
  <2>2. K \subseteq K'
    <3>1. \A i \in CxUpTo("searchEnd", e) : i \in CxUpTo("searchEnd", e)' /\ world'[i] = world[i]
      <4> TAKE i \in CxUpTo("searchEnd", e)
      <4>1. i \in DOMAIN world /\ CxIs(i, "searchEnd") /\ i <= e
        BY CxWorld DEF CxUpTo, CxLog
      <4>2. world'[i] = world[i] /\ i \in DOMAIN world'
        BY <4>1
      <4> QED
        BY <4>1, <4>2 DEF CxUpTo, Cx!Of, CxIs
    <3> QED
      BY <3>1
  <2> HIDE DEF K
  <2>3. /\ t.search \in K \cup {None}
        /\ \A k \in CxSearchIds(t) : t.calls[k].id \in K /\ t.calls[k].id # t.search
        /\ \A k, l \in CxSearchIds(t) : t.calls[k].id = t.calls[l].id => k = l
    BY <2>1 DEF CxSearched, K
  <2>4. /\ t.search \in K' \cup {None}
        /\ \A k \in CxSearchIds(t) : t.calls[k].id \in K' /\ t.calls[k].id # t.search
        /\ \A k, l \in CxSearchIds(t) : t.calls[k].id = t.calls[l].id => k = l
    BY <2>2, <2>3
  <2> QED
    BY <2>4 DEF CxSearched, CxSearchIds, K
<1>9. CxGot(t, first, e)'
  BY <1>1, <1>6, <1>7, <1>8 DEF CxGot
<1>10. e # seen => CxIs(e + 1, "start")'
  BY <1>1, <1>2, <1>3
<1> QED
  BY <1>0, <1>1, <1>4, <1>9, <1>10 DEF CxFound

LEMMA CxNumbers ==
  ASSUME NEW m \in Nat, NEW S \in SUBSET (1 .. m)
  PROVE  /\ Rank(S \cup {m + 1}, m + 1) = Cardinality(S) + 1 /\ Cardinality(S) \in Nat
         /\ \A i \in S : Rank(S \cup {m + 1}, i) = Rank(S, i)
<1>1. IsFiniteSet(S) /\ Cardinality(S) \in Nat
  BY SubsetOfInterval
<1>2. {j \in S \cup {m + 1} : j <= m + 1} = S \cup {m + 1} /\ m + 1 \notin S
  <2>1. \A j \in S : j \in Nat /\ j <= m /\ j <= m + 1
    OBVIOUS
  <2>2. m + 1 <= m + 1 /\ ~(m + 1 <= m)
    OBVIOUS
  <2> QED
    BY <2>1, <2>2
<1>3. Cardinality(S \cup {m + 1}) = Cardinality(S) + 1
  BY <1>1, <1>2, FS_AddElement
<1>4. ASSUME NEW i \in S
      PROVE  Rank(S \cup {m + 1}, i) = Rank(S, i)
  <2>1. {j \in S \cup {m + 1} : j <= i} = {j \in S : j <= i}
    OBVIOUS
  <2> QED
    BY <2>1 DEF Rank
<1> QED
  BY <1>1, <1>2, <1>3, <1>4 DEF Rank

LEMMA CxNextRecord ==
  ASSUME CxLog, NEW r \in Cx!NextRecords
  PROVE  /\ r \in CxRecords
         /\ r.type = "start" => r.of = Cardinality(Cx!Of("start")) + 1
         /\ r.type = "searchEnd" => r.of = Cardinality(Cx!Of("searchEnd")) + 1
         /\ r.type = "output" => r.of <= Len(world)
         /\ r.type = "count" => \E M \in Nat : {world[i].of : i \in Cx!Of("count")} = 1 .. M /\ r.of \in {M, M + 1} /\ r.of > 0
<1>1. \A type : Cx!Of(type) \in SUBSET (1 .. Len(world))
  BY CxWorld DEF CxLog
<1>2. Len(world) \in Nat
  BY CxWorld DEF CxLog
<1>3. \A type : Cardinality(Cx!Of(type)) \in Nat
  BY <1>1, <1>2, SubsetOfInterval
<1>4. PICK M \in Nat : {world[i].of : i \in Cx!Of("count")} = 1 .. M
  BY DEF CxLog
<1>5. Cx!ModelCalls = M
  <2>1. Cardinality(1 .. M) = M
    <3>1. 1 \in Int /\ M \in Int /\ M - 1 + 1 = M /\ (1 > M => M = 0)
      OBVIOUS
    <3> QED
      BY <3>1, FS_Interval
  <2> QED
    BY <1>4, <2>1, CxCardinality DEF Cx!ModelCalls
<1>6. Cx!Turns = Cardinality(Cx!Of("start")) /\ Cx!Searches = Cardinality(Cx!Of("searchEnd"))
  BY CxCardinality DEF Cx!Turns, Cx!Searches
<1>7. \A type, of : Cx!Rec(type, of).type = type /\ Cx!Rec(type, of).of = of
  BY DEF Cx!Rec
<1>8. \A type \in CxTypes : \A of \in Nat : Cx!Rec(type, of) \in CxRecords
  BY DEF Cx!Rec, CxRecords
<1>9. \E type \in CxTypes : \E of \in Nat :
        /\ r = Cx!Rec(type, of)
        /\ type = "start" => of = Cx!Turns + 1
        /\ type = "searchEnd" => of = Cx!Searches + 1
        /\ type = "output" => of \in Cx!Of("call")
        /\ type = "count" => of \in {Cx!ModelCalls, Cx!ModelCalls + 1} /\ of > 0
  <2>0. Cx!Turns + 1 \in Nat /\ Cx!Searches + 1 \in Nat /\ Cx!ModelCalls \in Nat /\ Cx!ModelCalls + 1 \in Nat
        /\ Cx!ModelCalls + 1 > 0
    BY <1>3, <1>5, <1>6
  <2>1. CASE r = Cx!Rec("start", Cx!Turns + 1)
    BY <2>0, <2>1 DEF CxTypes
  <2>2. ASSUME NEW type \in {"prompt", "say", "complete", "call"}, r = Cx!Rec(type, 0)
        PROVE  \E ty \in CxTypes : \E of \in Nat :
                 /\ r = Cx!Rec(ty, of)
                 /\ ty \notin {"start", "searchEnd", "output", "count"}
    BY <2>2 DEF CxTypes
  <2>3. CASE r = Cx!Rec("count", Cx!ModelCalls + 1)
    BY <2>0, <2>3 DEF CxTypes
  <2>4. CASE r = Cx!Rec("searchEnd", Cx!Searches + 1)
    BY <2>0, <2>4 DEF CxTypes
  <2>5. ASSUME NEW s \in 1 .. Cx!Searches, r = Cx!Rec("searchCall", s)
        PROVE  \E ty \in CxTypes : \E of \in Nat :
                 /\ r = Cx!Rec(ty, of)
                 /\ ty \notin {"start", "searchEnd", "output", "count"}
    <3>1. s \in Nat
      BY <1>3, <1>6
    <3> QED
      BY <2>5, <3>1 DEF CxTypes
  <2>6. ASSUME NEW c \in Cx!Of("call"), r = Cx!Rec("output", c)
        PROVE  \E of \in Nat : r = Cx!Rec("output", of) /\ of \in Cx!Of("call")
    <3>1. c \in Nat
      BY <1>1
    <3> QED
      BY <2>6, <3>1
  <2>7. CASE Cx!ModelCalls > 0 /\ r = Cx!Rec("count", Cx!ModelCalls)
    BY <2>0, <2>7 DEF CxTypes
  <2>8. \/ r = Cx!Rec("start", Cx!Turns + 1)
        \/ \E type \in {"prompt", "say", "complete", "call"} : r = Cx!Rec(type, 0)
        \/ r = Cx!Rec("count", Cx!ModelCalls + 1)
        \/ r = Cx!Rec("searchEnd", Cx!Searches + 1)
        \/ \E s \in 1 .. Cx!Searches : r = Cx!Rec("searchCall", s)
        \/ \E c \in Cx!Of("call") : r = Cx!Rec("output", c)
        \/ Cx!ModelCalls > 0 /\ r = Cx!Rec("count", Cx!ModelCalls)
    <3>1. r \in Cx!TurnRecords =>
        \/ \E type \in {"prompt", "say", "complete", "call"} : r = Cx!Rec(type, 0)
        \/ r = Cx!Rec("count", Cx!ModelCalls + 1)
        \/ r = Cx!Rec("searchEnd", Cx!Searches + 1)
        \/ \E s \in 1 .. Cx!Searches : r = Cx!Rec("searchCall", s)
      BY DEF Cx!TurnRecords
    <3>2. r \in Cx!LateRecords =>
        \/ \E c \in Cx!Of("call") : r = Cx!Rec("output", c)
        \/ Cx!ModelCalls > 0 /\ r = Cx!Rec("count", Cx!ModelCalls)
      BY DEF Cx!LateRecords
    <3>3. \/ r = Cx!Rec("start", Cx!Turns + 1)
          \/ r \in Cx!TurnRecords
          \/ r \in Cx!LateRecords
      BY DEF Cx!NextRecords
    <3> QED
      BY <3>1, <3>2, <3>3
  <2> QED
    BY <2>1, <2>2, <2>3, <2>4, <2>5, <2>6, <2>7, <2>8 DEF CxTypes
<1>10. PICK type \in CxTypes, of \in Nat :
        /\ r = Cx!Rec(type, of)
        /\ type = "start" => of = Cx!Turns + 1
        /\ type = "searchEnd" => of = Cx!Searches + 1
        /\ type = "output" => of \in Cx!Of("call")
        /\ type = "count" => of \in {Cx!ModelCalls, Cx!ModelCalls + 1} /\ of > 0
  BY <1>9
<1>11. r.type = type /\ r.of = of /\ r \in CxRecords
  BY <1>7, <1>8, <1>10
<1>12. type = "output" => of <= Len(world)
  BY <1>1, <1>2, <1>10
<1> QED
  BY <1>4, <1>5, <1>6, <1>10, <1>11, <1>12

LEMMA CxLogGrows ==
  ASSUME CxLog, Cx!Record
  PROVE  /\ CxLog' /\ DOMAIN world \subseteq DOMAIN world'
         /\ \A i \in DOMAIN world : world'[i] = world[i]
<1> DEFINE m == Len(world)
<1>1. PICK r \in Cx!NextRecords : world' = Append(world, r)
  BY DEF Cx!Record
<1>2. /\ m \in Nat /\ DOMAIN world = 1 .. m /\ world \in Seq(CxRecords)
      /\ \A type : Cx!Of(type) \in SUBSET (1 .. m)
      /\ \A i \in DOMAIN world : world[i].type \in CxTypes /\ world[i].of \in Nat /\ i \in Nat
  BY CxWorld DEF CxLog
<1>3. /\ r \in CxRecords
      /\ r.type = "start" => r.of = Cardinality(Cx!Of("start")) + 1
      /\ r.type = "searchEnd" => r.of = Cardinality(Cx!Of("searchEnd")) + 1
      /\ r.type = "output" => r.of <= m
      /\ r.type = "count" => \E M \in Nat : {world[i].of : i \in Cx!Of("count")} = 1 .. M /\ r.of \in {M, M + 1} /\ r.of > 0
  BY <1>1, CxNextRecord
<1>4. /\ world' \in Seq(CxRecords) /\ DOMAIN world' = 1 .. m + 1 /\ world'[m + 1] = r
      /\ \A i \in 1 .. m : world'[i] = world[i]
  BY <1>1, <1>2, <1>3
<1>5. /\ \A i \in 1 .. m + 1 : i \in 1 .. m \/ i = m + 1
      /\ 1 .. m \subseteq 1 .. m + 1 /\ m + 1 \in 1 .. m + 1
      /\ \A i \in 1 .. m : i < m + 1
      /\ m + 1 \notin 1 .. m
  BY <1>2
<1>6. \A type : \A i : i \in Cx!Of(type)' <=> i \in Cx!Of(type) \/ (i = m + 1 /\ r.type = type)
  <2> TAKE type
  <2> TAKE i
  <2>1. i \in Cx!Of(type)' <=> i \in 1 .. m + 1 /\ world'[i].type = type
    BY <1>4 DEF Cx!Of
  <2>2. i \in Cx!Of(type) <=> i \in 1 .. m /\ world[i].type = type
    BY <1>2 DEF Cx!Of
  <2> QED
    BY <1>4, <1>5, <2>1, <2>2
<1>7. ASSUME NEW type, r.type # type
      PROVE  Cx!Of(type)' = Cx!Of(type)
  <2>1. \A i : i \in Cx!Of(type)' <=> i \in Cx!Of(type)
    BY <1>6, <1>7
  <2> DEFINE T == Cx!Of(type)
  <2>2. \A i : i \in T' <=> i \in T
    BY <2>1
  <2>3. T = {i \in DOMAIN world : world[i].type = type} /\ T' = {i \in DOMAIN world' : world'[i].type = type}
    BY DEF Cx!Of
  <2> HIDE DEF T
  <2>4. T' = T
    BY <2>2, <2>3
  <2> QED
    BY <2>4 DEF T
<1>8. \A type : r.type = type => Cx!Of(type)' = Cx!Of(type) \cup {m + 1}
  BY <1>6
<1>9. ASSUME NEW type \in {"start", "searchEnd"}, NEW i \in Cx!Of(type)'
      PROVE  world'[i].of = Rank(Cx!Of(type)', i)
  <2> DEFINE S == Cx!Of(type)
             R == Cx!Of(type)'
  <2>1. S \in SUBSET (1 .. m) /\ \A j \in S : world[j].of = Rank(S, j)
    BY <1>2 DEF CxLog
  <2>2. CASE r.type # type
    <3>1. R = S
      BY <1>7, <2>2
    <3>2. i \in S
      BY <1>9, <3>1
    <3> QED
      BY <1>4, <2>1, <3>1, <3>2
  <2>3. CASE r.type = type
    <3>1. R = S \cup {m + 1}
      BY <1>8, <2>3
    <3>2. r.of = Cardinality(S) + 1
      BY <1>3, <2>3
    <3> HIDE DEF S, R
    <3>3. /\ Rank(S \cup {m + 1}, m + 1) = Cardinality(S) + 1
          /\ \A j \in S : Rank(S \cup {m + 1}, j) = Rank(S, j)
      BY <1>2, <2>1, CxNumbers
    <3>4. i \in S \/ i = m + 1
      BY <1>9, <3>1 DEF R
    <3>5. world'[i].of = Rank(R, i)
      <4>1. CASE i = m + 1
        BY <1>4, <3>1, <3>2, <3>3, <4>1
      <4>2. CASE i \in S
        BY <1>4, <2>1, <3>1, <3>3, <4>2
      <4> QED
        BY <3>4, <4>1, <4>2
    <3> QED
      BY <3>5 DEF R
  <2> QED
    BY <2>2, <2>3
<1> DEFINE S == Cx!Of("count")
           R == Cx!Of("count")'
<1>10. /\ \E M \in Nat : {world'[i].of : i \in R} = 1 .. M
       /\ \A i, j \in R : i < j => world'[i].of <= world'[j].of
  <2>1. /\ \E M \in Nat : {world[i].of : i \in S} = 1 .. M
        /\ \A i, j \in S : i < j => world[i].of <= world[j].of
    BY DEF CxLog
  <2>2. \A i \in S : world'[i] = world[i] /\ i \in 1 .. m
    BY <1>2, <1>4
  <2>3. CASE r.type # "count"
    <3>1. R = S
      BY <1>7, <2>3
    <3> HIDE DEF R, S
    <3>2. {world'[i].of : i \in R} = {world[i].of : i \in S}
      BY <2>2, <3>1
    <3> QED
      BY <2>1, <2>2, <3>1, <3>2
  <2>4. CASE r.type = "count"
    <3>1. R = S \cup {m + 1}
      BY <1>8, <2>4
    <3>2. PICK M \in Nat : {world[i].of : i \in S} = 1 .. M /\ r.of \in {M, M + 1} /\ r.of > 0
      BY <1>3, <2>4
    <3> HIDE DEF R, S
    <3>3. {world'[i].of : i \in R} = {world[i].of : i \in S} \cup {r.of}
      BY <1>4, <2>2, <3>1
    <3>4. {world'[i].of : i \in R} = 1 .. M \/ {world'[i].of : i \in R} = 1 .. M + 1
      <4>1. r.of = M => 1 .. M \cup {r.of} = 1 .. M
        BY <3>2
      <4>2. r.of = M + 1 => 1 .. M \cup {r.of} = 1 .. M + 1
        BY <3>2
      <4> QED
        BY <3>2, <3>3, <4>1, <4>2
    <3>5. \A i \in S : world[i].of \in 1 .. M
      BY <3>2
    <3>6. \A i \in S : world[i].of <= r.of
      BY <3>2, <3>5
    <3>7. ASSUME NEW i \in R, NEW j \in R, i < j
          PROVE  world'[i].of <= world'[j].of
      <4>1. i \in S
        BY <1>2, <1>5, <2>2, <3>1, <3>7
      <4>2. CASE j = m + 1
        BY <1>4, <2>2, <3>6, <4>1, <4>2
      <4>3. CASE j \in S
        BY <2>1, <2>2, <3>7, <4>1, <4>3
      <4> QED
        BY <3>1, <4>2, <4>3
    <3>8. M + 1 \in Nat
      OBVIOUS
    <3> QED
      BY <3>4, <3>7, <3>8
  <2> QED
    BY <2>3, <2>4
<1>11. ASSUME NEW i \in Cx!Of("output")'
       PROVE  world'[i].of < i
  <2>1. CASE i = m + 1 /\ r.type = "output"
    <3>1. r.of <= m /\ r.of \in Nat
      BY <1>3, <2>1 DEF CxRecords
    <3> QED
      BY <1>2, <1>4, <2>1, <3>1
  <2>2. CASE i \in Cx!Of("output")
    BY <1>2, <1>4, <2>2 DEF CxLog
  <2> QED
    BY <1>6, <1>11, <2>1, <2>2
<1>12. CxLog'
  BY <1>4, <1>9, <1>10, <1>11 DEF CxLog
<1> QED
  BY <1>2, <1>4, <1>5, <1>12

LEMMA CxInit ==
  ASSUME Cx!Init
  PROVE  CxInv
<1>1. world = <<>> /\ sent = <<>> /\ DOMAIN hooks = CxHooks
  BY DEF Cx!Init, CxHooks
<1>2. \A h \in CxHooks : hooks[h] = [at |-> "new", turn |-> 0, found |-> Cx!Nothing, seen |-> 0]
  BY DEF Cx!Init, Cx!Unborn, CxHooks
<1>3. CxLog
  <2>1. \A type : Cx!Of(type) = {}
    BY <1>1 DEF Cx!Of
  <2>2. {world[i].of : i \in Cx!Of("count")} = 1 .. 0
    BY <2>1
  <2>3. \E M \in Nat : {world[i].of : i \in Cx!Of("count")} = 1 .. M
    BY <2>2
  <2>4. world \in Seq(CxRecords)
    BY <1>1
  <2> QED
    BY <2>1, <2>3, <2>4 DEF CxLog
<1>4. IsSeq(sent)
  BY <1>1 DEF IsSeq
<1> QED
  BY <1>1, <1>2, <1>3, <1>4 DEF CxInv

LEMMA CxStep ==
  ASSUME CxInv, [Cx!Next]_Cx!vars
  PROVE  CxInv'
<1>0. /\ CxLog /\ DOMAIN hooks = CxHooks /\ IsSeq(sent)
      /\ \A h \in CxHooks : DOMAIN hooks[h] = {"at", "turn", "found", "seen"}
      /\ \A h \in CxHooks : hooks[h].at = "send" => CxFound(hooks[h].found, hooks[h].turn, hooks[h].seen)
      /\ \A n \in DOMAIN sent : ~sent[n].legacy => CxFound(sent[n].found, sent[n].turn, sent[n].seen)
  BY DEF CxInv
<1>1. ASSUME CxLog', DOMAIN world \subseteq DOMAIN world', \A i \in DOMAIN world : world'[i] = world[i],
             DOMAIN hooks' = CxHooks,
             \A h \in CxHooks :
               /\ DOMAIN hooks'[h] = {"at", "turn", "found", "seen"}
               /\ \/ hooks'[h].at # "send"
                  \/ hooks'[h] = hooks[h]
                  \/ CxFound(hooks'[h].found, hooks'[h].turn, hooks'[h].seen),
             \/ sent' = sent
             \/ \E x : sent' = Append(sent, x) /\ (~x.legacy => CxFound(x.found, x.turn, x.seen))
      PROVE  CxInv'
  <2>1. \A t, turn, seen : CxFound(t, turn, seen) => CxFound(t, turn, seen)'
    BY <1>0, <1>1, CxStaysFound
  <2>2. ASSUME NEW h \in CxHooks, hooks'[h].at = "send"
        PROVE  CxFound(hooks[h].found, hooks[h].turn, hooks[h].seen)'
    <3>1. CxFound(hooks'[h].found, hooks'[h].turn, hooks'[h].seen)
      BY <1>0, <1>1, <2>2
    <3>2. \A t, turn, seen : t = hooks'[h].found /\ turn = hooks'[h].turn /\ seen = hooks'[h].seen =>
            (CxFound(t, turn, seen)' <=> CxFound(hooks[h].found, hooks[h].turn, hooks[h].seen)')
      OBVIOUS
    <3> QED
      BY <2>1, <3>1, <3>2
  <2>3. IsSeq(sent)'
    BY <1>0, <1>1, AppendAny DEF IsSeq
  <2>4. ASSUME NEW n \in DOMAIN sent', ~sent'[n].legacy
        PROVE  CxFound(sent[n].found, sent[n].turn, sent[n].seen)'
    <3>1. CxFound(sent'[n].found, sent'[n].turn, sent'[n].seen)
      <4>1. CASE sent' = sent
        BY <1>0, <2>4, <4>1
      <4>2. ASSUME NEW x, sent' = Append(sent, x), ~x.legacy => CxFound(x.found, x.turn, x.seen)
            PROVE  CxFound(sent'[n].found, sent'[n].turn, sent'[n].seen)
        <5>1. \/ n \in DOMAIN sent /\ sent'[n] = sent[n]
              \/ sent'[n] = x
          BY <1>0, <2>4, <4>2, AppendAny
        <5> QED
          BY <1>0, <2>4, <4>2, <5>1
      <4> QED
        BY <1>1, <4>1, <4>2
    <3>2. \A t, turn, seen : t = sent'[n].found /\ turn = sent'[n].turn /\ seen = sent'[n].seen =>
            (CxFound(t, turn, seen)' <=> CxFound(sent[n].found, sent[n].turn, sent[n].seen)')
      OBVIOUS
    <3> QED
      BY <2>1, <3>1, <3>2
  <2> QED
    BY <1>1, <2>2, <2>3, <2>4 DEF CxInv, CxHooks
<1>l. world' = world => CxLog' /\ DOMAIN world \subseteq DOMAIN world' /\ \A i \in DOMAIN world : world'[i] = world[i]
  <2> SUFFICES ASSUME world' = world
               PROVE  CxLog'
    OBVIOUS
  <2>1. \A type : Cx!Of(type)' = Cx!Of(type)
    BY DEF Cx!Of
  <2> QED
    BY <1>0, <2>1 DEF CxLog
<1>g. \A h \in CxHooks : \A k : hooks' = [hooks EXCEPT ![h] = k] =>
        /\ DOMAIN hooks' = CxHooks /\ \A g \in CxHooks : g # h => hooks'[g] = hooks[g]
        /\ hooks'[h] = k
  BY <1>0
<1>2. CASE Cx!Record
  <2>1. UNCHANGED <<hooks, sent>>
    BY <1>2 DEF Cx!Record
  <2> QED
    BY <1>0, <1>1, <1>2, <2>1, CxLogGrows
<1>3. ASSUME NEW h \in CxHooks, Cx!Notify(h)
      PROVE  CxInv'
  <2>1. world' = world /\ sent' = sent
    BY <1>3 DEF Cx!Notify
  <2>2. PICK k : hooks' = [hooks EXCEPT ![h] = [[hooks[h] EXCEPT !.at = "read"] EXCEPT !.turn = k]]
    BY <1>0, <1>3 DEF Cx!Notify
  <2>3. hooks'[h].at = "read" /\ DOMAIN hooks'[h] = {"at", "turn", "found", "seen"}
    BY <1>0, <1>g, <2>2
  <2> QED
    BY <1>0, <1>1, <1>g, <1>l, <2>1, <2>2, <2>3
<1>4. ASSUME NEW h \in CxHooks, Cx!ReadRollout(h)
      PROVE  CxInv'
  <2> DEFINE t == Cx!Extract(hooks[h].turn)
  <2>1. world' = world /\ sent' = sent /\ t.in
    BY <1>4 DEF Cx!ReadRollout
  <2>2. hooks' = [hooks EXCEPT ![h] = [[[hooks[h] EXCEPT !.at = "send"] EXCEPT !.found = t] EXCEPT !.seen = Len(world)]]
    BY <1>0, <1>4 DEF Cx!ReadRollout
  <2>3. CxFound(t, hooks[h].turn, Len(world))
    BY <1>0, <2>1, CxExtracted
  <2> HIDE DEF t
  <2>4. /\ DOMAIN hooks'[h] = {"at", "turn", "found", "seen"} /\ hooks'[h].found = t
        /\ hooks'[h].turn = hooks[h].turn /\ hooks'[h].seen = Len(world)
    BY <1>0, <1>g, <2>2
  <2>5. CxFound(hooks'[h].found, hooks'[h].turn, hooks'[h].seen)
    BY <2>3, <2>4
  <2> QED
    BY <1>0, <1>1, <1>g, <1>l, <2>1, <2>2, <2>4, <2>5
<1>5. ASSUME NEW h \in CxHooks, Cx!NoRollout(h)
      PROVE  CxInv'
  <2>1. world' = world /\ sent' = sent /\ hooks' = [hooks EXCEPT ![h] = [hooks[h] EXCEPT !.at = "sendLegacy"]]
    BY <1>0, <1>5 DEF Cx!NoRollout
  <2>2. hooks'[h].at = "sendLegacy" /\ DOMAIN hooks'[h] = {"at", "turn", "found", "seen"}
    BY <1>0, <1>g, <2>1
  <2> QED
    BY <1>0, <1>1, <1>g, <1>l, <2>1, <2>2
<1>e. Cx!Ended.at = "done" /\ DOMAIN Cx!Ended = {"at", "turn", "found", "seen"}
  BY DEF Cx!Ended, Cx!Unborn
<1>6. ASSUME NEW h \in CxHooks, Cx!SendTurn(h)
      PROVE  CxInv'
  <2> DEFINE x == [turn |-> hooks[h].turn, found |-> hooks[h].found, seen |-> hooks[h].seen, legacy |-> FALSE]
  <2>1. world' = world /\ sent' = Append(sent, x) /\ hooks' = [hooks EXCEPT ![h] = Cx!Ended] /\ hooks[h].at = "send"
    BY <1>0, <1>6 DEF Cx!SendTurn
  <2>2. CxFound(x.found, x.turn, x.seen)
    BY <1>0, <2>1
  <2> HIDE DEF x
  <2>3. hooks'[h] = Cx!Ended
    BY <1>g, <2>1
  <2> QED
    BY <1>0, <1>1, <1>e, <1>g, <1>l, <2>1, <2>2, <2>3
<1>7. ASSUME NEW h \in CxHooks, Cx!SendLegacy(h)
      PROVE  CxInv'
  <2> DEFINE x == [turn |-> hooks[h].turn, found |-> Cx!Nothing, seen |-> 0, legacy |-> TRUE]
  <2>1. world' = world /\ sent' = Append(sent, x) /\ hooks' = [hooks EXCEPT ![h] = Cx!Ended]
    BY <1>0, <1>7 DEF Cx!SendLegacy
  <2>2. x.legacy
    OBVIOUS
  <2> HIDE DEF x
  <2>3. hooks'[h] = Cx!Ended
    BY <1>g, <2>1
  <2> QED
    BY <1>0, <1>1, <1>e, <1>g, <1>l, <2>1, <2>2, <2>3
<1>8. CASE UNCHANGED Cx!vars
  <2>1. UNCHANGED <<hooks, world, sent>>
    BY <1>8 DEF Cx!vars
  <2> QED
    BY <1>0, <1>1, <1>l, <2>1
<1> QED
  BY <1>2, <1>3, <1>4, <1>5, <1>6, <1>7, <1>8 DEF Cx!Next, CxHooks

(* The turn of the property is that of the walk.                           *)
LEMMA CxPlaces ==
  ASSUME CxLog, NEW turn, NEW seen \in DOMAIN world, NEW first \in 1 .. seen, NEW e \in first .. seen,
         CxTurn(turn, first, e), e # seen => CxIs(e + 1, "start")
  PROVE  Cx!Places(turn, seen) = first .. e
<1> DEFINE starts == {i \in Cx!Of("start") : i <= seen}
<1>1. /\ Len(world) \in Nat /\ DOMAIN world = 1 .. Len(world) /\ Cx!Of("start") \in SUBSET (1 .. Len(world))
      /\ \A i : i \in Cx!Of("start") <=> i \in DOMAIN world /\ CxIs(i, "start")
  BY CxWorld DEF CxLog
<1>2. first \in Nat /\ e \in Nat /\ first <= e /\ e <= seen /\ seen \in Nat /\ first \in starts
  BY <1>1 DEF CxTurn
<1>3. \A i \in starts : world[i].of = turn <=> i = first
  <2>1. \A i \in starts : world[i].of = Rank(Cx!Of("start"), i) /\ i \in Cx!Of("start")
    BY DEF CxLog
  <2>2. \A i, j \in Cx!Of("start") : i # j => Rank(Cx!Of("start"), i) # Rank(Cx!Of("start"), j)
    <3> TAKE i, j \in Cx!Of("start")
    <3>1. i \in Nat /\ j \in Nat
      BY <1>1
    <3>2. i < j => Rank(Cx!Of("start"), i) < Rank(Cx!Of("start"), j)
      BY <1>1, RankGrows
    <3>3. j < i => Rank(Cx!Of("start"), j) < Rank(Cx!Of("start"), i)
      BY <1>1, RankGrows
    <3>4. Rank(Cx!Of("start"), i) \in Nat
      BY CxWorld DEF CxLog
    <3> QED
      BY <3>1, <3>2, <3>3, <3>4
  <2>3. world[first].of = turn
    BY DEF CxTurn
  <2> QED
    BY <1>2, <2>1, <2>2, <2>3
<1> HIDE DEF starts
<1>4. (CHOOSE i \in starts : world[i].of = turn) = first
  BY <1>2, <1>3
<1>5. Cx!Places(turn, seen) = {i \in first .. seen : \A j \in starts : j > first => i < j}
  BY <1>4 DEF Cx!Places, starts
<1>6. ASSUME NEW i \in first .. seen, \A j \in starts : j > first => i < j
      PROVE  i \in first .. e
  <2> SUFFICES ASSUME i > e
               PROVE  FALSE
    BY <1>2
  <2>1. e # seen /\ CxIs(e + 1, "start") /\ e + 1 <= seen /\ e + 1 \in DOMAIN world
    BY <1>1, <1>2
  <2>2. e + 1 \in starts /\ e + 1 > first
    BY <1>1, <1>2, <2>1 DEF starts
  <2> QED
    BY <1>2, <1>6, <2>2
<1>7. ASSUME NEW i \in first .. e
      PROVE  i \in first .. seen /\ \A j \in starts : j > first => i < j
  <2>1. ASSUME NEW j \in starts, j > first
        PROVE  i < j
    <3>1. j \in Nat /\ CxIs(j, "start")
      BY <1>1 DEF starts
    <3>2. j \notin first + 1 .. e
      BY <3>1 DEF CxTurn
    <3> QED
      BY <1>2, <2>1, <3>1, <3>2
  <2> QED
    BY <1>2, <2>1
<1> QED
  BY <1>5, <1>6, <1>7

LEMMA CxRecorded ==
  ASSUME CxLog, NEW t, NEW turn, NEW seen, CxFound(t, turn, seen)
  PROVE  LET own == Cx!Places(turn, seen)
             output(c) == {i \in own \cap Cx!Of("output") : world[i].of = c}
             searches == {k \in DOMAIN t.calls : t.calls[k].search /\ t.calls[k].id # None} IN
         /\ t.number = turn
         /\ {t.calls[k].at : k \in DOMAIN t.calls} = own \cap (Cx!Of("call") \cup Cx!Of("searchCall"))
         /\ \A k, l \in DOMAIN t.calls : k < l => t.calls[k].at < t.calls[l].at
         /\ \A k \in DOMAIN t.calls : ~t.calls[k].search =>
              IF output(t.calls[k].at) = {} THEN t.calls[k].output = None
              ELSE t.calls[k].output \in output(t.calls[k].at)
         /\ \A k, l \in searches : t.calls[k].id = t.calls[l].id => k = l
         /\ {t.prompt, t.output} \subseteq own \cup {None}
         /\ \A k, l \in DOMAIN t.usage : t.usage[k] = t.usage[l] => k = l
         /\ {t.usage[k] : k \in DOMAIN t.usage} = Cx!OwnCounts(own)
<1> DEFINE own == Cx!Places(turn, seen)
<1>a. PICK first \in 1 .. seen : \E e \in first .. seen :
        /\ t.number = turn /\ CxTurn(turn, first, e) /\ CxGot(t, first, e)
        /\ e # seen => CxIs(e + 1, "start")
  BY DEF CxFound
<1>1. PICK e \in first .. seen :
        /\ t.number = turn /\ CxTurn(turn, first, e) /\ CxGot(t, first, e)
        /\ e # seen => CxIs(e + 1, "start")
  BY <1>a
<1>2. own = first .. e
  <2>1. seen \in DOMAIN world
    BY DEF CxFound
  <2> QED
    BY <1>1, <2>1, CxPlaces
<1>3. /\ CxCounted(t, first, e) /\ CxCalled(t, first, e) /\ CxSearched(t, e)
      /\ (t.prompt = None \/ t.prompt \in first .. e) /\ (t.output = None \/ t.output \in first .. e)
  BY <1>1 DEF CxGot
<1>4. \A type : \A i \in first .. e : i \in Cx!Of(type) <=> CxIs(i, type)
  <2>1. DOMAIN world = 1 .. Len(world) /\ Len(world) \in Nat /\ seen \in DOMAIN world
    BY CxWorld DEF CxLog, CxFound
  <2>2. first .. e \subseteq DOMAIN world
    BY <2>1
  <2>3. \A type : \A i : i \in Cx!Of(type) <=> i \in DOMAIN world /\ CxIs(i, type)
    BY CxWorld DEF CxLog
  <2> QED
    BY <2>2, <2>3
<1> HIDE DEF own
<1>5. {t.calls[k].at : k \in DOMAIN t.calls} = own \cap (Cx!Of("call") \cup Cx!Of("searchCall"))
  <2>1. \A k \in DOMAIN t.calls : t.calls[k].at \in own /\ (CxIs(t.calls[k].at, "call") \/ CxIs(t.calls[k].at, "searchCall"))
    BY <1>2, <1>3 DEF CxCalled, CxCallAt, CxIs
  <2>2. \A i \in own : CxIs(i, "call") \/ CxIs(i, "searchCall") => \E k \in DOMAIN t.calls : t.calls[k].at = i
    BY <1>2, <1>3 DEF CxCalled
  <2>3. \A i \in own : i \in Cx!Of("call") \cup Cx!Of("searchCall") <=> CxIs(i, "call") \/ CxIs(i, "searchCall")
    BY <1>2, <1>4
  <2> QED
    BY <2>1, <2>2, <2>3
<1>6. ASSUME NEW k \in DOMAIN t.calls, ~t.calls[k].search
      PROVE  LET out == {i \in own \cap Cx!Of("output") : world[i].of = t.calls[k].at} IN
             IF out = {} THEN t.calls[k].output = None ELSE t.calls[k].output \in out
  <2> DEFINE c == t.calls[k]
             out == {i \in own \cap Cx!Of("output") : world[i].of = c.at}
  <2>1. IF c.output = None THEN \A i \in first .. e : CxIs(i, "output") => world[i].of # c.at
        ELSE c.output \in first .. e /\ CxIs(c.output, "output") /\ world[c.output].of = c.at
    BY <1>3, <1>6 DEF CxCalled, CxCallAt
  <2> HIDE DEF c
  <2>2. c.output = None => out = {}
    BY <1>2, <1>4, <2>1
  <2>3. c.output # None => c.output \in out
    BY <1>2, <1>4, <2>1
  <2>4. out = {} => c.output = None
    BY <2>3
  <2>5. out # {} => c.output \in out
    BY <2>2, <2>3
  <2> HIDE DEF out
  <2>6. IF out = {} THEN c.output = None ELSE c.output \in out
    BY <2>4, <2>5
  <2> QED
    BY <2>6 DEF out, c
<1>7. {t.usage[k] : k \in DOMAIN t.usage} = Cx!OwnCounts(own)
  <2>1. {j \in first .. e : CxIs(j, "count")} = own \cap Cx!Of("count")
    BY <1>2, <1>4
  <2>2. {t.usage[k] : k \in DOMAIN t.usage} = {world[i].of : i \in {j \in first .. e : CxIs(j, "count")}}
    BY <1>3 DEF CxCounted
  <2> QED
    BY <2>1, <2>2 DEF Cx!OwnCounts
<1>8. \A k, l \in DOMAIN t.calls : k < l => t.calls[k].at < t.calls[l].at
  BY <1>3 DEF CxCalled
<1>9. \A k, l \in CxSearchIds(t) : t.calls[k].id = t.calls[l].id => k = l
  BY <1>3 DEF CxSearched
<1>10. {t.prompt, t.output} \subseteq own \cup {None}
  BY <1>2, <1>3
<1>11. \A k, l \in DOMAIN t.usage : t.usage[k] = t.usage[l] => k = l
  BY <1>3 DEF CxCounted
<1> QED
  BY <1>1, <1>5, <1>6, <1>7, <1>8, <1>9, <1>10, <1>11 DEF CxSearchIds, own

(* Codex: whenever the hook reads the rollout and however its records come *)
(* between, a payload has the turn as it stood in the file: its own number *)
(* and texts, all its calls in order, each with an output of its own, no   *)
(* search id twice, every total added up once (_extract_turn_from_rollout).*)
THEOREM CodexTurns == Spec => []TurnAsRecorded
<1> DEFINE Inv == harness = "codex" => CxInv
<1>1. Init => Inv
  BY CxInit DEF Init
<1>2. Inv /\ [Next]_vars => Inv'
  <2> SUFFICES ASSUME Inv, [Next]_vars, harness' = "codex"
               PROVE  CxInv'
    OBVIOUS
  <2>1. harness = "codex"
    BY DEF Next, vars
  <2>2. [Next]_vars /\ harness = "codex" => [Cx!Next]_Cx!vars
    BY DEF Next, vars, Cx!vars
  <2> QED
    BY <2>1, <2>2, CxStep
<1>3. Inv => TurnAsRecorded
  <2> SUFFICES ASSUME CxInv
               PROVE  Cx!TurnAsRecorded
    BY DEF TurnAsRecorded
  <2>1. \A n \in Cx!Reported : CxFound(sent[n].found, sent[n].turn, sent[n].seen)
    BY DEF CxInv, Cx!Reported
  <2>2. CxLog
    BY DEF CxInv
  <2> QED
    BY <2>1, <2>2, CxRecorded DEF Cx!TurnAsRecorded
<1> QED
  BY <1>1, <1>2, <1>3, PTL DEF Spec

-----------------------------------------------------------------------------
(* omp *)

EventsOf(k) == {i \in DOMAIN world.log : world.log[i].kind = k}

OmHooks == HooksOf["omp"]
OmFields == {"at", "kind", "trace", "span", "out", "final", "tools", "next"}
OmOpening == {"open", "openSpan", "openOut"}
OmRoot == {"rootTrace", "rootSpan", "sendRoot"}
OmCloses == OmRoot \cup {"clear", "clearSpan", "clearOut"}
OmEnd == {"endTrace", "endSpan", "endOut"}
OmSpans == {"spanTrace", "toolTrace", "llmSpan", "toolSpan", "sendLlm", "setOut", "sendTool"}
OmPast == {"openSpan", "openOut", "done"} \cup OmSpans
OmUncleared == {"ensure", "clear"} \cup OmEnd \cup OmRoot

(* What the dict has: the trace that is open, its span, the last answer.   *)
OmId == Om!Get(store, Om!TraceKey)
OmHeld == OmId # None
OmParent == Om!Get(store, Om!SpanKey) # None
OmOut == Om!Get(store, Om!OutKey)

(* Where a hook of a kind can be.                                          *)
OmPlaced(l) ==
  /\ DOMAIN l = OmFields
  /\ \/ l.at \in {"new", "done"}
     \/ l.at = "ensure" /\ l.kind \in Om!Kinds
     \/ /\ l.next = IF l.kind = "start" THEN "open" ELSE "done"
        /\ \/ l.at = "pending" /\ l.kind = "start"
           \/ l.at \in {"close", "closeOut"} /\ l.kind \in {"start", "shutdown"}
           \/ l.at \in OmEnd /\ l.kind = "agentEnd"
           \/ l.at \in OmCloses /\ l.kind \in {"start", "agentEnd", "shutdown"}
           \/ l.at \in OmOpening /\ l.kind \in {"start", "turnEnd"}
           \/ l.at \in {"check"} \cup OmSpans /\ l.kind = "turnEnd"

(* Event p is the start of the run of event i.                             *)
RunOf(p, i) ==
  /\ p \in EventsOf("start") /\ p <= i
  /\ \A q \in EventsOf("start") : q <= i => q <= p

(* The events: each one has its hook; an answer, and the end of a run, come *)
(* after the start or an answer of their run.                              *)
OmLog ==
  /\ None \notin OmHooks /\ DOMAIN hooks = OmHooks /\ (\A h \in OmHooks : OmPlaced(hooks[h]))
  /\ DOMAIN world = {"race", "died", "log"}
  /\ world.died \subseteq {h \in OmHooks : hooks[h].at = "done"}
  /\ IsSeq(world.log)
  /\ \A h \in OmHooks : hooks[h].at # "new" => \E i \in DOMAIN world.log : world.log[i].by = h
  /\ \A i, j \in DOMAIN world.log : world.log[i].by = world.log[j].by => i = j
  /\ \A i \in DOMAIN world.log :
       LET e == world.log[i]
           l == hooks[e.by] IN
       /\ e.by \in OmHooks /\ l.at # "new" /\ e.kind \in Om!Kinds
       /\ Om!Running(e.by) => l.kind = e.kind /\ l.final = e.final
       /\ e.kind \in {"turnEnd", "agentEnd"} =>
            \E p \in EventsOf("start") :
              /\ p < i /\ \A j \in DOMAIN world.log : p < j /\ j < i => world.log[j].kind = "turnEnd"
              /\ e.kind = "agentEnd" /\ e.final = None => p = i - 1
              /\ e.kind = "agentEnd" /\ e.final # None =>
                   \E j \in EventsOf("turnEnd") : p < j /\ j < i /\ world.log[j].by = e.final

(* What comes while a hook is running is the end of its run.               *)
OmAlone ==
  \A i, j \in DOMAIN world.log :
    i < j /\ Om!Running(world.log[i].by) =>
      /\ world.race = "last"
      /\ world.log[i].kind = "turnEnd" /\ world.log[j].kind = "agentEnd"

(* A hook that is past the opening of a trace.                             *)
Opened(t) ==
  /\ t \in OmHooks /\ hooks[t].at \in OmPast
  /\ \E i \in DOMAIN world.log : world.log[i].by = t /\ world.log[i].kind \in {"start", "turnEnd"}

(* The trace in the dict was opened by a hook; a hook that sends a root    *)
(* has the trace that is in the dict.                                      *)
OmTrace ==
  /\ OmHeld => Opened(OmId)
  /\ \A h \in OmHooks : LET l == hooks[h] IN
       /\ l.at \in {"rootSpan", "sendRoot", "clear"} =>
            OmHeld /\ OmId = l.trace
       /\ l.at = "open" /\ l.kind = "turnEnd" => ~OmHeld
       /\ l.at \in {"openSpan", "openOut"} /\ l.kind = "start" =>
            OmHeld /\ OmId = h
       /\ l.at = "openOut" /\ l.kind = "start" => OmParent

IsRoot(q, k, t) == k \in DOMAIN q /\ q[k].what = "root" /\ q[k].trace = t

(* A trace has one root, and after it was sent the trace is cleared.       *)
OmRoots ==
  /\ IsSeq(sent)
  /\ \A k, t : IsRoot(sent, k, t) => Opened(t)
  /\ \A h \in OmHooks : hooks[h].at = "clear" => \E k : IsRoot(sent, k, hooks[h].trace)
  /\ world.died = {} =>
       /\ \A k, m, t : IsRoot(sent, k, t) /\ IsRoot(sent, m, t) => k = m
       /\ \A k : IsRoot(sent, k, OmId) =>
            sent[k].by \in OmHooks /\ hooks[sent[k].by].at = "clear"

(* While no hook dies the dict has the trace of the run from the end of    *)
(* its start until the hook of its end clears it.                          *)
OmOpen ==
  world.died = {} =>
    \A p \in EventsOf("start") :
      LET s == world.log[p].by IN
      /\ hooks[s].at = "done" /\ (\A j \in DOMAIN world.log : p < j => world.log[j].kind = "turnEnd")
         => /\ OmHeld /\ OmId = s
            /\ OmParent
            /\ p = Len(world.log) => OmOut = None
      /\ \A i \in EventsOf("turnEnd") :
           RunOf(p, i) /\ hooks[world.log[i].by].at \in OmOpening =>
             \E j \in EventsOf("agentEnd") :
               RunOf(p, j) /\ hooks[world.log[j].by].at \notin OmUncleared

OmEnds ==
  world.died = {} =>
    \A p, i \in DOMAIN world.log :
      LET e == world.log[i]
          l == hooks[e.by] IN
      e.kind = "agentEnd" /\ RunOf(p, i) =>
        /\ l.at \in OmUncleared =>
             /\ OmHeld /\ OmId = world.log[p].by
             /\ OmParent
        /\ l.at \in {"ensure"} \cup OmEnd /\ e.final = None => OmOut = None
        /\ l.at \in OmRoot => l.out = e.final
        /\ l.at \notin OmUncleared \/ l.at = "clear" =>
             \E k : IsRoot(sent, k, world.log[p].by) /\ sent[k].out = e.final

(* Where nothing overlaps, what was sent has a root or is in the trace     *)
(* that is in the dict.                                                    *)
OmRooted ==
  world.died = {} /\ world.race = "none" =>
    /\ \A k \in DOMAIN sent :
         \/ \E m : IsRoot(sent, m, sent[k].trace)
         \/ OmHeld /\ OmId = sent[k].trace
    /\ OmHeld =>
         OmParent \/ hooks[OmId].at = "openSpan"
    /\ \A h \in OmHooks : LET l == hooks[h] IN
         /\ l.at \in {"llmSpan", "toolSpan", "sendLlm", "sendTool"} =>
              OmHeld /\ OmId = l.trace
         /\ l.at \in {"open", "clearSpan", "clearOut"} => ~OmHeld

(* The answer o is of the run of trace t, or a hook died that was to keep  *)
(* them apart.                                                             *)
Fits(o, t) ==
  \/ o = None \/ t \in world.died
  \/ \E p, i \in DOMAIN world.log :
       /\ RunOf(p, i) /\ world.log[i].by = o
       /\ \/ world.log[p].by \in world.died
          \/ \E j \in DOMAIN world.log : RunOf(p, j) /\ world.log[j].by = t

OmAnswers ==
  /\ \A p \in EventsOf("start") :
       LET s == world.log[p].by IN
       /\ \A q \in EventsOf("start") : q <= p
       /\ hooks[s].at = "done" /\ s \notin world.died /\ OmHeld
       => \E i \in DOMAIN world.log : p <= i /\ world.log[i].by = OmId
  /\ world.race = "none" =>
       /\ OmHeld =>
            \/ Fits(OmOut, OmId)
            \/ hooks[OmId].at \in {"openSpan", "openOut"}
       /\ \A h \in OmHooks : hooks[h].at \in OmRoot /\ OmHeld =>
            Fits(hooks[h].out, OmId)
       /\ \A k, t : IsRoot(sent, k, t) => Fits(sent[k].out, t)

OmInv == OmLog /\ OmAlone /\ OmTrace /\ OmRoots /\ OmOpen /\ OmEnds /\ OmRooted /\ OmAnswers

LEMMA OmKeys ==
  /\ Om!TraceKey # Om!SpanKey /\ Om!TraceKey # Om!OutKey /\ Om!TraceKey # Om!SessionKey
  /\ Om!SpanKey # Om!OutKey /\ Om!SpanKey # Om!SessionKey /\ Om!OutKey # Om!SessionKey
BY DEF Om!TraceKey, Om!SpanKey, Om!OutKey, Om!SessionKey

LEMMA OmWrites ==
  ASSUME NEW k, NEW v,
         store' = Om!Put(store, k, v) \/ (store' = Om!Drop(store, {k}) /\ v = None)
  PROVE  /\ OmId' = (IF k = Om!TraceKey THEN v ELSE OmId)
         /\ OmParent' <=> IF k = Om!SpanKey THEN v # None ELSE OmParent
         /\ OmOut' = (IF k = Om!OutKey THEN v ELSE OmOut)
<1>1. Om!Get(store', k) = v /\ \A x : x # k => Om!Get(store', x) = Om!Get(store, x)
  BY DEF Om!Get, Om!Put, Om!Drop
<1>2. /\ OmId' = Om!Get(store', Om!TraceKey) /\ OmOut' = Om!Get(store', Om!OutKey)
      /\ OmParent' <=> Om!Get(store', Om!SpanKey) # None
  BY DEF OmId, OmOut, OmParent, Om!TraceKey, Om!OutKey, Om!SpanKey, Om!Get
<1> QED
  BY <1>1, <1>2 DEF OmId, OmOut, OmParent

LEMMA OmUnwritten ==
  ASSUME store' = store
  PROVE  OmId' = OmId /\ (OmParent' <=> OmParent) /\ OmOut' = OmOut
BY DEF OmId, OmOut, OmParent, Om!TraceKey, Om!OutKey, Om!SpanKey, Om!Get

(* A hook goes on with the local variables k, or comes to its end.         *)
LEMMA OmGoto ==
  ASSUME DOMAIN hooks = OmHooks, NEW h \in OmHooks, NEW s, NEW k, Om!Goto(h, s, k), DOMAIN k = OmFields
  PROVE  LET t == hooks'[h] IN
         /\ DOMAIN hooks' = OmHooks /\ (\A g \in OmHooks : g # h => hooks'[g] = hooks[g])
         /\ DOMAIN t = OmFields /\ t.at = s
         /\ s # "done" => /\ t.kind = k.kind /\ t.trace = k.trace /\ t.span = k.span /\ t.out = k.out
                          /\ t.final = k.final /\ t.tools = k.tools /\ t.next = k.next
<1>1. hooks' = [hooks EXCEPT ![h] = IF s = "done" THEN Om!Ended ELSE [k EXCEPT !.at = s]]
  BY DEF Om!Goto
<1>2. Om!Ended = [at |-> "done", kind |-> None, trace |-> None, span |-> None,
                  out |-> None, final |-> None, tools |-> 0, next |-> "done"]
  BY DEF Om!Ended, Om!Unborn
<1>3. hooks'[h] = IF s = "done" THEN Om!Ended ELSE [k EXCEPT !.at = s]
  BY <1>1
<1>4. DOMAIN hooks' = OmHooks /\ \A g \in OmHooks : g # h => hooks'[g] = hooks[g]
  BY <1>1
<1> QED
  BY <1>2, <1>3, <1>4 DEF OmFields

(* From where a hook goes on, what it takes along, writes and sends.       *)
OmFrom(l, t) ==
  /\ t.at \notin {"new", "ensure"}
  /\ t.at # "done" => t.kind = l.kind /\ t.final = l.final
  /\ t.at = "done" => l.at \in {"close", "endTrace", "endSpan", "rootTrace", "rootSpan", "clearOut", "openOut"}
                               \cup OmSpans
  /\ t.at \in {"pending", "check", "endTrace"} => l.at = "ensure"
  /\ t.at = "close" => l.at \in {"ensure", "pending"}
  /\ t.at = "closeOut" => l.at = "close"
  /\ t.at = "endSpan" => l.at = "endTrace"
  /\ t.at = "endOut" => l.at = "endSpan"
  /\ t.at = "rootTrace" => l.at \in {"closeOut", "endOut"}
  /\ t.at = "rootSpan" => l.at = "rootTrace"
  /\ t.at = "sendRoot" => l.at = "rootSpan"
  /\ t.at = "clear" => l.at = "sendRoot"
  /\ t.at = "clearSpan" => l.at = "clear"
  /\ t.at = "clearOut" => l.at = "clearSpan"
  /\ t.at = "open" => l.at \in {"pending", "close", "rootTrace", "rootSpan", "clearOut", "check"}
  /\ t.at = "openSpan" => l.at = "open"
  /\ t.at = "openOut" => l.at = "openSpan"
  /\ t.at \in OmSpans => l.at \in {"check", "openOut"} \cup OmSpans
  /\ t.at = "llmSpan" => l.at = "spanTrace"
  /\ t.at = "toolSpan" => l.at = "toolTrace"
  /\ t.at = "sendLlm" => l.at = "llmSpan"
  /\ t.at = "sendTool" => l.at = "toolSpan"
  /\ t.at = "setOut" => l.at = "sendLlm"
  /\ l.at = "open" => t.at = "openSpan"
  /\ l.at = "openSpan" => t.at = "openOut"
  /\ l.at = "sendRoot" => t.at = "clear"
  /\ l.at = "clear" => t.at = "clearSpan"
  /\ l.at \in OmPast => t.at \in OmPast
  /\ t.at = "done" /\ l.kind = "start" => l.at = "openOut"

(* Which way it goes, and what it has read.                                *)
OmVars(l, t) ==
  /\ t.at \in {"open", "done"} =>
       /\ l.at \in {"pending", "check", "endTrace", "rootTrace"} => ~OmHeld
       /\ l.at \in {"endSpan", "rootSpan"} => ~OmParent
       /\ l.at = "close" => ~(OmHeld /\ OmParent)
  /\ t.at \in {"rootSpan", "llmSpan", "toolSpan"} => OmHeld /\ t.trace = OmId
  /\ t.at \in {"sendRoot", "clear", "sendLlm", "sendTool"} => t.trace = l.trace
  /\ t.at = "rootTrace" => t.out = IF l.at = "endOut" /\ l.final # None THEN l.final ELSE OmOut
  /\ t.at \in {"rootSpan", "sendRoot"} => t.out = l.out

OmStore(h, l) ==
  /\ OmId' = (IF l.at = "open" THEN h ELSE IF l.at = "clear" THEN None ELSE OmId)
  /\ OmParent' <=> IF l.at = "openSpan" THEN TRUE ELSE IF l.at = "clearSpan" THEN FALSE ELSE OmParent
  /\ OmOut' = (IF l.at \in {"openOut", "clearOut"} THEN None ELSE IF l.at = "setOut" THEN h ELSE OmOut)

OmSends(h, l) ==
  IF l.at \in {"sendRoot", "sendLlm", "sendTool"}
  THEN \E s : /\ sent' = Append(sent, s) /\ s.trace = l.trace /\ s.by = h
              /\ s.what = "root" <=> l.at = "sendRoot"
              /\ l.at = "sendRoot" => s.out = l.out
  ELSE sent' = sent

(* A step of hook h that is neither its begin nor its death.               *)
OmMove(h) ==
  /\ DOMAIN hooks' = OmHooks /\ (\A g \in OmHooks : g # h => hooks'[g] = hooks[g])
  /\ world' = world /\ Om!Running(h) /\ OmPlaced(hooks'[h])
  /\ OmFrom(hooks[h], hooks'[h]) /\ OmVars(hooks[h], hooks'[h])
  /\ OmStore(h, hooks[h]) /\ OmSends(h, hooks[h])

LEMMA OmMoves ==
  ASSUME OmLog, NEW h \in OmHooks, Om!Step(h), ~Om!Fire(h), ~Om!Crash(h)
  PROVE  OmMove(h)
<1> DEFINE l == hooks[h]
           t == hooks'[h]
<1> USE DEF Om!Local, Om!Keeps, Om!Writes, Om!Sends
<1>l. OmPlaced(l) /\ DOMAIN l = OmFields /\ DOMAIN hooks = OmHooks /\ h # None
  BY DEF OmLog, OmPlaced
<1>g. ASSUME NEW s, NEW k, Om!Goto(h, s, k), DOMAIN k = OmFields
      PROVE  /\ DOMAIN hooks' = OmHooks /\ (\A g \in OmHooks : g # h => hooks'[g] = hooks[g])
             /\ DOMAIN t = OmFields /\ t.at = s
             /\ s # "done" => /\ t.kind = k.kind /\ t.trace = k.trace /\ t.span = k.span /\ t.out = k.out
                              /\ t.final = k.final /\ t.tools = k.tools /\ t.next = k.next
  BY <1>g, <1>l, OmGoto
<1>n. store' = store => OmId' = OmId /\ (OmParent' <=> OmParent) /\ OmOut' = OmOut
  BY OmUnwritten
<1>w. ASSUME NEW k, NEW v, store' = Om!Put(store, k, v) \/ (store' = Om!Drop(store, {k}) /\ v = None)
      PROVE  /\ OmId' = (IF k = Om!TraceKey THEN v ELSE OmId)
             /\ OmParent' <=> IF k = Om!SpanKey THEN v # None ELSE OmParent
             /\ OmOut' = (IF k = Om!OutKey THEN v ELSE OmOut)
  BY <1>w, OmWrites
<1> HIDE DEF t
<1>1. CASE Om!Ensure(h)
  <2> DEFINE k == [l EXCEPT !.next = IF l.kind = "start" THEN "open" ELSE "done"]
  <2>k. /\ DOMAIN k = OmFields /\ k.next = (IF l.kind = "start" THEN "open" ELSE "done")
        /\ k.kind = l.kind /\ k.trace = l.trace /\ k.span = l.span /\ k.out = l.out /\ k.final = l.final /\ k.tools = l.tools
    BY <1>l DEF OmFields
  <2> HIDE DEF k
  <2>1. /\ l.at = "ensure" /\ world' = world /\ sent' = sent
        /\ \/ store' = store
           \/ store' = Om!Put(store, Om!SessionKey, h)
        /\ l.kind = "start" => Om!Goto(h, "pending", k)
        /\ l.kind = "turnEnd" => Om!Goto(h, "check", k)
        /\ l.kind = "agentEnd" => Om!Goto(h, "endTrace", k)
        /\ l.kind = "shutdown" => Om!Goto(h, "close", k)
    BY <1>1 DEF Om!Ensure, k
  <2> HIDE DEF l
  <2>2. OmStore(h, l)
    <3>1. OmId' = OmId /\ (OmParent' <=> OmParent) /\ OmOut' = OmOut
      <4>1. CASE store' = store
        BY <4>1, <1>n
      <4>2. CASE store' = Om!Put(store, Om!SessionKey, h)
        BY <4>2, <1>w, OmKeys
      <4> QED
        BY <2>1, <4>1, <4>2
    <3> QED
      BY <2>1, <3>1 DEF OmStore
  <2>7. l.kind \in Om!Kinds
    BY <2>1, <1>l DEF OmPlaced, OmEnd, OmRoot, OmCloses, OmOpening, OmSpans
  <2>3. OmPlaced(t) /\ OmFrom(l, t)
    BY <2>1, <2>7, <2>k, <1>g, <1>l DEF OmPlaced, OmPast, OmFrom, Om!Kinds, OmEnd, OmRoot, OmCloses, OmOpening, OmSpans
  <2>4. OmVars(l, t)
    BY <2>1, <2>7, <2>k, <1>g, <1>l DEF OmVars, OmHeld, OmPlaced, Om!Kinds
  <2>5. OmSends(h, l)
    BY <2>1 DEF OmSends
  <2>6. DOMAIN hooks' = OmHooks /\ \A g \in OmHooks : g # h => hooks'[g] = hooks[g]
    BY <2>1, <2>7, <2>k, <1>g, <1>l DEF Om!Kinds
  <2> QED
    BY <2>1, <2>2, <2>3, <2>4, <2>5, <2>6 DEF Om!Running, OmMove, l, t
<1>2. CASE Om!Pending(h)
  <2>1. /\ l.at = "pending" /\ world' = world /\ sent' = sent /\ store' = store
        /\ (Om!Has(store, Om!TraceKey)) => Om!Goto(h, "close", l)
        /\ ~(Om!Has(store, Om!TraceKey)) => Om!Goto(h, "open", l)
        /\ ~Om!Has(store, Om!TraceKey) => OmId = None
    BY <1>2 DEF Om!Pending, OmId, Om!Get, Om!Has
  <2> HIDE DEF l
  <2>2. OmStore(h, l)
    BY <2>1, <1>n DEF OmStore
  <2>3. OmPlaced(t) /\ OmFrom(l, t)
    BY <2>1, <1>g, <1>l DEF OmPlaced, OmPast, OmFrom, Om!Kinds, OmEnd, OmRoot, OmCloses, OmOpening, OmSpans
  <2>4. OmVars(l, t)
    BY <2>1, <1>g, <1>l DEF OmVars, OmHeld, OmPlaced
  <2>5. OmSends(h, l)
    BY <2>1 DEF OmSends
  <2>6. DOMAIN hooks' = OmHooks /\ \A g \in OmHooks : g # h => hooks'[g] = hooks[g]
    BY <2>1, <1>g, <1>l
  <2> QED
    BY <2>1, <2>2, <2>3, <2>4, <2>5, <2>6 DEF Om!Running, OmMove, l, t
<1>3. CASE Om!Close(h)
  <2>1. /\ l.at = "close" /\ world' = world /\ sent' = sent /\ store' = store
        /\ (Om!Has(store, Om!TraceKey) /\ Om!Has(store, Om!SpanKey)) => Om!Goto(h, "closeOut", l)
        /\ ~(Om!Has(store, Om!TraceKey) /\ Om!Has(store, Om!SpanKey)) => Om!Goto(h, l.next, l)
        /\ ~Om!Has(store, Om!TraceKey) => OmId = None
        /\ ~Om!Has(store, Om!SpanKey) => ~OmParent
    BY <1>3 DEF Om!Close, OmId, OmParent, Om!Get, Om!Has
  <2> HIDE DEF l
  <2>2. OmStore(h, l)
    BY <2>1, <1>n DEF OmStore
  <2>3. OmPlaced(t) /\ OmFrom(l, t)
    BY <2>1, <1>g, <1>l DEF OmPlaced, OmPast, OmFrom, Om!Kinds, OmEnd, OmRoot, OmCloses, OmOpening, OmSpans
  <2>4. OmVars(l, t)
    BY <2>1, <1>g, <1>l DEF OmVars, OmHeld, OmPlaced
  <2>5. OmSends(h, l)
    BY <2>1 DEF OmSends
  <2>6. DOMAIN hooks' = OmHooks /\ \A g \in OmHooks : g # h => hooks'[g] = hooks[g]
    BY <2>1, <1>g, <1>l
  <2> QED
    BY <2>1, <2>2, <2>3, <2>4, <2>5, <2>6 DEF Om!Running, OmMove, l, t
<1>4. CASE Om!CloseOut(h)
  <2> DEFINE k == [l EXCEPT !.out = OmOut]
  <2>k. /\ DOMAIN k = OmFields /\ k.out = (OmOut)
        /\ k.kind = l.kind /\ k.trace = l.trace /\ k.span = l.span /\ k.final = l.final /\ k.tools = l.tools /\ k.next = l.next
    BY <1>l DEF OmFields
  <2> HIDE DEF k
  <2>1. /\ l.at = "closeOut" /\ world' = world /\ sent' = sent /\ store' = store
        /\ Om!Goto(h, "rootTrace", k)
    BY <1>4 DEF Om!CloseOut, OmOut, k
  <2> HIDE DEF l
  <2>2. OmStore(h, l)
    BY <2>1, <1>n DEF OmStore
  <2>3. OmPlaced(t) /\ OmFrom(l, t)
    BY <2>1, <2>k, <1>g, <1>l DEF OmPlaced, OmPast, OmFrom, Om!Kinds, OmEnd, OmRoot, OmCloses, OmOpening, OmSpans
  <2>4. OmVars(l, t)
    BY <2>1, <2>k, <1>g, <1>l DEF OmVars, OmHeld, OmPlaced
  <2>5. OmSends(h, l)
    BY <2>1 DEF OmSends
  <2>6. DOMAIN hooks' = OmHooks /\ \A g \in OmHooks : g # h => hooks'[g] = hooks[g]
    BY <2>1, <2>k, <1>g, <1>l
  <2> QED
    BY <2>1, <2>2, <2>3, <2>4, <2>5, <2>6 DEF Om!Running, OmMove, l, t
<1>5. CASE Om!EndTrace(h)
  <2>1. /\ l.at = "endTrace" /\ world' = world /\ sent' = sent /\ store' = store
        /\ (Om!Has(store, Om!TraceKey)) => Om!Goto(h, "endSpan", l)
        /\ ~(Om!Has(store, Om!TraceKey)) => Om!Goto(h, "done", l)
        /\ ~Om!Has(store, Om!TraceKey) => OmId = None
    BY <1>5 DEF Om!EndTrace, OmId, Om!Get, Om!Has
  <2> HIDE DEF l
  <2>2. OmStore(h, l)
    BY <2>1, <1>n DEF OmStore
  <2>3. OmPlaced(t) /\ OmFrom(l, t)
    BY <2>1, <1>g, <1>l DEF OmPlaced, OmPast, OmFrom, Om!Kinds, OmEnd, OmRoot, OmCloses, OmOpening, OmSpans
  <2>4. OmVars(l, t)
    BY <2>1, <1>g, <1>l DEF OmVars, OmHeld, OmPlaced
  <2>5. OmSends(h, l)
    BY <2>1 DEF OmSends
  <2>6. DOMAIN hooks' = OmHooks /\ \A g \in OmHooks : g # h => hooks'[g] = hooks[g]
    BY <2>1, <1>g, <1>l
  <2> QED
    BY <2>1, <2>2, <2>3, <2>4, <2>5, <2>6 DEF Om!Running, OmMove, l, t
<1>6. CASE Om!EndSpan(h)
  <2>1. /\ l.at = "endSpan" /\ world' = world /\ sent' = sent /\ store' = store
        /\ (Om!Has(store, Om!SpanKey)) => Om!Goto(h, "endOut", l)
        /\ ~(Om!Has(store, Om!SpanKey)) => Om!Goto(h, "done", l)
        /\ ~Om!Has(store, Om!SpanKey) => ~OmParent
    BY <1>6 DEF Om!EndSpan, OmParent, Om!Get, Om!Has
  <2> HIDE DEF l
  <2>2. OmStore(h, l)
    BY <2>1, <1>n DEF OmStore
  <2>3. OmPlaced(t) /\ OmFrom(l, t)
    BY <2>1, <1>g, <1>l DEF OmPlaced, OmPast, OmFrom, Om!Kinds, OmEnd, OmRoot, OmCloses, OmOpening, OmSpans
  <2>4. OmVars(l, t)
    BY <2>1, <1>g, <1>l DEF OmVars, OmHeld, OmPlaced
  <2>5. OmSends(h, l)
    BY <2>1 DEF OmSends
  <2>6. DOMAIN hooks' = OmHooks /\ \A g \in OmHooks : g # h => hooks'[g] = hooks[g]
    BY <2>1, <1>g, <1>l
  <2> QED
    BY <2>1, <2>2, <2>3, <2>4, <2>5, <2>6 DEF Om!Running, OmMove, l, t
<1>7. CASE Om!EndOut(h)
  <2> DEFINE k == [l EXCEPT !.out = IF l.final # None THEN l.final ELSE OmOut]
  <2>k. /\ DOMAIN k = OmFields /\ k.out = (IF l.final # None THEN l.final ELSE OmOut)
        /\ k.kind = l.kind /\ k.trace = l.trace /\ k.span = l.span /\ k.final = l.final /\ k.tools = l.tools /\ k.next = l.next
    BY <1>l DEF OmFields
  <2> HIDE DEF k
  <2>1. /\ l.at = "endOut" /\ world' = world /\ sent' = sent /\ store' = store
        /\ Om!Goto(h, "rootTrace", k)
    BY <1>7 DEF Om!EndOut, OmOut, k
  <2> HIDE DEF l
  <2>2. OmStore(h, l)
    BY <2>1, <1>n DEF OmStore
  <2>3. OmPlaced(t) /\ OmFrom(l, t)
    BY <2>1, <2>k, <1>g, <1>l DEF OmPlaced, OmPast, OmFrom, Om!Kinds, OmEnd, OmRoot, OmCloses, OmOpening, OmSpans
  <2>4. OmVars(l, t)
    BY <2>1, <2>k, <1>g, <1>l DEF OmVars, OmHeld, OmPlaced
  <2>5. OmSends(h, l)
    BY <2>1 DEF OmSends
  <2>6. DOMAIN hooks' = OmHooks /\ \A g \in OmHooks : g # h => hooks'[g] = hooks[g]
    BY <2>1, <2>k, <1>g, <1>l
  <2> QED
    BY <2>1, <2>2, <2>3, <2>4, <2>5, <2>6 DEF Om!Running, OmMove, l, t
<1>8. CASE Om!RootTrace(h)
  <2> DEFINE k == [l EXCEPT !.trace = OmId]
  <2>k. /\ DOMAIN k = OmFields /\ k.trace = (OmId)
        /\ k.kind = l.kind /\ k.span = l.span /\ k.out = l.out /\ k.final = l.final /\ k.tools = l.tools /\ k.next = l.next
    BY <1>l DEF OmFields
  <2> HIDE DEF k
  <2>1. /\ l.at = "rootTrace" /\ world' = world /\ sent' = sent /\ store' = store
        /\ (OmId = None) => Om!Goto(h, l.next, k)
        /\ ~(OmId = None) => Om!Goto(h, "rootSpan", k)
    BY <1>8 DEF Om!RootTrace, OmId, k
  <2> HIDE DEF l
  <2>2. OmStore(h, l)
    BY <2>1, <1>n DEF OmStore
  <2>3. OmPlaced(t) /\ OmFrom(l, t)
    BY <2>1, <2>k, <1>g, <1>l DEF OmPlaced, OmPast, OmFrom, Om!Kinds, OmEnd, OmRoot, OmCloses, OmOpening, OmSpans
  <2>4. OmVars(l, t)
    BY <2>1, <2>k, <1>g, <1>l DEF OmVars, OmHeld, OmPlaced
  <2>5. OmSends(h, l)
    BY <2>1 DEF OmSends
  <2>6. DOMAIN hooks' = OmHooks /\ \A g \in OmHooks : g # h => hooks'[g] = hooks[g]
    BY <2>1, <2>k, <1>g, <1>l
  <2> QED
    BY <2>1, <2>2, <2>3, <2>4, <2>5, <2>6 DEF Om!Running, OmMove, l, t
<1>9. CASE Om!RootSpan(h)
  <2> DEFINE k == [l EXCEPT !.span = Om!Get(store, Om!SpanKey)]
  <2>k. /\ DOMAIN k = OmFields /\ k.span = (Om!Get(store, Om!SpanKey))
        /\ k.kind = l.kind /\ k.trace = l.trace /\ k.out = l.out /\ k.final = l.final /\ k.tools = l.tools /\ k.next = l.next
    BY <1>l DEF OmFields
  <2> HIDE DEF k
  <2>1. /\ l.at = "rootSpan" /\ world' = world /\ sent' = sent /\ store' = store
        /\ ~OmParent => Om!Goto(h, l.next, k)
        /\ OmParent => Om!Goto(h, "sendRoot", k)
    BY <1>9 DEF Om!RootSpan, OmParent, k
  <2> HIDE DEF l
  <2>2. OmStore(h, l)
    BY <2>1, <1>n DEF OmStore
  <2>3. OmPlaced(t) /\ OmFrom(l, t)
    BY <2>1, <2>k, <1>g, <1>l DEF OmPlaced, OmPast, OmFrom, Om!Kinds, OmEnd, OmRoot, OmCloses, OmOpening, OmSpans
  <2>4. OmVars(l, t)
    BY <2>1, <2>k, <1>g, <1>l DEF OmVars, OmHeld, OmPlaced
  <2>5. OmSends(h, l)
    BY <2>1 DEF OmSends
  <2>6. DOMAIN hooks' = OmHooks /\ \A g \in OmHooks : g # h => hooks'[g] = hooks[g]
    BY <2>1, <2>k, <1>g, <1>l
  <2> QED
    BY <2>1, <2>2, <2>3, <2>4, <2>5, <2>6 DEF Om!Running, OmMove, l, t
<1>10. CASE Om!SendRoot(h)
  <2>1. /\ l.at = "sendRoot" /\ world' = world /\ store' = store
        /\ Om!Goto(h, "clear", l) /\ sent' = Append(sent, [what |-> "root", trace |-> l.trace, by |-> h, out |-> l.out])
    BY <1>10 DEF Om!SendRoot
  <2> HIDE DEF l
  <2>2. OmStore(h, l)
    BY <2>1, <1>n DEF OmStore
  <2>3. OmPlaced(t) /\ OmFrom(l, t)
    BY <2>1, <1>g, <1>l DEF OmPlaced, OmPast, OmFrom, Om!Kinds, OmEnd, OmRoot, OmCloses, OmOpening, OmSpans
  <2>4. OmVars(l, t)
    BY <2>1, <1>g, <1>l DEF OmVars, OmHeld, OmPlaced
  <2>5. OmSends(h, l)
    <3> DEFINE s == [what |-> "root", trace |-> l.trace, by |-> h, out |-> l.out]
    <3>1. sent' = Append(sent, s) /\ s.trace = l.trace /\ s.by = h
      BY <2>1
    <3>2. (s.what = "root" <=> l.at = "sendRoot") /\ (l.at = "sendRoot" => s.out = l.out)
      BY <2>1
    <3> HIDE DEF s
    <3> QED
      BY <2>1, <3>1, <3>2 DEF OmSends
  <2>6. DOMAIN hooks' = OmHooks /\ \A g \in OmHooks : g # h => hooks'[g] = hooks[g]
    BY <2>1, <1>g, <1>l
  <2> QED
    BY <2>1, <2>2, <2>3, <2>4, <2>5, <2>6 DEF Om!Running, OmMove, l, t
<1>11. CASE Om!Clear(h)
  <2>1. /\ l.at = "clear" /\ world' = world /\ sent' = sent
        /\ store' = Om!Drop(store, {Om!TraceKey}) /\ Om!Goto(h, "clearSpan", l)
    BY <1>11 DEF Om!Clear
  <2> HIDE DEF l
  <2>2. OmStore(h, l)
    BY <2>1, <1>w, <1>l, OmKeys DEF OmStore
  <2>3. OmPlaced(t) /\ OmFrom(l, t)
    BY <2>1, <1>g, <1>l DEF OmPlaced, OmPast, OmFrom, Om!Kinds, OmEnd, OmRoot, OmCloses, OmOpening, OmSpans
  <2>4. OmVars(l, t)
    BY <2>1, <1>g, <1>l DEF OmVars, OmHeld, OmPlaced
  <2>5. OmSends(h, l)
    BY <2>1 DEF OmSends
  <2>6. DOMAIN hooks' = OmHooks /\ \A g \in OmHooks : g # h => hooks'[g] = hooks[g]
    BY <2>1, <1>g, <1>l
  <2> QED
    BY <2>1, <2>2, <2>3, <2>4, <2>5, <2>6 DEF Om!Running, OmMove, l, t
<1>12. CASE Om!ClearSpan(h)
  <2>1. /\ l.at = "clearSpan" /\ world' = world /\ sent' = sent
        /\ store' = Om!Drop(store, {Om!SpanKey}) /\ Om!Goto(h, "clearOut", l)
    BY <1>12 DEF Om!ClearSpan
  <2> HIDE DEF l
  <2>2. OmStore(h, l)
    BY <2>1, <1>w, <1>l, OmKeys DEF OmStore
  <2>3. OmPlaced(t) /\ OmFrom(l, t)
    BY <2>1, <1>g, <1>l DEF OmPlaced, OmPast, OmFrom, Om!Kinds, OmEnd, OmRoot, OmCloses, OmOpening, OmSpans
  <2>4. OmVars(l, t)
    BY <2>1, <1>g, <1>l DEF OmVars, OmHeld, OmPlaced
  <2>5. OmSends(h, l)
    BY <2>1 DEF OmSends
  <2>6. DOMAIN hooks' = OmHooks /\ \A g \in OmHooks : g # h => hooks'[g] = hooks[g]
    BY <2>1, <1>g, <1>l
  <2> QED
    BY <2>1, <2>2, <2>3, <2>4, <2>5, <2>6 DEF Om!Running, OmMove, l, t
<1>13. CASE Om!ClearOut(h)
  <2>1. /\ l.at = "clearOut" /\ world' = world /\ sent' = sent
        /\ store' = Om!Drop(store, {Om!OutKey}) /\ Om!Goto(h, l.next, l)
    BY <1>13 DEF Om!ClearOut
  <2> HIDE DEF l
  <2>2. OmStore(h, l)
    BY <2>1, <1>w, <1>l, OmKeys DEF OmStore
  <2>3. OmPlaced(t) /\ OmFrom(l, t)
    BY <2>1, <1>g, <1>l DEF OmPlaced, OmPast, OmFrom, Om!Kinds, OmEnd, OmRoot, OmCloses, OmOpening, OmSpans
  <2>4. OmVars(l, t)
    BY <2>1, <1>g, <1>l DEF OmVars, OmHeld, OmPlaced
  <2>5. OmSends(h, l)
    BY <2>1 DEF OmSends
  <2>6. DOMAIN hooks' = OmHooks /\ \A g \in OmHooks : g # h => hooks'[g] = hooks[g]
    BY <2>1, <1>g, <1>l
  <2> QED
    BY <2>1, <2>2, <2>3, <2>4, <2>5, <2>6 DEF Om!Running, OmMove, l, t
<1>14. CASE Om!Open(h)
  <2>1. /\ l.at = "open" /\ world' = world /\ sent' = sent
        /\ store' = Om!Put(store, Om!TraceKey, h) /\ Om!Goto(h, "openSpan", l)
    BY <1>14 DEF Om!Open
  <2> HIDE DEF l
  <2>2. OmStore(h, l)
    BY <2>1, <1>w, <1>l, OmKeys DEF OmStore
  <2>3. OmPlaced(t) /\ OmFrom(l, t)
    BY <2>1, <1>g, <1>l DEF OmPlaced, OmPast, OmFrom, Om!Kinds, OmEnd, OmRoot, OmCloses, OmOpening, OmSpans
  <2>4. OmVars(l, t)
    BY <2>1, <1>g, <1>l DEF OmVars, OmHeld, OmPlaced
  <2>5. OmSends(h, l)
    BY <2>1 DEF OmSends
  <2>6. DOMAIN hooks' = OmHooks /\ \A g \in OmHooks : g # h => hooks'[g] = hooks[g]
    BY <2>1, <1>g, <1>l
  <2> QED
    BY <2>1, <2>2, <2>3, <2>4, <2>5, <2>6 DEF Om!Running, OmMove, l, t
<1>15. CASE Om!OpenSpan(h)
  <2>1. /\ l.at = "openSpan" /\ world' = world /\ sent' = sent
        /\ store' = Om!Put(store, Om!SpanKey, h) /\ Om!Goto(h, "openOut", l)
    BY <1>15 DEF Om!OpenSpan
  <2> HIDE DEF l
  <2>2. OmStore(h, l)
    BY <2>1, <1>w, <1>l, OmKeys DEF OmStore
  <2>3. OmPlaced(t) /\ OmFrom(l, t)
    BY <2>1, <1>g, <1>l DEF OmPlaced, OmPast, OmFrom, Om!Kinds, OmEnd, OmRoot, OmCloses, OmOpening, OmSpans
  <2>4. OmVars(l, t)
    BY <2>1, <1>g, <1>l DEF OmVars, OmHeld, OmPlaced
  <2>5. OmSends(h, l)
    BY <2>1 DEF OmSends
  <2>6. DOMAIN hooks' = OmHooks /\ \A g \in OmHooks : g # h => hooks'[g] = hooks[g]
    BY <2>1, <1>g, <1>l
  <2> QED
    BY <2>1, <2>2, <2>3, <2>4, <2>5, <2>6 DEF Om!Running, OmMove, l, t
<1>16. CASE Om!OpenOut(h)
  <2>1. /\ l.at = "openOut" /\ world' = world /\ sent' = sent
        /\ store' = Om!Put(store, Om!OutKey, None)
        /\ Om!Goto(h, IF l.kind = "start" THEN "done" ELSE "spanTrace", l)
    BY <1>16 DEF Om!OpenOut
  <2> HIDE DEF l
  <2>2. OmStore(h, l)
    BY <2>1, <1>w, <1>l, OmKeys DEF OmStore
  <2>3. OmPlaced(t) /\ OmFrom(l, t)
    BY <2>1, <1>g, <1>l DEF OmPlaced, OmPast, OmFrom, Om!Kinds, OmEnd, OmRoot, OmCloses, OmOpening, OmSpans
  <2>4. OmVars(l, t)
    BY <2>1, <1>g, <1>l DEF OmVars, OmHeld, OmPlaced
  <2>5. OmSends(h, l)
    BY <2>1 DEF OmSends
  <2>6. DOMAIN hooks' = OmHooks /\ \A g \in OmHooks : g # h => hooks'[g] = hooks[g]
    BY <2>1, <1>g, <1>l
  <2> QED
    BY <2>1, <2>2, <2>3, <2>4, <2>5, <2>6 DEF Om!Running, OmMove, l, t
<1>17. CASE Om!Check(h)
  <2>1. /\ l.at = "check" /\ world' = world /\ sent' = sent /\ store' = store
        /\ (Om!Has(store, Om!TraceKey)) => Om!Goto(h, "spanTrace", l)
        /\ ~(Om!Has(store, Om!TraceKey)) => Om!Goto(h, "open", l)
        /\ ~Om!Has(store, Om!TraceKey) => OmId = None
    BY <1>17 DEF Om!Check, OmId, Om!Get, Om!Has
  <2> HIDE DEF l
  <2>2. OmStore(h, l)
    BY <2>1, <1>n DEF OmStore
  <2>3. OmPlaced(t) /\ OmFrom(l, t)
    BY <2>1, <1>g, <1>l DEF OmPlaced, OmPast, OmFrom, Om!Kinds, OmEnd, OmRoot, OmCloses, OmOpening, OmSpans
  <2>4. OmVars(l, t)
    BY <2>1, <1>g, <1>l DEF OmVars, OmHeld, OmPlaced
  <2>5. OmSends(h, l)
    BY <2>1 DEF OmSends
  <2>6. DOMAIN hooks' = OmHooks /\ \A g \in OmHooks : g # h => hooks'[g] = hooks[g]
    BY <2>1, <1>g, <1>l
  <2> QED
    BY <2>1, <2>2, <2>3, <2>4, <2>5, <2>6 DEF Om!Running, OmMove, l, t
<1>18. CASE Om!SpanTrace(h)
  <2> DEFINE k == [l EXCEPT !.trace = OmId]
  <2>k. /\ DOMAIN k = OmFields /\ k.trace = (OmId)
        /\ k.kind = l.kind /\ k.span = l.span /\ k.out = l.out /\ k.final = l.final /\ k.tools = l.tools /\ k.next = l.next
    BY <1>l DEF OmFields
  <2> HIDE DEF k
  <2>1. /\ l.at \in {"spanTrace", "toolTrace"} /\ world' = world /\ sent' = sent /\ store' = store
        /\ \E s : /\ OmId # None /\ l.at = "spanTrace" => s = "llmSpan"
                  /\ OmId # None /\ l.at = "toolTrace" => s = "toolSpan"
                  /\ OmId = None => s = "done" \/ (s = "toolTrace" /\ l.at = "spanTrace")
                  /\ Om!Goto(h, s, k)
    BY <1>18 DEF Om!SpanTrace, Om!AfterLlm, OmId, k
  <2> HIDE DEF l
  <2>2. OmStore(h, l)
    BY <2>1, <1>n DEF OmStore
  <2>3. OmPlaced(t) /\ OmFrom(l, t)
    BY <2>1, <2>k, <1>g, <1>l DEF OmPlaced, OmPast, OmFrom, Om!Kinds, OmEnd, OmRoot, OmCloses, OmOpening, OmSpans
  <2>4. OmVars(l, t)
    BY <2>1, <2>k, <1>g, <1>l DEF OmVars, OmHeld, OmPlaced
  <2>5. OmSends(h, l)
    BY <2>1 DEF OmSends
  <2>6. DOMAIN hooks' = OmHooks /\ \A g \in OmHooks : g # h => hooks'[g] = hooks[g]
    BY <2>1, <2>k, <1>g, <1>l
  <2> QED
    BY <2>1, <2>2, <2>3, <2>4, <2>5, <2>6 DEF Om!Running, OmMove, l, t
<1>19. CASE Om!SpanParent(h)
  <2> DEFINE k == [l EXCEPT !.span = Om!Get(store, Om!SpanKey)]
  <2>k. /\ DOMAIN k = OmFields /\ k.span = (Om!Get(store, Om!SpanKey))
        /\ k.kind = l.kind /\ k.trace = l.trace /\ k.out = l.out /\ k.final = l.final /\ k.tools = l.tools /\ k.next = l.next
    BY <1>l DEF OmFields
  <2> HIDE DEF k
  <2>1. /\ l.at \in {"llmSpan", "toolSpan"} /\ world' = world /\ sent' = sent /\ store' = store
        /\ \/ l.at = "llmSpan" /\ Om!Goto(h, "sendLlm", k)
           \/ l.at = "toolSpan" /\ Om!Goto(h, "sendTool", k)
           \/ l.at = "llmSpan" /\ Om!Goto(h, "toolTrace", k)
           \/ Om!Goto(h, "done", k)
    BY <1>19 DEF Om!SpanParent, Om!AfterLlm, k
  <2> HIDE DEF l
  <2>2. OmStore(h, l)
    BY <2>1, <1>n DEF OmStore
  <2>3. OmPlaced(t) /\ OmFrom(l, t)
    BY <2>1, <2>k, <1>g, <1>l DEF OmPlaced, OmPast, OmFrom, Om!Kinds, OmEnd, OmRoot, OmCloses, OmOpening, OmSpans
  <2>4. OmVars(l, t)
    BY <2>1, <2>k, <1>g, <1>l DEF OmVars, OmHeld, OmPlaced
  <2>5. OmSends(h, l)
    BY <2>1 DEF OmSends
  <2>6. DOMAIN hooks' = OmHooks /\ \A g \in OmHooks : g # h => hooks'[g] = hooks[g]
    BY <2>1, <2>k, <1>g, <1>l
  <2> QED
    BY <2>1, <2>2, <2>3, <2>4, <2>5, <2>6 DEF Om!Running, OmMove, l, t
<1>20. CASE Om!SendLlm(h)
  <2>1. /\ l.at = "sendLlm" /\ world' = world /\ store' = store
        /\ Om!Goto(h, "setOut", l) /\ sent' = Append(sent, [what |-> "llm", trace |-> l.trace, by |-> h, out |-> h])
    BY <1>20 DEF Om!SendLlm
  <2> HIDE DEF l
  <2>2. OmStore(h, l)
    BY <2>1, <1>n DEF OmStore
  <2>3. OmPlaced(t) /\ OmFrom(l, t)
    BY <2>1, <1>g, <1>l DEF OmPlaced, OmPast, OmFrom, Om!Kinds, OmEnd, OmRoot, OmCloses, OmOpening, OmSpans
  <2>4. OmVars(l, t)
    BY <2>1, <1>g, <1>l DEF OmVars, OmHeld, OmPlaced
  <2>5. OmSends(h, l)
    <3> DEFINE s == [what |-> "llm", trace |-> l.trace, by |-> h, out |-> h]
    <3>1. sent' = Append(sent, s) /\ s.trace = l.trace /\ s.by = h
      BY <2>1
    <3>2. (s.what = "root" <=> l.at = "sendRoot") /\ (l.at = "sendRoot" => s.out = l.out)
      BY <2>1
    <3> HIDE DEF s
    <3> QED
      BY <2>1, <3>1, <3>2 DEF OmSends
  <2>6. DOMAIN hooks' = OmHooks /\ \A g \in OmHooks : g # h => hooks'[g] = hooks[g]
    BY <2>1, <1>g, <1>l
  <2> QED
    BY <2>1, <2>2, <2>3, <2>4, <2>5, <2>6 DEF Om!Running, OmMove, l, t
<1>21. CASE Om!SetOut(h)
  <2>1. /\ l.at = "setOut" /\ world' = world /\ sent' = sent
        /\ store' = Om!Put(store, Om!OutKey, h)
        /\ Om!Goto(h, "toolTrace", l) \/ Om!Goto(h, "done", l)
    BY <1>21 DEF Om!SetOut, Om!AfterLlm
  <2> HIDE DEF l
  <2>2. OmStore(h, l)
    BY <2>1, <1>w, <1>l, OmKeys DEF OmStore
  <2>3. OmPlaced(t) /\ OmFrom(l, t)
    BY <2>1, <1>g, <1>l DEF OmPlaced, OmPast, OmFrom, Om!Kinds, OmEnd, OmRoot, OmCloses, OmOpening, OmSpans
  <2>4. OmVars(l, t)
    BY <2>1, <1>g, <1>l DEF OmVars, OmHeld, OmPlaced
  <2>5. OmSends(h, l)
    BY <2>1 DEF OmSends
  <2>6. DOMAIN hooks' = OmHooks /\ \A g \in OmHooks : g # h => hooks'[g] = hooks[g]
    BY <2>1, <1>g, <1>l
  <2> QED
    BY <2>1, <2>2, <2>3, <2>4, <2>5, <2>6 DEF Om!Running, OmMove, l, t
<1>22. CASE Om!SendTool(h)
  <2>1. /\ l.at = "sendTool" /\ world' = world /\ store' = store
        /\ Om!Goto(h, "done", l) /\ sent' = Append(sent, [what |-> "tool", trace |-> l.trace, by |-> h, out |-> None])
    BY <1>22 DEF Om!SendTool
  <2> HIDE DEF l
  <2>2. OmStore(h, l)
    BY <2>1, <1>n DEF OmStore
  <2>3. OmPlaced(t) /\ OmFrom(l, t)
    BY <2>1, <1>g, <1>l DEF OmPlaced, OmPast, OmFrom, Om!Kinds, OmEnd, OmRoot, OmCloses, OmOpening, OmSpans
  <2>4. OmVars(l, t)
    BY <2>1, <1>g, <1>l DEF OmVars, OmHeld, OmPlaced
  <2>5. OmSends(h, l)
    <3> DEFINE s == [what |-> "tool", trace |-> l.trace, by |-> h, out |-> None]
    <3>1. sent' = Append(sent, s) /\ s.trace = l.trace /\ s.by = h
      BY <2>1
    <3>2. (s.what = "root" <=> l.at = "sendRoot") /\ (l.at = "sendRoot" => s.out = l.out)
      BY <2>1
    <3> HIDE DEF s
    <3> QED
      BY <2>1, <3>1, <3>2 DEF OmSends
  <2>6. DOMAIN hooks' = OmHooks /\ \A g \in OmHooks : g # h => hooks'[g] = hooks[g]
    BY <2>1, <1>g, <1>l
  <2> QED
    BY <2>1, <2>2, <2>3, <2>4, <2>5, <2>6 DEF Om!Running, OmMove, l, t
<1> QED
  BY <1>1, <1>2, <1>3, <1>4, <1>5, <1>6, <1>7, <1>8, <1>9, <1>10, <1>11, <1>12, <1>13, <1>14, <1>15, <1>16, <1>17, <1>18, <1>19, <1>20, <1>21, <1>22 DEF Om!Step

OmBegin(h, k, f) ==
  /\ hooks[h].at = "new" /\ DOMAIN hooks' = OmHooks /\ (\A g \in OmHooks : g # h => hooks'[g] = hooks[g])
  /\ DOMAIN hooks'[h] = OmFields /\ hooks'[h].at = "ensure" /\ hooks'[h].kind = k /\ hooks'[h].final = f
  /\ k \in Om!Kinds /\ Om!Possible(k) /\ Om!MayOverlap(k)
  /\ f = IF k = "turnEnd" THEN h ELSE Om!LastAnswer
  /\ store' = store /\ sent' = sent
  /\ DOMAIN world' = DOMAIN world /\ world'.race = world.race /\ world'.died = world.died
  /\ world'.log = Append(world.log, [kind |-> k, by |-> h, final |-> f])

LEMMA OmBegins ==
  ASSUME OmLog, NEW h \in OmHooks, Om!Fire(h)
  PROVE  \E k, f : OmBegin(h, k, f)
<1>1. PICK k \in Om!Kinds, n \in 0 .. 1 :
        /\ Om!Possible(k) /\ Om!MayOverlap(k)
        /\ LET f == IF k = "turnEnd" THEN h ELSE Om!LastAnswer IN
           /\ Om!Goto(h, "ensure", [Om!Unborn EXCEPT !.kind = k, !.tools = n, !.final = f])
           /\ world' = [world EXCEPT !.log = Append(@, [kind |-> k, by |-> h, final |-> f])]
  BY DEF Om!Fire
<1> DEFINE f == IF k = "turnEnd" THEN h ELSE Om!LastAnswer
           l == [Om!Unborn EXCEPT !.kind = k, !.tools = n, !.final = f]
<1> HIDE DEF f
<1>2. DOMAIN l = OmFields /\ l.kind = k /\ l.final = f
  BY DEF Om!Unborn, OmFields
<1>3. Om!Goto(h, "ensure", l) /\ DOMAIN hooks = OmHooks /\ DOMAIN world = {"race", "died", "log"}
  BY <1>1 DEF OmLog, f
<1> HIDE DEF l
<1>4. /\ DOMAIN hooks' = OmHooks /\ (\A g \in OmHooks : g # h => hooks'[g] = hooks[g])
      /\ DOMAIN hooks'[h] = OmFields /\ hooks'[h].at = "ensure" /\ hooks'[h].kind = k /\ hooks'[h].final = f
  BY <1>2, <1>3, OmGoto
<1>5. world' = [world EXCEPT !.log = Append(@, [kind |-> k, by |-> h, final |-> f])]
  BY <1>1 DEF f
<1>6. /\ DOMAIN world' = DOMAIN world /\ world'.race = world.race /\ world'.died = world.died
      /\ world'.log = Append(world.log, [kind |-> k, by |-> h, final |-> f])
  BY <1>3, <1>5
<1>7. hooks[h].at = "new" /\ store' = store /\ sent' = sent
  BY DEF Om!Fire
<1>8. f = IF k = "turnEnd" THEN h ELSE Om!LastAnswer
  BY DEF f
<1> QED
  BY <1>1, <1>4, <1>6, <1>7, <1>8 DEF OmBegin

(* A hook dies.                                                            *)
OmDeath(h) ==
  /\ Om!Running(h) /\ DOMAIN hooks' = OmHooks /\ (\A g \in OmHooks : g # h => hooks'[g] = hooks[g])
  /\ DOMAIN hooks'[h] = OmFields /\ hooks'[h].at = "done"
  /\ store' = store /\ sent' = sent
  /\ DOMAIN world' = DOMAIN world /\ world'.race = world.race /\ world'.log = world.log
  /\ world'.died = world.died \cup {h}

LEMMA OmDeaths ==
  ASSUME OmLog, NEW h \in OmHooks, Om!Crash(h)
  PROVE  OmDeath(h)
<1>1. DOMAIN hooks = OmHooks /\ DOMAIN world = {"race", "died", "log"}
  BY DEF OmLog
<1>2. DOMAIN Om!Ended = OmFields /\ Om!Ended.at = "done"
  BY DEF Om!Ended, Om!Unborn, OmFields
<1>3. hooks' = [hooks EXCEPT ![h] = Om!Ended]
  BY DEF Om!Crash
<1>4. hooks'[h] = Om!Ended /\ DOMAIN hooks' = OmHooks /\ (\A g \in OmHooks : g # h => hooks'[g] = hooks[g])
  BY <1>1, <1>3
<1>5. world' = [world EXCEPT !.died = @ \cup {h}]
  BY DEF Om!Crash
<1>6. /\ DOMAIN world' = DOMAIN world /\ world'.race = world.race /\ world'.log = world.log
      /\ world'.died = world.died \cup {h}
  BY <1>1, <1>5
<1> QED
  BY <1>2, <1>4, <1>6 DEF Om!Crash, OmDeath

(* A step is the begin, the death or a move of a hook.                     *)
LEMMA OmSteps ==
  ASSUME OmLog, NEW h \in OmHooks, Om!Step(h)
  PROVE  OmMove(h) \/ OmDeath(h) \/ \E k, f : OmBegin(h, k, f)
BY OmMoves, OmBegins, OmDeaths

(* Every event of a run has one start.                                     *)
LEMMA OmRunOf ==
  ASSUME OmLog, NEW p, NEW i \in DOMAIN world.log, RunOf(p, i)
  PROVE  /\ p \in Nat /\ p \in DOMAIN world.log /\ i \in Nat /\ p <= i /\ world.log[p].kind = "start"
         /\ \A q : RunOf(q, i) => q = p
         /\ Om!StartOf(i) = p
<1>1. Len(world.log) \in Nat /\ DOMAIN world.log = 1 .. Len(world.log)
  BY AppendAny DEF OmLog
<1>2. p \in Nat /\ i \in Nat /\ p \in DOMAIN world.log /\ p <= i /\ world.log[p].kind = "start"
  BY <1>1 DEF RunOf, EventsOf
<1>3. \A q : RunOf(q, i) => q \in Nat /\ q <= p /\ p <= q
  BY <1>1 DEF RunOf, EventsOf
<1>4. \A q : RunOf(q, i) => q = p
  BY <1>2, <1>3
<1> DEFINE I == {j \in EventsOf("start") : j < i + 1}
<1>5. Om!Before(i + 1, Om!Events("start")) = I
  BY DEF Om!Before, Om!Events, EventsOf
<1>6. \A j : RunOf(j, i) <=> j \in I /\ \A q \in I : q <= j
  BY <1>1, <1>2 DEF RunOf, EventsOf
<1> HIDE DEF I
<1>7. Om!StartOf(i) = CHOOSE j \in I : \A q \in I : q <= j
  BY <1>5 DEF Om!StartOf, Om!LastOf
<1>8. p \in I /\ (\A q \in I : q <= p) /\ \A j \in I : (\A q \in I : q <= j) => j = p
  BY <1>4, <1>6
<1>9. (CHOOSE j \in I : \A q \in I : q <= j) = p
  BY <1>8
<1> QED
  BY <1>2, <1>4, <1>7, <1>9

LEMMA OmOfRun ==
  ASSUME OmLog, NEW i \in DOMAIN world.log, world.log[i].kind \in {"turnEnd", "agentEnd"}
  PROVE  \E p \in EventsOf("start") :
           /\ RunOf(p, i) /\ p \in DOMAIN world.log /\ p < i
           /\ \A j \in DOMAIN world.log : p < j /\ j < i => world.log[j].kind = "turnEnd" /\ RunOf(p, j)
           /\ world.log[i].kind = "agentEnd" /\ world.log[i].final = None => p = i - 1
           /\ world.log[i].kind = "agentEnd" /\ world.log[i].final # None =>
                \E j \in EventsOf("turnEnd") : p < j /\ j < i /\ world.log[j].by = world.log[i].final
<1>1. PICK p \in EventsOf("start") :
        /\ p < i /\ \A j \in DOMAIN world.log : p < j /\ j < i => world.log[j].kind = "turnEnd"
        /\ world.log[i].kind = "agentEnd" /\ world.log[i].final = None => p = i - 1
        /\ world.log[i].kind = "agentEnd" /\ world.log[i].final # None =>
             \E j \in EventsOf("turnEnd") : p < j /\ j < i /\ world.log[j].by = world.log[i].final
  BY DEF OmLog
<1>2. DOMAIN world.log = 1 .. Len(world.log) /\ Len(world.log) \in Nat
  BY AppendAny DEF OmLog
<1>3. p \in DOMAIN world.log /\ p \in Nat /\ i \in Nat
  BY <1>2 DEF EventsOf
<1>4. ASSUME NEW j \in DOMAIN world.log, p <= j, j <= i
      PROVE  RunOf(p, j)
  <2>1. ASSUME NEW q \in EventsOf("start"), q <= j
        PROVE  q <= p
    <3>1. q \in DOMAIN world.log /\ world.log[q].kind = "start" /\ q \in Nat /\ j \in Nat
      BY <1>2 DEF EventsOf
    <3>2. q # i /\ ~(p < q /\ q < i)
      BY <1>1, <3>1
    <3> QED
      BY <1>3, <1>4, <2>1, <3>1, <3>2
  <2> QED
    BY <1>4, <2>1 DEF RunOf
<1>5. RunOf(p, i)
  BY <1>1, <1>3, <1>4
<1>6. \A j \in DOMAIN world.log : p < j /\ j < i => RunOf(p, j)
  BY <1>2, <1>3, <1>4
<1> QED
  BY <1>1, <1>3, <1>5, <1>6

(* The run that goes on, and its last answer.                              *)
LEMMA OmInRun ==
  ASSUME OmLog, Om!InRun
  PROVE  \E p \in EventsOf("start") :
           /\ p \in Nat /\ p <= Len(world.log)
           /\ \A j \in DOMAIN world.log : p < j => world.log[j].kind = "turnEnd"
           /\ Om!LastAnswer = None => p = Len(world.log)
           /\ Om!LastAnswer # None =>
                \E j \in EventsOf("turnEnd") : p < j /\ j <= Len(world.log) /\ world.log[j].by = Om!LastAnswer
<1> DEFINE n == Len(world.log)
<1>1. n \in Nat /\ DOMAIN world.log = 1 .. n
  BY AppendAny DEF OmLog
<1>2. n \in DOMAIN world.log /\ world.log[n].kind \in {"start", "turnEnd"}
  BY <1>1 DEF Om!InRun, Om!Here
<1>3. PICK p \in EventsOf("start") :
        /\ RunOf(p, n) /\ p \in Nat /\ p <= n /\ p \in DOMAIN world.log
        /\ \A j \in DOMAIN world.log : p < j => world.log[j].kind = "turnEnd"
        /\ p < n => world.log[n].kind = "turnEnd"
  <2>1. CASE world.log[n].kind = "start"
    <3>1. n \in EventsOf("start") /\ RunOf(n, n)
      BY <1>1, <1>2, <2>1 DEF EventsOf, RunOf
    <3> QED
      BY <1>1, <1>2, <3>1
  <2>2. CASE world.log[n].kind = "turnEnd"
    <3>1. PICK q \in EventsOf("start") :
            /\ RunOf(q, n) /\ q \in DOMAIN world.log /\ q < n
            /\ \A j \in DOMAIN world.log : q < j /\ j < n => world.log[j].kind = "turnEnd"
      BY <1>2, <2>2, OmOfRun
    <3> QED
      BY <1>1, <2>2, <3>1
  <2> QED
    BY <1>2, <2>1, <2>2
<1> DEFINE turns == {i \in Om!Events("turnEnd") : Om!SameRun(i, Om!Here)}
<1>4. Om!LastAnswer = IF turns = {} THEN None ELSE world.log[Om!LastOf(turns)].by
  BY DEF Om!LastAnswer
<1>5. Om!StartOf(n) = p
  BY <1>2, <1>3, OmRunOf
<1>6. ASSUME NEW i \in turns
      PROVE  i \in EventsOf("turnEnd") /\ i \in 1 .. n /\ p < i
  <2>1. i \in EventsOf("turnEnd") /\ i \in DOMAIN world.log /\ Om!StartOf(i) = p /\ world.log[i].kind = "turnEnd"
    BY <1>5 DEF Om!Events, EventsOf, Om!SameRun, Om!Here
  <2>2. PICK q : RunOf(q, i) /\ q < i
    BY <2>1, OmOfRun
  <2>3. q = p
    BY <2>1, <2>2, OmRunOf
  <2> QED
    BY <1>1, <2>1, <2>2, <2>3
<1>7. p < n => n \in turns
  BY <1>2, <1>3, <1>5 DEF Om!Events, Om!SameRun, Om!Here
<1> HIDE DEF turns
<1>8. turns # {} => Om!LastOf(turns) \in turns
  <2>1. turns \in SUBSET (1 .. n)
    BY <1>6
  <2>2. turns # {} => \E i \in turns : \A j \in turns : j <= i
    BY <1>1, <2>1, LastPosition
  <2> QED
    BY <2>2 DEF Om!LastOf
<1>9. \A i \in DOMAIN world.log : world.log[i].by # None
  BY DEF OmLog
<1>10. Om!LastAnswer = None => p = n
  BY <1>1, <1>3, <1>4, <1>6, <1>7, <1>8, <1>9
<1>11. Om!LastAnswer # None =>
        \E j \in EventsOf("turnEnd") : p < j /\ j <= n /\ world.log[j].by = Om!LastAnswer
  BY <1>1, <1>4, <1>6, <1>8
<1> QED
  BY <1>3, <1>10, <1>11

(* A hook that is running has one event, of its kind.                      *)
LEMMA OmEvent ==
  ASSUME OmLog, NEW h \in OmHooks, Om!Running(h)
  PROVE  \E i \in DOMAIN world.log : /\ world.log[i].by = h /\ world.log[i].kind = hooks[h].kind
                                     /\ world.log[i].final = hooks[h].final
<1>1. PICK i \in DOMAIN world.log : world.log[i].by = h
  BY DEF OmLog, Om!Running
<1> QED
  BY <1>1 DEF OmLog

(* Two hooks that are running are those of an answer and of the end.       *)
LEMMA OmSolo ==
  ASSUME OmLog, OmAlone, NEW g \in OmHooks, NEW h \in OmHooks, g # h, Om!Running(g), Om!Running(h)
  PROVE  /\ world.race = "last"
         /\ \/ hooks[g].kind = "turnEnd" /\ hooks[h].kind = "agentEnd"
            \/ hooks[h].kind = "turnEnd" /\ hooks[g].kind = "agentEnd"
<1>1. PICK i \in DOMAIN world.log : world.log[i].by = g /\ world.log[i].kind = hooks[g].kind
  BY OmEvent
<1>2. PICK j \in DOMAIN world.log : world.log[j].by = h /\ world.log[j].kind = hooks[h].kind
  BY OmEvent
<1>3. i \in Nat /\ j \in Nat /\ i # j
  BY <1>1, <1>2, AppendAny DEF OmLog
<1> QED
  BY <1>1, <1>2, <1>3 DEF OmAlone

(* What a move and a death keep.                                           *)
OmKept(h) ==
  /\ Om!Running(h) /\ DOMAIN hooks' = OmHooks /\ (\A g \in OmHooks : g # h => hooks'[g] = hooks[g])
  /\ hooks'[h].at \notin {"new", "ensure"}
  /\ hooks'[h].at # "done" => hooks'[h].kind = hooks[h].kind /\ hooks'[h].final = hooks[h].final
  /\ OmPlaced(hooks'[h])
  /\ DOMAIN world' = DOMAIN world /\ world'.log = world.log /\ world'.race = world.race
  /\ world.died \subseteq world'.died
  /\ \A k : EventsOf(k)' = EventsOf(k)
  /\ \A p, i : RunOf(p, i)' <=> RunOf(p, i)
  /\ \A t : Opened(t) => Opened(t)'
  /\ \A o, t : Fits(o, t) => Fits(o, t)'
  /\ OmHooks' = OmHooks

LEMMA OmKeeps ==
  ASSUME OmLog, NEW h \in OmHooks, OmMove(h) \/ OmDeath(h)
  PROVE  OmKept(h)
<1>1. /\ Om!Running(h) /\ DOMAIN hooks' = OmHooks /\ (\A g \in OmHooks : g # h => hooks'[g] = hooks[g])
      /\ DOMAIN world' = DOMAIN world /\ world'.log = world.log /\ world'.race = world.race
      /\ world.died \subseteq world'.died
  BY DEF OmMove, OmDeath
<1>2. OmPlaced(hooks'[h]) /\ hooks'[h].at \notin {"new", "ensure"}
  BY DEF OmMove, OmDeath, OmPlaced, OmFrom
<1>3. hooks'[h].at # "done" => hooks'[h].kind = hooks[h].kind /\ hooks'[h].final = hooks[h].final
  BY DEF OmMove, OmDeath, OmFrom
<1>4. \A k : EventsOf(k)' = EventsOf(k)
  BY <1>1 DEF EventsOf
<1>5. \A p, i : RunOf(p, i)' <=> RunOf(p, i)
  BY <1>4 DEF RunOf
<1>6. OmHooks' = OmHooks
  BY DEF OmHooks
<1>7. ASSUME NEW t, Opened(t)
      PROVE  Opened(t)'
  <2>1. hooks[h].at \in OmPast => hooks'[h].at \in OmPast
    BY DEF OmMove, OmDeath, OmFrom, OmPast
  <2>2. hooks'[t].at \in OmPast
    BY <1>1, <1>7, <2>1 DEF Opened
  <2> QED
    BY <1>1, <1>6, <1>7, <2>2 DEF Opened, OmPast, OmSpans
<1>8. ASSUME NEW o, NEW t, Fits(o, t)
      PROVE  Fits(o, t)'
  BY <1>1, <1>5, <1>8 DEF Fits
<1> QED
  BY <1>1, <1>2, <1>3, <1>4, <1>5, <1>6, <1>7, <1>8 DEF OmKept

LEMMA OmLogKept ==
  ASSUME OmLog, OmAlone, NEW h \in OmHooks, OmMove(h) \/ OmDeath(h)
  PROVE  OmLog' /\ OmAlone'
<1>k. OmKept(h)
  BY OmKeeps
<1>1. \A g \in OmHooks : OmPlaced(hooks'[g])
  BY <1>k DEF OmLog, OmKept
<1>2. world'.died \subseteq {g \in OmHooks : hooks'[g].at = "done"}
  <2>1. h \notin world.died
    BY DEF OmLog, OmMove, OmDeath, Om!Running
  <2>2. \A g \in world.died : g \in OmHooks /\ hooks[g].at = "done"
    BY DEF OmLog
  <2> QED
    BY <2>1, <2>2 DEF OmMove, OmDeath
<1>3. \A g \in OmHooks : hooks'[g].at # "new" => \E i \in DOMAIN world.log : world.log[i].by = g
  BY <1>k DEF OmLog, OmKept, Om!Running
<1>4. ASSUME NEW i \in DOMAIN world.log
      PROVE  LET e == world.log[i]
                 l == hooks'[e.by] IN
             /\ e.by \in OmHooks /\ l.at # "new" /\ e.kind \in Om!Kinds
             /\ l.at \notin {"new", "done"} => l.kind = e.kind /\ l.final = e.final
  <2> DEFINE e == world.log[i]
  <2>1. /\ e.by \in OmHooks /\ hooks[e.by].at # "new" /\ e.kind \in Om!Kinds
        /\ Om!Running(e.by) => hooks[e.by].kind = e.kind /\ hooks[e.by].final = e.final
    BY DEF OmLog
  <2> QED
    BY <1>k, <2>1 DEF OmKept, Om!Running
<1>5. OmLog'
  <2>1. world'.log = world.log /\ EventsOf("start")' = EventsOf("start") /\ EventsOf("turnEnd")' = EventsOf("turnEnd")
    BY <1>k DEF OmKept
  <2>2. /\ None \notin OmHooks /\ DOMAIN hooks' = OmHooks /\ OmHooks' = OmHooks
        /\ DOMAIN world' = {"race", "died", "log"}
        /\ IsSeq(world.log)
        /\ \A i, j \in DOMAIN world.log : world.log[i].by = world.log[j].by => i = j
    BY <1>k DEF OmLog, OmKept
  <2>3. \A i \in DOMAIN world.log : world.log[i].kind \in {"turnEnd", "agentEnd"} =>
          LET e == world.log[i] IN
          \E p \in EventsOf("start") :
            /\ p < i /\ \A j \in DOMAIN world.log : p < j /\ j < i => world.log[j].kind = "turnEnd"
            /\ e.kind = "agentEnd" /\ e.final = None => p = i - 1
            /\ e.kind = "agentEnd" /\ e.final # None =>
                 \E j \in EventsOf("turnEnd") : p < j /\ j < i /\ world.log[j].by = e.final
    BY DEF OmLog
  <2> QED
    BY <1>1, <1>2, <1>3, <1>4, <2>1, <2>2, <2>3
       DEF OmLog, OmPlaced, IsSeq, Om!Running, Om!Kinds
<1>6. OmAlone'
  <2>1. \A i \in DOMAIN world.log : hooks'[world.log[i].by].at \notin {"new", "done"} => Om!Running(world.log[i].by)
    BY <1>k DEF OmKept, OmLog, Om!Running
  <2>2. world'.log = world.log /\ world'.race = world.race
    BY <1>k DEF OmKept
  <2> SUFFICES ASSUME NEW i \in DOMAIN world.log, NEW j \in DOMAIN world.log, i < j,
                      hooks'[world.log[i].by].at \notin {"new", "done"}
               PROVE  /\ world.race = "last"
                      /\ world.log[i].kind = "turnEnd" /\ world.log[j].kind = "agentEnd"
    BY <2>2 DEF OmAlone, Om!Running
  <2> QED
    BY <2>1 DEF OmAlone
<1> QED
  BY <1>5, <1>6

(* The kind of a hook by the place it is at.                               *)
LEMMA OmKindAt ==
  ASSUME OmLog, NEW h \in OmHooks
  PROVE  /\ hooks[h].at \in {"clear", "clearSpan", "clearOut"} \cup OmRoot => hooks[h].kind \in {"start", "agentEnd", "shutdown"}
         /\ hooks[h].at \in OmOpening => hooks[h].kind \in {"start", "turnEnd"}
         /\ hooks[h].at \in {"check"} \cup OmSpans => hooks[h].kind = "turnEnd"
         /\ hooks[h].at \in OmEnd => hooks[h].kind = "agentEnd"
         /\ hooks[h].at \in {"pending"} => hooks[h].kind = "start"
         /\ hooks[h].at \in {"close", "closeOut"} => hooks[h].kind \in {"start", "shutdown"}
         /\ hooks[h].at \in {"new", "done"} \/ Om!Running(h)
<1>1. OmPlaced(hooks[h])
  BY DEF OmLog
<1> QED
  BY <1>1 DEF OmPlaced, OmRoot, OmCloses, OmOpening, OmSpans, OmEnd, Om!Running

LEMMA OmTraceKept ==
  ASSUME OmLog, OmAlone, OmTrace, NEW h \in OmHooks, OmMove(h) \/ OmDeath(h)
  PROVE  OmTrace'
<1> DEFINE l == hooks[h]
           t == hooks'[h]
<1>k. OmKept(h)
  BY OmKeeps
<1>s. \/ OmMove(h) /\ OmFrom(l, t) /\ OmVars(l, t) /\ OmStore(h, l)
      \/ t.at = "done" /\ store' = store
  BY DEF OmMove, OmDeath
<1>d. t.at = "done" /\ store' = store => OmId' = OmId /\ (OmParent' <=> OmParent)
  BY OmUnwritten
<1>h. OmHeld' <=> OmId' # None
  BY DEF OmHeld
<1>r. Om!Running(h) /\ l.at \notin {"new", "done"}
  BY <1>k DEF OmKept, Om!Running
<1>p. /\ l.at \in {"clear", "clearSpan"} => l.kind \in {"start", "agentEnd", "shutdown"}
      /\ l.at \in OmOpening => l.kind \in {"start", "turnEnd"}
  BY OmKindAt
<1> HIDE DEF l, t
<1>1. OmHeld' => Opened(OmId)'
  <2>1. CASE l.at = "open" /\ OmMove(h)
    <3>1. OmId' = h /\ t.at = "openSpan"
      BY <2>1 DEF OmMove, OmStore, OmFrom, l, t
    <3>2. PICK i \in DOMAIN world.log : world.log[i].by = h /\ world.log[i].kind = l.kind
      BY <1>r, OmEvent DEF l
    <3>3. l.kind \in {"start", "turnEnd"}
      BY <2>1, <1>p DEF OmOpening
    <3>4. world'.log = world.log /\ OmHooks' = OmHooks
      BY <1>k DEF OmKept
    <3> QED
      BY <3>1, <3>2, <3>3, <3>4 DEF Opened, OmPast, OmSpans, t
  <2>2. CASE ~(l.at = "open" /\ OmMove(h))
    <3>1. OmId' = OmId \/ OmId' = None
      BY <2>2, <1>s, <1>d DEF OmStore
    <3>2. OmHeld' => OmHeld /\ OmId' = OmId
      BY <3>1, <1>h DEF OmHeld
    <3>3. OmHeld => Opened(OmId)
      BY DEF OmTrace
    <3>4. \A x : Opened(x) => Opened(x)'
      BY <1>k DEF OmKept
    <3>5. \A x : OmId' = x => (Opened(OmId)' <=> Opened(x)')
      BY DEF Opened
    <3> QED
      BY <3>2, <3>3, <3>4, <3>5
  <2> QED
    BY <2>1, <2>2
<1>2. ASSUME NEW g \in OmHooks
      PROVE  LET m == hooks'[g] IN
             /\ m.at \in {"rootSpan", "sendRoot", "clear"} => OmHeld' /\ OmId' = m.trace
             /\ m.at = "open" /\ m.kind = "turnEnd" => ~OmHeld'
             /\ m.at \in {"openSpan", "openOut"} /\ m.kind = "start" => OmHeld' /\ OmId' = g
             /\ m.at = "openOut" /\ m.kind = "start" => OmParent'
  <2>0. LET m == hooks[g] IN
        /\ m.at \in {"rootSpan", "sendRoot", "clear"} => OmHeld /\ OmId = m.trace
        /\ m.at = "open" /\ m.kind = "turnEnd" => ~OmHeld
        /\ m.at \in {"openSpan", "openOut"} /\ m.kind = "start" => OmHeld /\ OmId = g
        /\ m.at = "openOut" /\ m.kind = "start" => OmParent
    BY DEF OmTrace
  <2>1. CASE g = h
    <3>1. CASE t.at = "done"
      BY <2>1, <3>1 DEF t
    <3>2. CASE OmMove(h)
      <4>0. OmFrom(l, t) /\ OmVars(l, t) /\ OmStore(h, l) /\ (t.at # "done" => t.kind = l.kind) /\ h # None
        BY <3>2 DEF OmMove, OmFrom, OmLog, l, t
      <4>p. t.at = "open" /\ t.kind = "turnEnd" => l.at = "check"
        <5>1. /\ l.at = "pending" => l.kind = "start"
              /\ l.at \in {"close", "rootTrace", "rootSpan", "clearOut"} => l.kind # "turnEnd"
          BY OmKindAt DEF l, OmRoot
        <5> QED
          BY <4>0, <5>1 DEF OmFrom
      <4>1. t.at \in {"rootSpan", "sendRoot", "clear"} => OmHeld' /\ OmId' = t.trace
        BY <4>0, <2>0, <2>1, <1>h DEF OmFrom, OmVars, OmStore, OmHeld, l
      <4>2. t.at = "open" /\ t.kind = "turnEnd" => ~OmHeld'
        BY <4>0, <4>p, <1>h DEF OmVars, OmStore, OmHeld
      <4>3. t.at \in {"openSpan", "openOut"} /\ t.kind = "start" => OmHeld' /\ OmId' = h
        BY <4>0, <2>0, <2>1, <1>h DEF OmFrom, OmStore, l
      <4>4. t.at = "openOut" => OmParent'
        BY <4>0 DEF OmFrom, OmStore
      <4> QED
        BY <2>1, <4>1, <4>2, <4>3, <4>4 DEF t
    <3> QED
      BY <1>s, <3>1, <3>2
  <2>2. CASE g # h
    <3> DEFINE m == hooks[g]
    <3>1. hooks'[g] = m
      BY <2>2, <1>k DEF OmKept
    <3>2. m.at \notin {"new", "done"} => \/ l.kind = "turnEnd" /\ m.kind = "agentEnd"
                                         \/ m.kind = "turnEnd" /\ l.kind = "agentEnd"
      BY <2>2, <1>r, OmSolo DEF Om!Running, l
    <3>3. m.at \in {"rootSpan", "sendRoot", "clear"} => m.kind \in {"start", "agentEnd", "shutdown"}
      BY OmKindAt DEF OmRoot
    <3> HIDE DEF m
    <3>4. l.at = "open" /\ l.kind = "turnEnd" => ~OmHeld
      BY DEF OmTrace, l
    <3>5. l.at \notin {"open", "clear"} \/ ~OmMove(h) => OmId' = OmId
      BY <1>s, <1>d DEF OmStore
    <3>6. m.at \in {"rootSpan", "sendRoot", "clear"} => OmHeld' /\ OmId' = m.trace
      BY <2>0, <3>2, <3>3, <3>4, <3>5, <1>h, <1>p DEF m, OmHeld
    <3>7. m.at = "open" /\ m.kind = "turnEnd" => ~OmHeld'
      <4>1. l.at = "clear" /\ OmMove(h) => OmId' = None
        BY <1>s DEF OmStore, OmMove, l, t
      <4> QED
        BY <2>0, <3>2, <3>5, <4>1, <1>h, <1>p DEF m, OmHeld, OmOpening
    <3>8. m.at \in {"openSpan", "openOut"} => m.kind # "start"
      BY <3>2
    <3> QED
      BY <3>1, <3>6, <3>7, <3>8
  <2> QED
    BY <2>1, <2>2
<1>3. OmHooks' = OmHooks
  BY <1>k DEF OmKept
<1> QED
  BY <1>1, <1>2, <1>3 DEF OmTrace

(* What a step makes of the spans sent.                                    *)
OmSent(h, l) ==
  /\ IsSeq(sent')
  /\ \A k, t : IsRoot(sent, k, t) => IsRoot(sent', k, t) /\ sent'[k] = sent[k]
  /\ \A k, t : IsRoot(sent', k, t) =>
       \/ IsRoot(sent, k, t) /\ sent'[k] = sent[k]
       \/ l.at = "sendRoot" /\ t = l.trace /\ k \notin DOMAIN sent /\ sent'[k].by = h /\ sent'[k].out = l.out
  /\ l.at = "sendRoot" => \E k : IsRoot(sent', k, l.trace) /\ sent'[k].out = l.out
  /\ \A k, m \in DOMAIN sent' : k \notin DOMAIN sent /\ m \notin DOMAIN sent => k = m
  /\ \A k \in DOMAIN sent' :
       \/ k \in DOMAIN sent /\ sent'[k] = sent[k]
       \/ l.at \in {"sendRoot", "sendLlm", "sendTool"} /\ sent'[k].trace = l.trace

LEMMA OmSpan ==
  ASSUME OmRoots, NEW h \in OmHooks, OmMove(h)
  PROVE  OmSent(h, hooks[h])
<1> DEFINE l == hooks[h]
<1>1. IsSeq(sent)
  BY DEF OmRoots
<1>2. OmSends(h, l)
  BY DEF OmMove
<1> HIDE DEF l
<1>3. CASE l.at \notin {"sendRoot", "sendLlm", "sendTool"}
  <2>1. sent' = sent
    BY <1>2, <1>3 DEF OmSends
  <2>2. \A k, t : IsRoot(sent', k, t) <=> IsRoot(sent, k, t)
    BY <2>1 DEF IsRoot
  <2>3. IsSeq(sent')
    BY <1>1, <2>1
  <2> QED
    BY <1>3, <2>1, <2>2, <2>3 DEF OmSent, l
<1>4. CASE l.at \in {"sendRoot", "sendLlm", "sendTool"}
  <2>1. PICK s : /\ sent' = Append(sent, s) /\ s.trace = l.trace /\ s.by = h
                 /\ s.what = "root" <=> l.at = "sendRoot"
                 /\ l.at = "sendRoot" => s.out = l.out
    BY <1>2, <1>4 DEF OmSends
  <2> DEFINE n == Len(sent')
  <2>2. /\ IsSeq(sent') /\ DOMAIN sent' = DOMAIN sent \cup {n} /\ n \notin DOMAIN sent
        /\ (\A k \in DOMAIN sent : sent'[k] = sent[k]) /\ sent'[n] = s
    BY <1>1, <2>1, AppendAny
  <2> HIDE DEF n
  <2>3. \A k, t : IsRoot(sent, k, t) => IsRoot(sent', k, t) /\ sent'[k] = sent[k]
    BY <2>2 DEF IsRoot
  <2>4. \A k, t : IsRoot(sent', k, t) =>
          \/ IsRoot(sent, k, t) /\ sent'[k] = sent[k]
          \/ l.at = "sendRoot" /\ t = l.trace /\ k \notin DOMAIN sent /\ sent'[k].by = h /\ sent'[k].out = l.out
    BY <2>1, <2>2 DEF IsRoot
  <2>5. l.at = "sendRoot" => IsRoot(sent', n, l.trace) /\ sent'[n].out = l.out
    BY <2>1, <2>2 DEF IsRoot
  <2>6. \A k \in DOMAIN sent' :
          \/ k \in DOMAIN sent /\ sent'[k] = sent[k]
          \/ l.at \in {"sendRoot", "sendLlm", "sendTool"} /\ sent'[k].trace = l.trace
    BY <1>4, <2>1, <2>2
  <2> QED
    BY <2>2, <2>3, <2>4, <2>5, <2>6 DEF OmSent, l
<1> QED
  BY <1>3, <1>4

LEMMA OmRootsKept ==
  ASSUME OmLog, OmAlone, OmTrace, OmRoots, NEW h \in OmHooks, OmMove(h)
  PROVE  OmRoots'
<1> DEFINE l == hooks[h]
           t == hooks'[h]
<1>k. OmKept(h)
  BY OmKeeps
<1>m. OmFrom(l, t) /\ OmVars(l, t) /\ OmStore(h, l) /\ world' = world
  BY DEF OmMove
<1>s. OmSent(h, l)
  BY OmSpan
<1>r. /\ Om!Running(h) /\ OmHooks' = OmHooks /\ None \notin OmHooks
      /\ \A g \in OmHooks : g # h => hooks'[g] = hooks[g]
  BY <1>k DEF OmKept, OmLog
<1>p. l.at = "sendRoot" => OmHeld /\ OmId = l.trace /\ Opened(OmId)
  BY DEF OmTrace
<1>1. \A k, x : IsRoot(sent', k, x) => Opened(x)'
  <2>1. \A x : Opened(x) => Opened(x)'
    BY <1>k DEF OmKept
  <2>2. \A k, x : IsRoot(sent, k, x) => Opened(x)
    BY DEF OmRoots
  <2> QED
    BY <1>s, <1>p, <2>1, <2>2 DEF OmSent
<1>2. ASSUME NEW g \in OmHooks, hooks'[g].at = "clear"
      PROVE  \E k : IsRoot(sent', k, hooks'[g].trace)
  <2>1. CASE g = h
    BY <1>2, <1>m, <1>s, <2>1 DEF OmFrom, OmVars, OmSent
  <2>2. CASE g # h
    BY <1>2, <1>r, <1>s, <2>2 DEF OmSent, OmRoots
  <2> QED
    BY <2>1, <2>2
<1>3. ASSUME world.died = {}, NEW k, NEW m, NEW x, IsRoot(sent', k, x), IsRoot(sent', m, x)
      PROVE  k = m
  <2>1. ASSUME NEW j, IsRoot(sent, j, x)
        PROVE  ~(l.at = "sendRoot" /\ x = l.trace)
    <3> SUFFICES ASSUME l.at = "sendRoot", x = l.trace
                 PROVE  FALSE
      OBVIOUS
    <3>1. sent[j].by \in OmHooks /\ hooks[sent[j].by].at = "clear"
      BY <1>3, <1>p, <2>1 DEF OmRoots
    <3>2. hooks[sent[j].by].kind # "turnEnd" /\ l.kind # "turnEnd" /\ Om!Running(sent[j].by) /\ sent[j].by # h
      BY <3>1, OmKindAt DEF OmRoot
    <3> QED
      BY <1>r, <3>1, <3>2, OmSolo
  <2>2. IsRoot(sent, k, x) /\ IsRoot(sent, m, x) => k = m
    BY <1>3 DEF OmRoots
  <2>3. k \in DOMAIN sent' /\ m \in DOMAIN sent'
    BY <1>3 DEF IsRoot
  <2> QED
    BY <1>3, <1>s, <2>1, <2>2, <2>3 DEF OmSent
<1>4. ASSUME world.died = {}, NEW k, IsRoot(sent', k, OmId')
      PROVE  sent'[k].by \in OmHooks /\ hooks'[sent'[k].by].at = "clear"
  <2>0. \A x : IsRoot(sent, k, x) => x \in OmHooks /\ Opened(x)
    BY DEF OmRoots, Opened
  <2>1. l.at # "open"
    <3>1. ASSUME l.at = "open"
          PROVE  FALSE
      <4>1. OmId' = h
        BY <1>m, <3>1 DEF OmStore
      <4>2. IsRoot(sent, k, h)
        BY <1>4, <1>s, <3>1, <4>1 DEF OmSent
      <4> QED
        BY <2>0, <3>1, <4>2 DEF Opened, OmPast, OmSpans
    <3> QED
      BY <3>1
  <2>2. l.at # "clear"
    <3>1. ASSUME l.at = "clear"
          PROVE  FALSE
      <4>1. OmId' = None
        BY <1>m, <3>1 DEF OmStore
      <4>2. IsRoot(sent, k, None)
        BY <1>4, <1>s, <3>1, <4>1 DEF OmSent
      <4> QED
        BY <1>r, <2>0, <4>2
    <3> QED
      BY <3>1
  <2>3. OmId' = OmId
    BY <1>m, <2>1, <2>2 DEF OmStore
  <2>4. CASE IsRoot(sent, k, OmId) /\ sent'[k] = sent[k]
    <3>1. sent[k].by \in OmHooks /\ hooks[sent[k].by].at = "clear"
      BY <1>4, <2>4 DEF OmRoots
    <3> QED
      BY <1>r, <2>2, <2>4, <3>1
  <2>5. CASE l.at = "sendRoot" /\ sent'[k].by = h
    BY <1>m, <2>5 DEF OmFrom
  <2> QED
    BY <1>4, <1>s, <2>3, <2>4, <2>5 DEF OmSent
<1>5. IsSeq(sent)'
  BY <1>s DEF OmSent, IsSeq
<1> QED
  BY <1>1, <1>2, <1>3, <1>4, <1>5, <1>m, <1>r DEF OmRoots, IsRoot

(* The start of a run is over when a later event of it is handled.         *)
LEMMA OmStarted ==
  ASSUME OmLog, OmAlone, NEW p \in EventsOf("start"), NEW i \in DOMAIN world.log, p < i
  PROVE  \/ hooks[world.log[p].by].at = "done"
         \/ world.log[i].kind = "agentEnd" /\ world.log[p].kind = "turnEnd"
<1>1. p \in DOMAIN world.log
  BY DEF EventsOf
<1>2. hooks[world.log[p].by].at # "new"
  BY <1>1 DEF OmLog
<1>3. Om!Running(world.log[p].by) => world.log[i].kind = "agentEnd" /\ world.log[p].kind = "turnEnd"
  BY <1>1 DEF OmAlone
<1> QED
  BY <1>2, <1>3 DEF Om!Running

(* A move keeps what the dict has, but for those that write it.            *)
LEMMA OmHolds ==
  ASSUME OmLog, OmTrace, NEW h \in OmHooks, OmMove(h),
         OmHeld, hooks[h].at \notin {"clear", "clearSpan"}, hooks[h].at = "open" => hooks[h].kind = "turnEnd"
  PROVE  OmHeld' /\ OmId' = OmId /\ (OmParent => OmParent')
<1>1. hooks[h].at # "open"
  BY DEF OmTrace
<1>2. OmStore(h, hooks[h])
  BY DEF OmMove
<1>3. OmHeld' <=> OmId' # None
  BY DEF OmHeld
<1> QED
  BY <1>1, <1>2, <1>3 DEF OmStore, OmHeld

LEMMA OmOpenKept ==
  ASSUME OmLog, OmAlone, OmTrace, OmOpen, OmEnds, NEW h \in OmHooks, OmMove(h)
  PROVE  OmOpen'
<1> DEFINE l == hooks[h]
           t == hooks'[h]
<1>k. OmKept(h)
  BY OmKeeps
<1>m. OmFrom(l, t) /\ OmVars(l, t) /\ OmStore(h, l) /\ world' = world
  BY DEF OmMove
<1>r. /\ Om!Running(h) /\ OmHooks' = OmHooks /\ None \notin OmHooks
      /\ \A g \in OmHooks : g # h => hooks'[g] = hooks[g]
  BY <1>k DEF OmKept, OmLog
<1>h. PICK e \in DOMAIN world.log : world.log[e].by = h /\ world.log[e].kind = l.kind
  BY <1>r, OmEvent
<1>n. Len(world.log) \in Nat /\ DOMAIN world.log = 1 .. Len(world.log)
  BY AppendAny DEF OmLog
<1> SUFFICES ASSUME world.died = {}, NEW p \in EventsOf("start")
             PROVE  LET s == world.log[p].by IN
                    /\ hooks'[s].at = "done" /\ (\A j \in DOMAIN world.log : p < j => world.log[j].kind = "turnEnd")
                       => /\ OmHeld' /\ OmId' = s
                          /\ OmParent'
                          /\ p = Len(world.log) => OmOut' = None
                    /\ \A i \in EventsOf("turnEnd") :
                         RunOf(p, i) /\ hooks'[world.log[i].by].at \in OmOpening =>
                           \E j \in EventsOf("agentEnd") :
                             RunOf(p, j) /\ hooks'[world.log[j].by].at \notin OmUncleared
  <2>1. \A k : EventsOf(k)' = EventsOf(k)
    BY <1>k DEF OmKept
  <2>2. \A a, b : RunOf(a, b)' <=> RunOf(a, b)
    BY <1>k DEF OmKept
  <2> QED
    BY <2>1, <2>2, <1>m DEF OmOpen, OmOpening, OmSpans, OmUncleared, OmEnd, OmRoot
<1> DEFINE s == world.log[p].by
<1>p. p \in DOMAIN world.log /\ world.log[p].kind = "start" /\ p \in Nat /\ s \in OmHooks
  BY <1>n DEF EventsOf, OmLog
<1>1. ASSUME hooks'[s].at = "done", \A j \in DOMAIN world.log : p < j => world.log[j].kind = "turnEnd"
      PROVE  /\ OmHeld' /\ OmId' = s /\ OmParent'
             /\ p = Len(world.log) => OmOut' = None
  <2>1. CASE s = h
    <3>1. l.kind = "start"
      BY <1>h, <1>p, <2>1 DEF OmLog
    <3>2. l.at = "openOut"
      BY <1>1, <1>m, <2>1, <3>1 DEF OmFrom
    <3>3. OmHeld /\ OmId = h /\ OmParent
      BY <3>1, <3>2 DEF OmTrace
    <3> QED
      BY <1>m, <2>1, <3>2, <3>3 DEF OmStore, OmHeld
  <2>2. CASE s # h
    <3>1. OmHeld /\ OmId = s /\ OmParent
      BY <1>1, <1>r, <1>p, <2>2 DEF OmOpen
    <3>2. p < e
      <4>1. e < p => world.log[p].kind = "agentEnd"
        BY <1>h, <1>p, <1>r DEF OmAlone
      <4>2. e # p
        BY <1>h, <2>2
      <4> QED
        BY <1>n, <1>p, <4>1, <4>2
    <3>3. l.kind = "turnEnd" /\ p # Len(world.log)
      BY <1>1, <1>h, <1>n, <1>p, <3>2
    <3>4. l.at \notin {"clear", "clearSpan"}
      BY <3>3, OmKindAt
    <3> QED
      BY <3>1, <3>3, <3>4, OmHolds
  <2> QED
    BY <2>1, <2>2
<1>2. ASSUME NEW i \in EventsOf("turnEnd"), RunOf(p, i), hooks'[world.log[i].by].at \in OmOpening
      PROVE  \E j \in EventsOf("agentEnd") :
               RunOf(p, j) /\ hooks'[world.log[j].by].at \notin OmUncleared
  <2>i. i \in DOMAIN world.log /\ world.log[i].kind = "turnEnd" /\ i \in Nat /\ world.log[i].by \in OmHooks
    BY <1>n DEF EventsOf, OmLog
  <2>1. ASSUME NEW j \in EventsOf("agentEnd"), hooks[world.log[j].by].at \notin OmUncleared
        PROVE  hooks'[world.log[j].by].at \notin OmUncleared
    <3>1. j \in DOMAIN world.log /\ world.log[j].by \in OmHooks /\ world.log[j].kind = "agentEnd"
      BY DEF EventsOf, OmLog
    <3>2. CASE world.log[j].by # h
      BY <1>r, <2>1, <3>1, <3>2
    <3>3. CASE world.log[j].by = h
      <4>1. l.kind = "agentEnd"
        BY <1>h, <3>1, <3>3 DEF OmLog
      <4>2. l.at \notin {"close", "closeOut"}
        BY <4>1, OmKindAt
      <4> QED
        BY <1>m, <2>1, <3>3, <4>2 DEF OmFrom, OmUncleared, OmEnd, OmRoot
    <3> QED
      BY <3>2, <3>3
  <2>2. CASE hooks[world.log[i].by].at \in OmOpening
    <3>1. PICK j \in EventsOf("agentEnd") : RunOf(p, j) /\ hooks[world.log[j].by].at \notin OmUncleared
      BY <1>2, <2>2 DEF OmOpen
    <3> QED
      BY <2>1, <3>1
  <2>3. CASE hooks[world.log[i].by].at \notin OmOpening
    <3>1. world.log[i].by = h /\ e = i /\ l.kind = "turnEnd"
      BY <1>2, <1>h, <1>r, <2>i, <2>3 DEF OmLog
    <3>2. t.at = "open"
      BY <1>2, <1>m, <2>3, <3>1 DEF OmOpening, OmFrom
    <3>3. ~OmHeld
      <4>1. l.at \notin {"pending", "close", "rootTrace", "rootSpan", "clearOut"}
        BY <3>1, OmKindAt DEF OmRoot
      <4> QED
        BY <1>m, <3>2, <4>1 DEF OmFrom, OmVars
    <3>4. p < i /\ \A j \in DOMAIN world.log : p < j /\ j < i => world.log[j].kind = "turnEnd"
      <4>1. PICK q : RunOf(q, i) /\ q < i /\ \A j \in DOMAIN world.log : q < j /\ j < i => world.log[j].kind = "turnEnd"
        BY <2>i, OmOfRun
      <4>2. q = p
        BY <1>2, <2>i, <4>1, OmRunOf
      <4> QED
        BY <4>1, <4>2
    <3>5. hooks[s].at = "done"
      BY <1>p, <2>i, <3>4, OmStarted
    <3>6. PICK j \in DOMAIN world.log : p < j /\ world.log[j].kind # "turnEnd"
      BY <3>3, <3>5 DEF OmOpen
    <3>7. \A q \in DOMAIN world.log : i < q => world.log[q].kind = "agentEnd"
      BY <1>h, <1>r, <3>1 DEF OmAlone
    <3>8. i < j
      BY <1>n, <2>i, <3>4, <3>6
    <3>9. j \in EventsOf("agentEnd") /\ world.log[j].kind = "agentEnd"
      BY <3>7, <3>8 DEF EventsOf
    <3>10. RunOf(p, j)
      <4>1. ASSUME NEW q \in EventsOf("start"), q <= j
            PROVE  q <= p
        <5>1. q \in DOMAIN world.log /\ world.log[q].kind = "start" /\ q \in Nat
          BY <1>n DEF EventsOf
        <5>2. q <= i
          BY <2>i, <3>7, <5>1
        <5> QED
          BY <1>2, <5>2 DEF RunOf
      <4> QED
        BY <1>n, <1>p, <3>6, <4>1 DEF RunOf
    <3>11. hooks[world.log[j].by].at \notin OmUncleared
      BY <1>p, <3>3, <3>9, <3>10 DEF OmEnds
    <3> QED
      BY <2>1, <3>9, <3>10, <3>11
  <2> QED
    BY <2>2, <2>3
<1> QED
  BY <1>1, <1>2

LEMMA OmEndsKept ==
  ASSUME OmLog, OmAlone, OmTrace, OmRoots, OmEnds, NEW h \in OmHooks, OmMove(h)
  PROVE  OmEnds'
<1> DEFINE l == hooks[h]
           t == hooks'[h]
<1>k. OmKept(h)
  BY OmKeeps
<1>m. OmFrom(l, t) /\ OmVars(l, t) /\ OmStore(h, l) /\ world' = world /\ OmPlaced(t)
  BY DEF OmMove
<1>s. OmSent(h, l)
  BY OmSpan
<1>r. /\ Om!Running(h) /\ OmHooks' = OmHooks /\ None \notin OmHooks
      /\ \A g \in OmHooks : g # h => hooks'[g] = hooks[g]
  BY <1>k DEF OmKept, OmLog
<1>h. PICK m \in DOMAIN world.log : world.log[m].by = h /\ world.log[m].kind = l.kind /\ world.log[m].final = l.final
  BY <1>r, OmEvent
<1>n. Len(world.log) \in Nat /\ DOMAIN world.log = 1 .. Len(world.log)
  BY AppendAny DEF OmLog
<1> SUFFICES ASSUME world.died = {}, NEW p \in DOMAIN world.log, NEW i \in DOMAIN world.log,
                    world.log[i].kind = "agentEnd", RunOf(p, i)
             PROVE  LET e == world.log[i]
                        u == hooks'[e.by] IN
                    /\ u.at \in OmUncleared => OmHeld' /\ OmId' = world.log[p].by /\ OmParent'
                    /\ u.at \in {"ensure"} \cup OmEnd /\ e.final = None => OmOut' = None
                    /\ u.at \in OmRoot => u.out = e.final
                    /\ u.at \notin OmUncleared \/ u.at = "clear" =>
                         \E k : IsRoot(sent', k, world.log[p].by) /\ sent'[k].out = e.final
  <2>1. \A a, b : RunOf(a, b)' <=> RunOf(a, b)
    BY <1>k DEF OmKept
  <2>2. \A k, x : IsRoot(sent, k, x)' <=> IsRoot(sent', k, x)
    BY DEF IsRoot
  <2> QED
    BY <2>1, <2>2, <1>m DEF OmEnds, OmUncleared, OmEnd, OmRoot
<1> DEFINE e == world.log[i]
           s == world.log[p].by
<1>1. LET u == hooks[e.by] IN
      /\ u.at \in OmUncleared => OmHeld /\ OmId = s /\ OmParent
      /\ u.at \in {"ensure"} \cup OmEnd /\ e.final = None => OmOut = None
      /\ u.at \in OmRoot => u.out = e.final
      /\ u.at \notin OmUncleared \/ u.at = "clear" =>
           \E k : IsRoot(sent, k, s) /\ sent[k].out = e.final
  BY DEF OmEnds
<1>2. \A k : IsRoot(sent, k, s) => IsRoot(sent', k, s) /\ sent'[k] = sent[k]
  BY <1>s DEF OmSent
<1>3. e.by \in OmHooks
  BY DEF OmLog
<1>4. CASE e.by = h
  <2>1. l.kind = "agentEnd" /\ l.final = e.final
    BY <1>h, <1>4 DEF OmLog
  <2>2. l.at \notin {"pending", "check", "close", "closeOut", "new", "done"} \cup OmOpening \cup OmSpans
    BY <1>r, <2>1, OmKindAt DEF OmOpening, OmSpans, Om!Running
  <2>3. t.at # "done" => t.kind = "agentEnd"
    BY <1>m, <2>1 DEF OmFrom
  <2>4. t.at \notin {"pending", "check", "close", "closeOut", "new", "ensure"} \cup OmOpening \cup OmSpans
    BY <1>m, <2>3 DEF OmPlaced, OmFrom, OmOpening, OmSpans, OmEnd, OmCloses, OmRoot
  <2>5. t.at \in OmUncleared => l.at \in OmUncleared \ {"clear"}
    BY <1>m, <2>2 DEF OmFrom, OmUncleared, OmEnd, OmRoot
  <2>6. t.at \in OmUncleared => OmHeld' /\ OmId' = s /\ OmParent'
    <3>1. l.at \in OmUncleared \ {"clear"} => l.at \notin {"open", "openSpan", "clear", "clearSpan"}
      BY DEF OmUncleared, OmEnd, OmRoot
    <3> QED
      BY <1>1, <1>4, <2>5, <3>1, OmHolds
  <2>7. t.at \in {"ensure"} \cup OmEnd /\ e.final = None => OmOut' = None
    <3>1. t.at \in OmEnd => l.at \in {"ensure"} \cup OmEnd
      BY <1>m DEF OmFrom, OmEnd
    <3>2. l.at \in {"ensure"} \cup OmEnd => OmOut' = OmOut
      BY <1>m DEF OmStore, OmEnd
    <3> QED
      BY <1>1, <1>4, <2>4, <3>1, <3>2
  <2>8. t.at \in OmRoot => t.out = e.final
    <3>1. t.at = "rootTrace" => l.at = "endOut"
      BY <1>m, <2>2 DEF OmFrom
    <3>2. t.at = "rootTrace" => t.out = e.final
      BY <1>1, <1>4, <1>m, <2>1, <3>1 DEF OmVars, OmEnd
    <3>3. t.at \in {"rootSpan", "sendRoot"} => t.out = l.out /\ l.at \in OmRoot
      BY <1>m DEF OmFrom, OmVars, OmRoot
    <3> QED
      BY <1>1, <1>4, <3>2, <3>3 DEF OmRoot
  <2>9. t.at \notin OmUncleared \/ t.at = "clear" =>
          \E k : IsRoot(sent', k, s) /\ sent'[k].out = e.final
    <3>1. CASE l.at \notin OmUncleared \/ l.at = "clear"
      BY <1>1, <1>2, <1>4, <3>1
    <3>2. CASE l.at = "sendRoot"
      <4>1. l.trace = OmId /\ OmId = s /\ l.out = e.final
        BY <1>1, <1>4, <3>2 DEF OmTrace, OmUncleared, OmRoot
      <4> QED
        BY <1>s, <3>2, <4>1 DEF OmSent
    <3>3. CASE l.at \in OmUncleared \ {"clear", "sendRoot"}
      <4>1. OmHeld /\ OmParent
        BY <1>1, <1>4, <3>3
      <4>2. t.at \notin {"done", "clear", "clearSpan", "clearOut"}
        BY <1>m, <3>3, <4>1 DEF OmFrom, OmVars, OmUncleared, OmEnd, OmRoot, OmSpans
      <4>3. t.at \in OmUncleared
        BY <1>m, <2>4, <4>2 DEF OmPlaced, OmUncleared, OmCloses, OmEnd, OmRoot
      <4> QED
        BY <4>2, <4>3
    <3> QED
      BY <3>1, <3>2, <3>3
  <2> QED
    BY <1>4, <2>6, <2>7, <2>8, <2>9
<1>5. CASE e.by # h
  <2> DEFINE u == hooks[e.by]
  <2>1. hooks'[e.by] = u
    BY <1>3, <1>5, <1>r
  <2>2. ASSUME u.at \in {"ensure"} \cup OmUncleared
        PROVE  Om!Running(e.by) /\ l.kind = "turnEnd" /\ l.at \notin {"clear", "clearSpan"}
    <3>1. Om!Running(e.by)
      BY <2>2 DEF OmUncleared, OmEnd, OmRoot, Om!Running
    <3>2. u.kind = "agentEnd"
      BY <3>1 DEF OmLog
    <3>3. l.kind = "turnEnd"
      BY <1>3, <1>5, <1>r, <3>1, <3>2, OmSolo
    <3> QED
      BY <3>1, <3>3, OmKindAt
  <2>3. u.at \in OmUncleared => OmHeld' /\ OmId' = s /\ OmParent'
    BY <1>1, <2>2, OmHolds
  <2>4. u.at \in {"ensure"} \cup OmEnd /\ e.final = None => OmOut' = None
    <3>1. ASSUME u.at \in {"ensure"} \cup OmEnd, e.final = None, l.at = "setOut"
          PROVE  FALSE
      <4>1. Om!Running(e.by) /\ l.kind = "turnEnd"
        BY <2>2, <3>1 DEF OmUncleared
      <4>2. p = i - 1 /\ p \in Nat /\ i \in Nat /\ world.log[p].kind = "start"
        <5>1. PICK q : RunOf(q, i) /\ q = i - 1
          BY <3>1, OmOfRun
        <5>2. q = p /\ p \in Nat /\ i \in Nat /\ world.log[p].kind = "start"
          BY <5>1, OmRunOf
        <5> QED
          BY <5>1, <5>2
      <4>3. m # i /\ m # p /\ m \in Nat
        BY <1>5, <1>h, <1>n, <4>1, <4>2
      <4>4. ~(m < p)
        BY <1>h, <1>r, <4>2 DEF OmAlone
      <4>5. ~(i < m)
        BY <4>1 DEF OmAlone
      <4> QED
        BY <4>2, <4>3, <4>4, <4>5
    <3>2. l.at # "setOut" => OmOut' = OmOut \/ OmOut' = None
      BY <1>m DEF OmStore
    <3> QED
      BY <1>1, <3>1, <3>2
  <2>5. u.at \notin OmUncleared \/ u.at = "clear" =>
          \E k : IsRoot(sent', k, s) /\ sent'[k].out = e.final
    BY <1>1, <1>2
  <2> QED
    BY <1>1, <2>1, <2>3, <2>4, <2>5
<1> QED
  BY <1>4, <1>5

LEMMA OmRootedKept ==
  ASSUME OmLog, OmAlone, OmTrace, OmRoots, OmRooted, NEW h \in OmHooks, OmMove(h)
  PROVE  OmRooted'
<1> DEFINE l == hooks[h]
           t == hooks'[h]
<1>k. OmKept(h)
  BY OmKeeps
<1>m. OmFrom(l, t) /\ OmVars(l, t) /\ OmStore(h, l) /\ world' = world
  BY DEF OmMove
<1>s. OmSent(h, l)
  BY OmSpan
<1>r. /\ Om!Running(h) /\ OmHooks' = OmHooks /\ None \notin OmHooks
      /\ \A g \in OmHooks : g # h => hooks'[g] = hooks[g]
  BY <1>k DEF OmKept, OmLog
<1>h. OmHeld' <=> OmId' # None
  BY DEF OmHeld
<1> SUFFICES ASSUME world.died = {}, world.race = "none"
             PROVE  /\ \A k \in DOMAIN sent' :
                         \/ \E m : IsRoot(sent', m, sent'[k].trace)
                         \/ OmHeld' /\ OmId' = sent'[k].trace
                    /\ OmHeld' => OmParent' \/ hooks'[OmId'].at = "openSpan"
                    /\ \A g \in OmHooks : LET u == hooks'[g] IN
                         /\ u.at \in {"llmSpan", "toolSpan", "sendLlm", "sendTool"} => OmHeld' /\ OmId' = u.trace
                         /\ u.at \in {"open", "clearSpan", "clearOut"} => ~OmHeld'
  BY <1>m, <1>r DEF OmRooted, IsRoot
<1>1. \A g \in OmHooks : g # h => hooks[g].at \in {"new", "done"}
  BY <1>r, OmSolo DEF Om!Running
<1>2. /\ l.at \in {"llmSpan", "toolSpan", "sendLlm", "sendTool"} => OmHeld /\ OmId = l.trace
      /\ l.at \in {"open", "clearSpan", "clearOut"} => ~OmHeld
      /\ l.at \in {"rootSpan", "sendRoot", "clear"} => OmHeld /\ OmId = l.trace
  BY DEF OmRooted, OmTrace
<1>3. OmHeld => OmParent \/ (OmId = h /\ l.at = "openSpan")
  <2>1. OmHeld => OmParent \/ (OmId \in OmHooks /\ hooks[OmId].at = "openSpan")
    BY DEF OmRooted, OmTrace, Opened
  <2> QED
    BY <1>1, <2>1
<1>4. ASSUME NEW k \in DOMAIN sent'
      PROVE  \/ \E m : IsRoot(sent', m, sent'[k].trace)
             \/ OmHeld' /\ OmId' = sent'[k].trace
  <2>1. CASE k \in DOMAIN sent /\ sent'[k] = sent[k]
    <3>1. CASE \E m : IsRoot(sent, m, sent[k].trace)
      BY <1>s, <2>1, <3>1 DEF OmSent
    <3>2. CASE OmHeld /\ OmId = sent[k].trace
      <4>1. l.at = "clear" => \E m : IsRoot(sent, m, l.trace)
        BY DEF OmRoots
      <4>2. l.at # "clear" => OmHeld' /\ OmId' = OmId
        BY <1>2, <1>h, <1>m, <3>2 DEF OmStore, OmHeld
      <4> QED
        BY <1>2, <1>s, <2>1, <3>2, <4>1, <4>2 DEF OmSent
    <3> QED
      BY <2>1, <3>1, <3>2 DEF OmRooted
  <2>2. CASE l.at \in {"sendRoot", "sendLlm", "sendTool"} /\ sent'[k].trace = l.trace
    <3>1. OmHeld /\ OmId = l.trace
      BY <1>2, <2>2
    <3>2. OmId' = OmId
      BY <1>m, <2>2 DEF OmStore
    <3> QED
      BY <1>h, <2>2, <3>1, <3>2 DEF OmHeld
  <2> QED
    BY <1>s, <2>1, <2>2 DEF OmSent
<1>5. OmHeld' => OmParent' \/ hooks'[OmId'].at = "openSpan"
  <2>1. CASE l.at = "open"
    BY <1>m, <2>1 DEF OmStore, OmFrom
  <2>2. CASE l.at # "open"
    <3>1. OmHeld' => OmHeld /\ OmId' = OmId
      BY <1>h, <1>m, <2>2 DEF OmStore, OmHeld
    <3>2. l.at = "clearSpan" => ~OmHeld
      BY <1>2
    <3> QED
      BY <1>3, <1>m, <3>1, <3>2 DEF OmStore
  <2> QED
    BY <2>1, <2>2
<1>6. t.at \in {"llmSpan", "toolSpan", "sendLlm", "sendTool"} => OmHeld' /\ OmId' = t.trace
  <2>1. t.at \in {"llmSpan", "toolSpan"} => OmHeld /\ OmId = t.trace /\ OmId' = OmId
    BY <1>m DEF OmFrom, OmVars, OmStore
  <2>2. t.at \in {"sendLlm", "sendTool"} => OmHeld /\ OmId = t.trace /\ OmId' = OmId
    BY <1>2, <1>m DEF OmFrom, OmVars, OmStore
  <2> QED
    BY <1>h, <2>1, <2>2 DEF OmHeld
<1>7. t.at \in {"open", "clearSpan", "clearOut"} => ~OmHeld'
  <2>1. t.at = "clearSpan" => OmId' = None
    BY <1>m DEF OmFrom, OmStore
  <2>2. t.at = "clearOut" => ~OmHeld /\ OmId' = OmId
    BY <1>2, <1>m DEF OmFrom, OmStore
  <2>3. t.at = "open" => ~OmHeld /\ OmId' = OmId
    <3>1. t.at = "open" => l.at \in {"pending", "close", "rootTrace", "rootSpan", "clearOut", "check"}
      BY <1>m DEF OmFrom
    <3> QED
      BY <1>2, <1>3, <1>m, <3>1 DEF OmVars, OmStore
  <2> QED
    BY <1>h, <2>1, <2>2, <2>3 DEF OmHeld
<1> QED
  BY <1>1, <1>4, <1>5, <1>6, <1>7, <1>r

(* Where nothing overlaps, what a running hook has to do with its run fits *)
(* the trace that is open: its start opened one, or died.                  *)
LEMMA OmFitting ==
  ASSUME OmLog, OmAlone, OmAnswers, world.race = "none", OmHeld,
         NEW h \in OmHooks, Om!Running(h),
         NEW m \in DOMAIN world.log, world.log[m].by = h,
         NEW p, NEW j \in DOMAIN world.log, RunOf(p, m), p < m, RunOf(p, j)
  PROVE  Fits(world.log[j].by, OmId)
<1> DEFINE s == world.log[p].by
<1>1. p \in Nat /\ p \in DOMAIN world.log /\ m \in Nat /\ world.log[p].kind = "start" /\ p \in EventsOf("start")
  BY OmRunOf DEF EventsOf, RunOf
<1>2. CASE s \in world.died
  BY <1>1, <1>2 DEF Fits
<1>3. CASE s \notin world.died
  <2>1. \A q \in EventsOf("start") : q <= p
    <3>1. ASSUME NEW q \in EventsOf("start"), ~(q <= p)
          PROVE  FALSE
      <4>1. q \in Nat /\ q \in DOMAIN world.log
        <5>1. q \in DOMAIN world.log
          BY DEF EventsOf
        <5>2. DOMAIN world.log = 1 .. Len(world.log) /\ Len(world.log) \in Nat
          BY AppendAny DEF OmLog
        <5> QED
          BY <5>1, <5>2
      <4>2. m < q
        BY <1>1, <3>1, <4>1 DEF RunOf
      <4> QED
        BY <4>1, <4>2 DEF OmAlone
    <3> QED
      BY <3>1
  <2>2. hooks[s].at = "done"
    <3>1. hooks[s].at # "new"
      BY <1>1 DEF OmLog
    <3>2. ~Om!Running(s)
      BY <1>1 DEF OmAlone
    <3> QED
      BY <3>1, <3>2 DEF Om!Running
  <2>3. PICK i \in DOMAIN world.log : p <= i /\ world.log[i].by = OmId
    BY <1>1, <1>3, <2>1, <2>2 DEF OmAnswers
  <2>4. RunOf(p, i)
    BY <1>1, <2>1, <2>3 DEF RunOf
  <2> QED
    BY <1>1, <2>3, <2>4 DEF Fits
<1> QED
  BY <1>2, <1>3

LEMMA OmOpenedLast ==
  ASSUME OmLog, OmAlone, OmTrace, OmAnswers, NEW h \in OmHooks, OmMove(h) \/ OmDeath(h),
         NEW p \in EventsOf("start"), \A q \in EventsOf("start") : q <= p,
         hooks'[world.log[p].by].at = "done", world.log[p].by \notin world'.died, OmHeld'
  PROVE  \E i \in DOMAIN world.log : p <= i /\ world.log[i].by = OmId'
<1> DEFINE l == hooks[h]
           t == hooks'[h]
           s == world.log[p].by
<1>k. OmKept(h)
  BY OmKeeps
<1>r. Om!Running(h) /\ \A g \in OmHooks : g # h => hooks'[g] = hooks[g]
  BY <1>k DEF OmKept
<1>h. PICK m \in DOMAIN world.log : world.log[m].by = h /\ world.log[m].kind = l.kind
  BY <1>r, OmEvent
<1>p. p \in DOMAIN world.log /\ world.log[p].kind = "start" /\ p \in Nat /\ m \in Nat /\ s \in OmHooks
  BY AppendAny DEF EventsOf, OmLog
<1>i. OmHeld' <=> OmId' # None
  BY DEF OmHeld
<1>d. s \notin world.died
  BY <1>k DEF OmKept
<1>1. CASE s = h
  <2>1. OmMove(h) /\ l.kind = "start" /\ m = p
    BY <1>1, <1>h, <1>p DEF OmDeath, OmLog
  <2>2. l.at = "openOut" /\ OmStore(h, l)
    BY <1>1, <2>1 DEF OmMove, OmFrom
  <2>3. OmId = h /\ OmId' = OmId
    BY <2>1, <2>2 DEF OmTrace, OmStore
  <2> QED
    BY <1>h, <1>p, <2>1, <2>3
<1>2. CASE s # h
  <2>1. hooks[s].at = "done"
    BY <1>2, <1>p, <1>r
  <2>2. CASE OmId' = OmId
    <3>1. OmHeld
      BY <1>i, <2>2 DEF OmHeld
    <3> QED
      BY <1>d, <2>1, <2>2, <3>1 DEF OmAnswers
  <2>3. CASE OmId' # OmId
    <3>1. OmMove(h)
      BY <2>3, OmUnwritten DEF OmDeath
    <3>2. OmId' = h
      BY <1>i, <2>3, <3>1 DEF OmMove, OmStore
    <3>3. ~(m < p)
      BY <1>h, <1>p, <1>r DEF OmAlone
    <3> QED
      BY <1>h, <1>p, <3>2, <3>3
  <2> QED
    BY <2>2, <2>3
<1> QED
  BY <1>1, <1>2

LEMMA OmAnswersKept ==
  ASSUME OmLog, OmAlone, OmTrace, OmRoots, OmAnswers, NEW h \in OmHooks, OmMove(h) \/ OmDeath(h)
  PROVE  OmAnswers'
<1> DEFINE l == hooks[h]
           t == hooks'[h]
<1>k. OmKept(h)
  BY OmKeeps
<1>r. /\ Om!Running(h) /\ OmHooks' = OmHooks /\ None \notin OmHooks
      /\ \A g \in OmHooks : g # h => hooks'[g] = hooks[g]
      /\ world'.log = world.log /\ world'.race = world.race /\ EventsOf("start")' = EventsOf("start")
  BY <1>k DEF OmKept, OmLog
<1>h. PICK m \in DOMAIN world.log : /\ world.log[m].by = h /\ world.log[m].kind = l.kind
                                    /\ world.log[m].final = l.final
  BY <1>r, OmEvent
<1>i. OmHeld' <=> OmId' # None
  BY DEF OmHeld
<1>f. \A o, x : Fits(o, x) => Fits(o, x)'
  BY <1>k DEF OmKept
<1>1. ASSUME NEW p \in EventsOf("start"), \A q \in EventsOf("start") : q <= p,
             hooks'[world.log[p].by].at = "done", world.log[p].by \notin world'.died, OmHeld'
      PROVE  \E i \in DOMAIN world.log : p <= i /\ world.log[i].by = OmId'
  BY <1>1, OmOpenedLast
<1>2. ASSUME world.race = "none"
      PROVE  \A g \in OmHooks : g # h => hooks[g].at \in {"new", "done"}
  BY <1>2, <1>r, OmSolo DEF Om!Running
<1>a. /\ world.race = "none" /\ OmHeld => Fits(OmOut, OmId) \/ hooks[OmId].at \in {"openSpan", "openOut"}
      /\ world.race = "none" /\ OmHeld /\ l.at \in OmRoot => Fits(l.out, OmId)
      /\ OmHeld => OmId \in OmHooks
  BY DEF OmAnswers, OmTrace, Opened
<1>3. ASSUME world.race = "none", OmHeld', NEW o, NEW x, o = OmOut', x = OmId'
      PROVE  Fits(o, x)' \/ hooks'[x].at \in {"openSpan", "openOut"}
  <2>n. \A y : Fits(None, y)'
    BY DEF Fits
  <2>1. CASE OmDeath(h)
    <3>1. OmId' = OmId /\ OmOut' = OmOut /\ h \in world'.died
      BY <2>1, OmUnwritten DEF OmDeath
    <3>2. OmHeld
      BY <1>i, <1>3, <3>1 DEF OmHeld
    <3>3. CASE OmId = h
      <4>1. Fits(o, h)'
        BY <3>1 DEF Fits
      <4> QED
        BY <1>3, <3>1, <3>3, <4>1
    <3>4. CASE OmId # h
      BY <1>3, <1>a, <1>f, <1>r, <3>1, <3>2, <3>4
    <3> QED
      BY <3>3, <3>4
  <2>2. CASE OmMove(h)
    <3>m. OmFrom(l, t) /\ OmStore(h, l)
      BY <2>2 DEF OmMove
    <3>1. CASE l.at = "open"
      BY <1>3, <3>m, <3>1 DEF OmStore, OmFrom
    <3>2. CASE l.at # "open"
      <4>1. OmHeld /\ OmId' = OmId
        BY <1>3, <1>i, <3>m, <3>2 DEF OmStore, OmHeld
      <4>2. CASE l.at \in {"openOut", "clearOut"}
        BY <1>3, <2>n, <3>m, <4>2 DEF OmStore
      <4>3. CASE l.at = "setOut"
        <5>1. OmOut' = h
          BY <3>m, <4>3 DEF OmStore
        <5>2. l.kind = "turnEnd"
          BY <4>3, OmKindAt DEF OmSpans
        <5>3. PICK p : RunOf(p, m) /\ p < m
          BY <1>h, <5>2, OmOfRun
        <5>4. Fits(h, OmId)
          BY <1>3, <1>h, <1>r, <4>1, <5>3, OmFitting
        <5> QED
          BY <1>3, <1>f, <4>1, <5>1, <5>4
      <4>4. CASE l.at \notin {"openOut", "clearOut", "setOut"}
        <5>1. OmOut' = OmOut
          BY <3>m, <4>4 DEF OmStore
        <5>2. CASE Fits(OmOut, OmId)
          BY <1>3, <1>f, <4>1, <5>1, <5>2
        <5>3. CASE hooks[OmId].at \in {"openSpan", "openOut"}
          <6>1. OmId = h /\ l.at = "openSpan"
            BY <1>2, <1>3, <1>a, <4>1, <4>4, <5>3
          <6> QED
            BY <1>3, <3>m, <4>1, <6>1 DEF OmFrom
        <5> QED
          BY <1>3, <1>a, <4>1, <5>2, <5>3
      <4> QED
        BY <4>2, <4>3, <4>4
    <3> QED
      BY <3>1, <3>2
  <2> QED
    BY <2>1, <2>2
<1>4. ASSUME world.race = "none", OmHeld', NEW g \in OmHooks, hooks'[g].at \in OmRoot,
             NEW o, NEW x, o = hooks'[g].out, x = OmId'
      PROVE  Fits(o, x)'
  <2>1. g = h /\ t.at \in OmRoot
    BY <1>2, <1>4, <1>r DEF OmRoot
  <2>2. OmMove(h) /\ OmFrom(l, t) /\ OmVars(l, t) /\ OmStore(h, l)
    BY <2>1 DEF OmDeath, OmRoot, OmMove
  <2>3. l.at \in {"closeOut", "endOut", "rootTrace", "rootSpan"}
    BY <2>1, <2>2 DEF OmFrom, OmRoot
  <2>4. OmId' = OmId /\ OmHeld
    BY <1>4, <1>i, <2>2, <2>3 DEF OmStore, OmHeld
  <2>5. Fits(t.out, OmId)
    <3>1. CASE l.at \in {"rootTrace", "rootSpan"}
      <4>1. t.out = l.out
        BY <2>1, <2>2, <3>1 DEF OmFrom, OmVars, OmRoot
      <4> QED
        BY <1>4, <1>a, <2>4, <3>1, <4>1 DEF OmRoot
    <3>2. CASE l.at \in {"closeOut", "endOut"}
      <4>1. t.at = "rootTrace"
        BY <2>1, <2>2, <3>2 DEF OmFrom, OmRoot
      <4>2. CASE l.at = "endOut" /\ l.final # None
        <5>1. t.out = l.final
          BY <2>2, <4>1, <4>2 DEF OmVars
        <5>2. l.kind = "agentEnd"
          BY <4>2, OmKindAt DEF OmEnd
        <5>3. PICK p \in EventsOf("start") :
                /\ RunOf(p, m) /\ p < m
                /\ \A j \in DOMAIN world.log : p < j /\ j < m => RunOf(p, j)
                /\ \E j \in EventsOf("turnEnd") : p < j /\ j < m /\ world.log[j].by = l.final
          BY <1>h, <4>2, <5>2, OmOfRun
        <5>4. PICK j \in EventsOf("turnEnd") : p < j /\ j < m /\ world.log[j].by = l.final
          BY <5>3
        <5>5. j \in DOMAIN world.log
          BY DEF EventsOf
        <5>6. RunOf(p, j)
          BY <5>3, <5>4, <5>5
        <5>7. Fits(l.final, OmId)
          BY <1>4, <1>h, <1>r, <2>4, <5>3, <5>4, <5>5, <5>6, OmFitting
        <5> QED
          BY <5>1, <5>7
      <4>3. CASE ~(l.at = "endOut" /\ l.final # None)
        <5>1. t.out = OmOut
          BY <2>2, <4>1, <4>3 DEF OmVars
        <5>2. hooks[OmId].at \notin {"openSpan", "openOut"}
          BY <1>2, <1>4, <1>a, <2>4, <3>2
        <5> QED
          BY <1>4, <1>a, <2>4, <5>1, <5>2
      <4> QED
        BY <4>2, <4>3
    <3> QED
      BY <2>3, <3>1, <3>2
  <2> QED
    BY <1>4, <1>f, <2>1, <2>4, <2>5
<1>5. ASSUME world.race = "none", NEW k, NEW x, IsRoot(sent', k, x), NEW o, o = sent'[k].out
      PROVE  Fits(o, x)'
  <2>1. \A y : y = sent[k].out => (IsRoot(sent, k, x) => Fits(y, x))
    BY <1>5 DEF OmAnswers
  <2>2. CASE OmDeath(h)
    BY <1>5, <1>f, <2>1, <2>2 DEF OmDeath
  <2>3. CASE OmMove(h)
    <3>s. OmSent(h, l)
      BY <2>3, OmSpan
    <3>1. CASE IsRoot(sent, k, x) /\ sent'[k] = sent[k]
      BY <1>5, <1>f, <2>1, <3>1
    <3>2. CASE l.at = "sendRoot" /\ x = l.trace /\ sent'[k].out = l.out
      <4>1. OmHeld /\ OmId = l.trace
        BY <3>2 DEF OmTrace
      <4>2. Fits(l.out, l.trace)
        BY <1>5, <1>a, <3>2, <4>1 DEF OmRoot
      <4> QED
        BY <1>5, <1>f, <3>2, <4>2
    <3> QED
      BY <1>5, <3>s, <3>1, <3>2 DEF OmSent
  <2> QED
    BY <2>2, <2>3
<1> QED
  BY <1>1, <1>3, <1>4, <1>5, <1>r DEF OmAnswers, IsRoot, OmRoot, Fits

(* What the begin of a hook keeps.                                         *)
LEMMA OmBeginKeeps ==
  ASSUME OmLog, NEW h \in OmHooks, NEW k, NEW f, OmBegin(h, k, f)
  PROVE  LET n == Len(world.log) + 1 IN
         /\ OmHooks' = OmHooks /\ IsSeq(world.log) /\ n \in Nat /\ DOMAIN world.log = 1 .. Len(world.log)
         /\ IsSeq(world'.log) /\ Len(world'.log) = n /\ DOMAIN world'.log = DOMAIN world.log \cup {n}
         /\ n \notin DOMAIN world.log /\ (\A i \in DOMAIN world.log : i \in Nat /\ i < n)
         /\ (\A i \in DOMAIN world.log : /\ world'.log[i] = world.log[i]
                                         /\ world.log[i].by \in OmHooks /\ world.log[i].by # h
                                         /\ hooks'[world.log[i].by] = hooks[world.log[i].by])
         /\ world'.log[n].kind = k /\ world'.log[n].by = h /\ world'.log[n].final = f
         /\ \A x, i : i \in EventsOf(x)' <=> i \in EventsOf(x) \/ (i = n /\ x = k)
         /\ \A p : \A i \in DOMAIN world.log : RunOf(p, i)' <=> RunOf(p, i)
         /\ \A p, i : i = n /\ RunOf(p, i)' =>
              IF k = "start" THEN p = n
              ELSE p \in EventsOf("start") /\ \A q \in EventsOf("start") : q <= p
         /\ \A t : Opened(t) => Opened(t)'
         /\ \A o, t : Fits(o, t) => Fits(o, t)'
         /\ OmId' = OmId /\ (OmParent' <=> OmParent) /\ OmOut' = OmOut /\ (OmHeld' <=> OmHeld)
<1> DEFINE n == Len(world.log) + 1
           e == [kind |-> k, by |-> h, final |-> f]
<1>1. /\ IsSeq(world.log) /\ world'.log = Append(world.log, e) /\ OmHooks' = OmHooks
      /\ e.kind = k /\ e.by = h /\ e.final = f
  BY DEF OmLog, OmBegin, OmHooks
<1> HIDE DEF e
<1>2. /\ IsSeq(world'.log) /\ Len(world.log) \in Nat /\ DOMAIN world.log = 1 .. Len(world.log)
      /\ Len(world'.log) = n /\ DOMAIN world'.log = DOMAIN world.log \cup {n} /\ n \notin DOMAIN world.log
      /\ (\A i \in DOMAIN world.log : world'.log[i] = world.log[i]) /\ world'.log[n] = e
  BY <1>1, AppendAny
<1>3. n \in Nat /\ \A i \in DOMAIN world.log : i \in Nat /\ i < n
  BY <1>2
<1> HIDE DEF n
<1>4. \A i \in DOMAIN world.log : /\ world.log[i].by \in OmHooks /\ world.log[i].by # h
                                  /\ hooks'[world.log[i].by] = hooks[world.log[i].by]
  BY DEF OmLog, OmBegin
<1>5. \A x, i : i \in EventsOf(x)' <=> i \in EventsOf(x) \/ (i = n /\ x = k)
  BY <1>1, <1>2 DEF EventsOf
<1>6. \A p : \A i \in DOMAIN world.log : RunOf(p, i)' <=> RunOf(p, i)
  BY <1>3, <1>5 DEF RunOf
<1>7. \A p, i : i = n /\ RunOf(p, i)' =>
        IF k = "start" THEN p = n
        ELSE p \in EventsOf("start") /\ \A q \in EventsOf("start") : q <= p
  <2>1. \A q \in EventsOf("start") : q \in Nat /\ q < n
    BY <1>3 DEF EventsOf
  <2>2. ASSUME NEW p, NEW i, i = n, RunOf(p, i)'
        PROVE  /\ p \in EventsOf("start") \/ (p = n /\ k = "start")
               /\ \A q : q \in EventsOf("start") \/ (q = n /\ k = "start") => (q <= n => q <= p)
    BY <1>5, <2>2 DEF RunOf
  <2> QED
    BY <1>3, <2>1, <2>2
<1>8. ASSUME NEW t, Opened(t)
      PROVE  Opened(t)'
  <2>1. t # h
    BY <1>8 DEF OmBegin, Opened, OmPast, OmSpans
  <2>2. hooks'[t] = hooks[t]
    BY <1>8, <2>1 DEF OmBegin, Opened
  <2> QED
    BY <1>1, <1>2, <1>8, <2>2 DEF Opened, OmPast, OmSpans
<1>9. ASSUME NEW o, NEW t, Fits(o, t)
      PROVE  Fits(o, t)'
  <2>1. world'.died = world.died
    BY DEF OmBegin
  <2>2. CASE o = None \/ t \in world.died
    BY <2>1, <2>2 DEF Fits
  <2>3. CASE ~(o = None \/ t \in world.died)
    <3>1. PICK p, i \in DOMAIN world.log :
            /\ RunOf(p, i) /\ world.log[i].by = o
            /\ \/ world.log[p].by \in world.died
               \/ \E j \in DOMAIN world.log : RunOf(p, j) /\ world.log[j].by = t
      BY <1>9, <2>3 DEF Fits
    <3>2. /\ p \in DOMAIN world'.log /\ i \in DOMAIN world'.log
          /\ RunOf(p, i)' /\ world'.log[i].by = o /\ world'.log[p].by = world.log[p].by
      BY <1>2, <1>6, <3>1
    <3>3. \/ world'.log[p].by \in world'.died
          \/ \E j \in DOMAIN world'.log : RunOf(p, j)' /\ world'.log[j].by = t
      BY <1>2, <1>6, <2>1, <3>1, <3>2
    <3> QED
      BY <3>2, <3>3 DEF Fits
  <2> QED
    BY <2>2, <2>3
<1>10. OmId' = OmId /\ (OmParent' <=> OmParent) /\ OmOut' = OmOut
  BY OmUnwritten DEF OmBegin
<1>11. OmHeld' <=> OmHeld
  BY <1>10 DEF OmHeld
<1> QED
  BY <1>1, <1>2, <1>3, <1>4, <1>5, <1>6, <1>7, <1>8, <1>9, <1>10, <1>11 DEF n

LEMMA OmLogBegun ==
  ASSUME OmLog, OmAlone, NEW h \in OmHooks, NEW k, NEW f, OmBegin(h, k, f)
  PROVE  OmLog' /\ OmAlone'
<1> DEFINE n == Len(world.log) + 1
<1>k. /\ OmHooks' = OmHooks /\ n \in Nat /\ DOMAIN world.log = 1 .. Len(world.log)
      /\ IsSeq(world'.log) /\ DOMAIN world'.log = DOMAIN world.log \cup {n}
      /\ n \notin DOMAIN world.log /\ (\A i \in DOMAIN world.log : i \in Nat /\ i < n)
      /\ (\A i \in DOMAIN world.log : /\ world'.log[i] = world.log[i]
                                      /\ world.log[i].by \in OmHooks /\ world.log[i].by # h
                                      /\ hooks'[world.log[i].by] = hooks[world.log[i].by])
      /\ world'.log[n].kind = k /\ world'.log[n].by = h /\ world'.log[n].final = f
      /\ \A x, i : i \in EventsOf(x)' <=> i \in EventsOf(x) \/ (i = n /\ x = k)
  BY OmBeginKeeps
<1>b. /\ hooks[h].at = "new" /\ DOMAIN hooks' = OmHooks /\ (\A g \in OmHooks : g # h => hooks'[g] = hooks[g])
      /\ DOMAIN hooks'[h] = OmFields /\ hooks'[h].at = "ensure" /\ hooks'[h].kind = k /\ hooks'[h].final = f
      /\ k \in Om!Kinds /\ Om!Possible(k) /\ Om!MayOverlap(k)
      /\ DOMAIN world' = DOMAIN world /\ world'.race = world.race /\ world'.died = world.died
      /\ k # "turnEnd" => f = Om!LastAnswer
  BY DEF OmBegin
<1> HIDE DEF n
<1>1. \A g \in OmHooks : OmPlaced(hooks'[g])
  <2>1. OmPlaced(hooks'[h])
    BY <1>b DEF OmPlaced
  <2> QED
    BY <1>b, <2>1 DEF OmLog
<1>2. None \notin OmHooks /\ DOMAIN world' = {"race", "died", "log"}
  BY <1>b DEF OmLog
<1>3. world'.died \subseteq {g \in OmHooks : hooks'[g].at = "done"}
  BY <1>b DEF OmLog
<1>4. \A g \in OmHooks : hooks'[g].at # "new" => \E i \in DOMAIN world'.log : world'.log[i].by = g
  <2>1. \A g \in OmHooks : hooks[g].at # "new" => \E i \in DOMAIN world.log : world.log[i].by = g
    BY DEF OmLog
  <2> QED
    BY <1>k, <1>b, <2>1
<1>5. \A i, j \in DOMAIN world'.log : world'.log[i].by = world'.log[j].by => i = j
  <2>1. \A i, j \in DOMAIN world.log : world.log[i].by = world.log[j].by => i = j
    BY DEF OmLog
  <2> QED
    BY <1>k, <2>1
<1>6. ASSUME NEW i \in DOMAIN world'.log
      PROVE  LET e == world'.log[i]
                 l == hooks'[e.by] IN
             /\ e.by \in OmHooks /\ l.at # "new" /\ e.kind \in Om!Kinds
             /\ l.at \notin {"new", "done"} => l.kind = e.kind /\ l.final = e.final
  <2>1. CASE i \in DOMAIN world.log
    <3>1. LET e == world.log[i]
              l == hooks[e.by] IN
          /\ e.by \in OmHooks /\ l.at # "new" /\ e.kind \in Om!Kinds
          /\ Om!Running(e.by) => l.kind = e.kind /\ l.final = e.final
      BY <2>1 DEF OmLog
    <3> QED
      BY <1>k, <2>1, <3>1 DEF Om!Running
  <2>2. CASE i = n
    BY <1>k, <1>b, <2>2
  <2> QED
    BY <1>k, <2>1, <2>2
<1>7. ASSUME NEW i \in DOMAIN world'.log, world'.log[i].kind \in {"turnEnd", "agentEnd"}
      PROVE  LET e == world'.log[i] IN
             \E p \in EventsOf("start")' :
               /\ p < i /\ \A j \in DOMAIN world'.log : p < j /\ j < i => world'.log[j].kind = "turnEnd"
               /\ e.kind = "agentEnd" /\ e.final = None => p = i - 1
               /\ e.kind = "agentEnd" /\ e.final # None =>
                    \E j \in EventsOf("turnEnd")' : p < j /\ j < i /\ world'.log[j].by = e.final
  <2>1. CASE i \in DOMAIN world.log
    <3>1. PICK p \in EventsOf("start") :
            /\ p < i /\ \A j \in DOMAIN world.log : p < j /\ j < i => world.log[j].kind = "turnEnd"
            /\ world.log[i].kind = "agentEnd" /\ world.log[i].final = None => p = i - 1
            /\ world.log[i].kind = "agentEnd" /\ world.log[i].final # None =>
                 \E j \in EventsOf("turnEnd") : p < j /\ j < i /\ world.log[j].by = world.log[i].final
      BY <1>7, <1>k, <2>1 DEF OmLog
    <3>2. \A j \in DOMAIN world'.log : p < j /\ j < i => world'.log[j].kind = "turnEnd"
      BY <1>k, <2>1, <3>1
    <3>3. \A j \in EventsOf("turnEnd") : j \in EventsOf("turnEnd")' /\ world'.log[j].by = world.log[j].by
      BY <1>k DEF EventsOf
    <3> QED
      BY <1>k, <2>1, <3>1, <3>2, <3>3
  <2>2. CASE i = n
    <3>1. k \in {"turnEnd", "agentEnd"} /\ Om!InRun
      BY <1>7, <1>k, <1>b, <2>2 DEF Om!Possible
    <3>2. PICK p \in EventsOf("start") :
            /\ p \in Nat /\ p <= Len(world.log)
            /\ \A j \in DOMAIN world.log : p < j => world.log[j].kind = "turnEnd"
            /\ Om!LastAnswer = None => p = Len(world.log)
            /\ Om!LastAnswer # None =>
                 \E j \in EventsOf("turnEnd") : p < j /\ j <= Len(world.log) /\ world.log[j].by = Om!LastAnswer
      BY <3>1, OmInRun
    <3>3. p < n /\ n - 1 = Len(world.log) /\ \A j : j \in DOMAIN world.log => j < n
      BY <1>k, <3>2 DEF n
    <3>4. \A j \in EventsOf("turnEnd") : /\ j \in EventsOf("turnEnd")' /\ j \in DOMAIN world.log
                                         /\ world'.log[j].by = world.log[j].by
      BY <1>k DEF EventsOf
    <3>5. p \in EventsOf("start")'
      BY <1>k
    <3>6. \A j \in DOMAIN world'.log : p < j /\ j < n => world'.log[j].kind = "turnEnd"
      BY <1>k, <3>2
    <3>7. k = "agentEnd" => f = Om!LastAnswer
      BY <1>b
    <3> QED
      BY <1>k, <2>2, <3>2, <3>3, <3>4, <3>5, <3>6, <3>7
  <2> QED
    BY <1>k, <2>1, <2>2
<1>8. OmLog'
  <2>1. \A g \in OmHooks' : OmPlaced(hooks[g])'
    BY <1>k, <1>1 DEF OmPlaced
  <2>2. IsSeq(world.log)'
    BY <1>k DEF IsSeq
  <2>3. \A i \in DOMAIN world'.log :
          LET e == world'.log[i]
              l == hooks'[e.by] IN
          /\ e.by \in OmHooks /\ l.at # "new" /\ e.kind \in Om!Kinds
          /\ l.at \notin {"new", "done"} => l.kind = e.kind /\ l.final = e.final
          /\ e.kind \in {"turnEnd", "agentEnd"} =>
               \E p \in EventsOf("start")' :
                 /\ p < i /\ \A j \in DOMAIN world'.log : p < j /\ j < i => world'.log[j].kind = "turnEnd"
                 /\ e.kind = "agentEnd" /\ e.final = None => p = i - 1
                 /\ e.kind = "agentEnd" /\ e.final # None =>
                      \E j \in EventsOf("turnEnd")' : p < j /\ j < i /\ world'.log[j].by = e.final
    BY <1>6, <1>7
  <2> QED
    BY <1>k, <1>b, <1>2, <1>3, <1>4, <1>5, <2>1, <2>2, <2>3 DEF OmLog, Om!Running, Om!Kinds
<1>9. ASSUME NEW i \in DOMAIN world'.log, NEW j \in DOMAIN world'.log, i < j,
             hooks'[world'.log[i].by].at \notin {"new", "done"}
      PROVE  /\ world'.race = "last"
             /\ world'.log[i].kind = "turnEnd" /\ world'.log[j].kind = "agentEnd"
  <2>1. i \in DOMAIN world.log
    BY <1>9, <1>k
  <2>2. Om!Running(world.log[i].by) /\ world.log[i].by \in OmHooks
    BY <1>9, <1>k, <2>1 DEF Om!Running
  <2>3. CASE j \in DOMAIN world.log
    BY <1>9, <1>k, <1>b, <2>1, <2>2, <2>3 DEF OmAlone
  <2>4. CASE j = n
    <3>1. world.race = "last" /\ k = "agentEnd" /\ hooks[world.log[i].by].kind = "turnEnd"
      BY <1>b, <2>2 DEF Om!MayOverlap, OmHooks
    <3>2. world.log[i].kind = "turnEnd"
      BY <2>1, <2>2, <3>1 DEF OmLog
    <3> QED
      BY <1>k, <1>b, <2>1, <2>4, <3>1, <3>2
  <2> QED
    BY <1>k, <2>3, <2>4
<1>10. OmAlone'
  BY <1>9 DEF OmAlone, Om!Running
<1> QED
  BY <1>8, <1>10

LEMMA OmBegun ==
  ASSUME OmInv, NEW h \in OmHooks, NEW k, NEW f, OmBegin(h, k, f)
  PROVE  OmTrace' /\ OmRoots' /\ OmOpen' /\ OmEnds' /\ OmRooted' /\ OmAnswers'
<1> DEFINE n == Len(world.log) + 1
<1>k. /\ OmHooks' = OmHooks /\ n \in Nat /\ DOMAIN world.log = 1 .. Len(world.log)
      /\ Len(world'.log) = n /\ DOMAIN world'.log = DOMAIN world.log \cup {n}
      /\ n \notin DOMAIN world.log /\ (\A i \in DOMAIN world.log : i \in Nat /\ i < n)
      /\ (\A i \in DOMAIN world.log : /\ world'.log[i] = world.log[i]
                                      /\ world.log[i].by \in OmHooks /\ world.log[i].by # h
                                      /\ hooks'[world.log[i].by] = hooks[world.log[i].by])
      /\ world'.log[n].kind = k /\ world'.log[n].by = h /\ world'.log[n].final = f
  BY OmBeginKeeps DEF OmInv
<1>e. \A x, i : i \in EventsOf(x)' <=> i \in EventsOf(x) \/ (i = n /\ x = k)
  BY OmBeginKeeps DEF OmInv
<1>u. /\ \A p : \A i \in DOMAIN world.log : RunOf(p, i)' <=> RunOf(p, i)
      /\ \A p, i : i = n /\ RunOf(p, i)' =>
           IF k = "start" THEN p = n
           ELSE p \in EventsOf("start") /\ \A q \in EventsOf("start") : q <= p
  BY OmBeginKeeps DEF OmInv
<1>o. /\ \A t : Opened(t) => Opened(t)'
      /\ \A o, t : Fits(o, t) => Fits(o, t)'
  BY OmBeginKeeps DEF OmInv
<1>i. OmId' = OmId /\ (OmParent' <=> OmParent) /\ OmOut' = OmOut /\ (OmHeld' <=> OmHeld)
  BY OmBeginKeeps DEF OmInv
<1>b. /\ hooks[h].at = "new" /\ (\A g \in OmHooks : g # h => hooks'[g] = hooks[g])
      /\ hooks'[h].at = "ensure" /\ Om!Possible(k) /\ Om!MayOverlap(k) /\ sent' = sent
      /\ world'.race = world.race /\ world'.died = world.died
      /\ k # "turnEnd" => f = Om!LastAnswer
  BY DEF OmBegin
<1> HIDE DEF n
<1>l. OmLog /\ OmAlone /\ OmTrace /\ OmRoots /\ OmOpen /\ OmEnds /\ OmRooted /\ OmAnswers
  BY DEF OmInv
<1>t. \A x : x = OmId => (OmHeld => x \in OmHooks /\ Opened(x) /\ x # h)
  BY <1>b, <1>l DEF OmTrace, Opened, OmPast, OmSpans
<1>1. OmTrace'
  <2>1. \A x : x = OmId' => (OmHeld' => Opened(x)')
    BY <1>i, <1>o, <1>t
  <2>2. \A g \in OmHooks : LET l == hooks'[g] IN
          /\ l.at \in {"rootSpan", "sendRoot", "clear"} => OmHeld' /\ OmId' = l.trace
          /\ l.at = "open" /\ l.kind = "turnEnd" => ~OmHeld'
          /\ l.at \in {"openSpan", "openOut"} /\ l.kind = "start" => OmHeld' /\ OmId' = g
          /\ l.at = "openOut" /\ l.kind = "start" => OmParent'
    BY <1>b, <1>i, <1>l DEF OmTrace
  <2> QED
    BY <1>k, <2>1, <2>2 DEF OmTrace, Opened
<1>2. OmRoots'
  <2>1. \A a, x : IsRoot(sent, a, x) => Opened(x)'
    BY <1>l, <1>o DEF OmRoots
  <2>2. \A g \in OmHooks : hooks'[g].at = "clear" => \E a : IsRoot(sent, a, hooks'[g].trace)
    BY <1>b, <1>l DEF OmRoots
  <2>3. world.died = {} => \A a, m, x : IsRoot(sent, a, x) /\ IsRoot(sent, m, x) => a = m
    BY <1>l DEF OmRoots
  <2>4. world.died = {} => \A a : IsRoot(sent, a, OmId) => sent[a].by \in OmHooks /\ hooks'[sent[a].by].at = "clear"
    <3>1. world.died = {} => \A a : IsRoot(sent, a, OmId) => sent[a].by \in OmHooks /\ hooks[sent[a].by].at = "clear"
      BY <1>l DEF OmRoots
    <3> QED
      BY <1>b, <3>1
  <2>5. IsSeq(sent)' /\ sent' = sent
    BY <1>b, <1>l DEF OmRoots, IsSeq
  <2> QED
    BY <1>k, <1>b, <1>i, <2>1, <2>2, <2>3, <2>4, <2>5 DEF OmRoots, IsRoot
<1>3. OmOpen'
  <2> SUFFICES ASSUME world.died = {}, NEW p \in EventsOf("start")'
               PROVE  LET s == world'.log[p].by IN
                      /\ hooks'[s].at = "done" /\ (\A j \in DOMAIN world'.log : p < j => world'.log[j].kind = "turnEnd")
                         => OmHeld' /\ OmId' = s /\ OmParent' /\ (p = Len(world'.log) => OmOut' = None)
                      /\ \A i \in EventsOf("turnEnd")' :
                           RunOf(p, i)' /\ hooks'[world'.log[i].by].at \in OmOpening =>
                             \E j \in EventsOf("agentEnd")' :
                               RunOf(p, j)' /\ hooks'[world'.log[j].by].at \notin OmUncleared
    BY <1>b DEF OmOpen, OmOpening, OmSpans, OmUncleared, OmEnd, OmRoot
  <2>1. CASE p = n
    <3>1. hooks'[world'.log[p].by].at # "done"
      BY <1>k, <1>b, <2>1
    <3>2. ASSUME NEW i \in EventsOf("turnEnd")', RunOf(p, i)'
          PROVE  hooks'[world'.log[i].by].at \notin OmOpening
      <4>1. i \in DOMAIN world'.log /\ p <= i
        BY <3>2 DEF EventsOf, RunOf
      <4>2. i = n
        BY <1>k, <2>1, <4>1
      <4> QED
        BY <1>k, <1>b, <4>2 DEF OmOpening
    <3> QED
      BY <3>1, <3>2
  <2>2. CASE p # n
    <3>1. p \in EventsOf("start") /\ p \in DOMAIN world.log
      BY <1>e, <2>2 DEF EventsOf
    <3>2. LET s == world.log[p].by IN
          /\ hooks[s].at = "done" /\ (\A j \in DOMAIN world.log : p < j => world.log[j].kind = "turnEnd")
             => OmHeld /\ OmId = s /\ OmParent
          /\ \A i \in EventsOf("turnEnd") :
               RunOf(p, i) /\ hooks[world.log[i].by].at \in OmOpening =>
                 \E j \in EventsOf("agentEnd") :
                   RunOf(p, j) /\ hooks[world.log[j].by].at \notin OmUncleared
      BY <1>l, <3>1 DEF OmOpen
    <3>3. world'.log[p] = world.log[p] /\ hooks'[world.log[p].by] = hooks[world.log[p].by]
      BY <1>k, <3>1
    <3>4. ASSUME NEW i \in EventsOf("turnEnd")', RunOf(p, i)', hooks'[world'.log[i].by].at \in OmOpening
          PROVE  \E j \in EventsOf("agentEnd")' : RunOf(p, j)' /\ hooks'[world'.log[j].by].at \notin OmUncleared
      <4>1. i # n
        BY <1>k, <1>b, <3>4 DEF OmOpening
      <4>2. i \in EventsOf("turnEnd") /\ i \in DOMAIN world.log
        BY <1>e, <4>1 DEF EventsOf
      <4>3. PICK j \in EventsOf("agentEnd") : RunOf(p, j) /\ hooks[world.log[j].by].at \notin OmUncleared
        BY <1>k, <1>u, <3>2, <3>4, <4>2
      <4>4. j \in DOMAIN world.log
        BY DEF EventsOf
      <4> QED
        BY <1>e, <1>k, <1>u, <4>3, <4>4
    <3> QED
      BY <1>i, <1>k, <2>2, <3>2, <3>3, <3>4
  <2> QED
    BY <2>1, <2>2
<1>4. OmEnds'
  <2> SUFFICES ASSUME world.died = {}, NEW p \in DOMAIN world'.log, NEW i \in DOMAIN world'.log,
                      world'.log[i].kind = "agentEnd", RunOf(p, i)'
               PROVE  LET e == world'.log[i]
                          u == hooks'[e.by] IN
                      /\ u.at \in OmUncleared => OmHeld' /\ OmId' = world'.log[p].by /\ OmParent'
                      /\ u.at \in {"ensure"} \cup OmEnd /\ e.final = None => OmOut' = None
                      /\ u.at \in OmRoot => u.out = e.final
                      /\ u.at \notin OmUncleared \/ u.at = "clear" =>
                           \E a : IsRoot(sent, a, world'.log[p].by) /\ sent[a].out = e.final
    BY <1>b DEF OmEnds, IsRoot, OmUncleared, OmEnd, OmRoot
  <2>1. CASE i = n
    <3>1. k = "agentEnd" /\ Om!InRun /\ f = Om!LastAnswer
      BY <1>b, <1>k, <2>1 DEF Om!Possible
    <3>2. PICK q \in EventsOf("start") :
            /\ q \in Nat /\ q <= Len(world.log)
            /\ \A j \in DOMAIN world.log : q < j => world.log[j].kind = "turnEnd"
            /\ Om!LastAnswer = None => q = Len(world.log)
      BY <1>l, <3>1, OmInRun
    <3>3. p \in EventsOf("start") /\ \A r \in EventsOf("start") : r <= p
      BY <1>u, <2>1, <3>1
    <3>4. q \in DOMAIN world.log /\ p \in DOMAIN world.log /\ world.log[p].kind = "start" /\ p \in Nat
      BY <1>k, <3>3 DEF EventsOf
    <3>5. p = q
      <4>1. ~(q < p)
        BY <3>2, <3>4
      <4> QED
        BY <3>2, <3>3, <3>4, <4>1
    <3>6. hooks[world.log[p].by].at = "done"
      <4>1. /\ hooks[world.log[p].by].at # "new" /\ world.log[p].by \in OmHooks
            /\ Om!Running(world.log[p].by) => hooks[world.log[p].by].kind = "start"
        BY <1>l, <3>4 DEF OmLog
      <4>2. Om!Running(world.log[p].by) => hooks[world.log[p].by].kind = "turnEnd"
        BY <1>b, <4>1 DEF Om!MayOverlap, OmHooks
      <4> QED
        BY <4>1, <4>2 DEF Om!Running
    <3>7. OmHeld /\ OmId = world.log[p].by /\ OmParent /\ (p = Len(world.log) => OmOut = None)
      BY <1>l, <3>2, <3>5, <3>6 DEF OmOpen
    <3>8. f = None => OmOut = None
      BY <3>1, <3>2, <3>5, <3>7
    <3> QED
      BY <1>b, <1>i, <1>k, <2>1, <3>4, <3>7, <3>8 DEF OmUncleared, OmRoot
  <2>2. CASE i # n
    <3>1. i \in DOMAIN world.log /\ RunOf(p, i)
      BY <1>k, <1>u, <2>2
    <3>2. p \in DOMAIN world.log
      BY <1>l, <3>1, OmRunOf
    <3>3. world.log[i].kind = "agentEnd"
      BY <1>k, <3>1
    <3> DEFINE e == world.log[i]
               u == hooks[e.by]
    <3>4. /\ u.at \in OmUncleared => OmHeld /\ OmId = world.log[p].by /\ OmParent
          /\ u.at \in {"ensure"} \cup OmEnd /\ e.final = None => OmOut = None
          /\ u.at \in OmRoot => u.out = e.final
          /\ u.at \notin OmUncleared \/ u.at = "clear" =>
               \E a : IsRoot(sent, a, world.log[p].by) /\ sent[a].out = e.final
      BY <1>l, <3>1, <3>2, <3>3 DEF OmEnds
    <3>5. /\ world'.log[i] = e /\ hooks'[e.by] = u /\ world'.log[p] = world.log[p]
          /\ (OmHeld' <=> OmHeld) /\ OmId' = OmId /\ (OmParent' <=> OmParent) /\ OmOut' = OmOut
      BY <1>i, <1>k, <3>1, <3>2
    <3> HIDE DEF e, u
    <3> QED
      BY <3>4, <3>5
  <2> QED
    BY <2>1, <2>2
<1>5. OmRooted'
  <2>1. world.died = {} /\ world.race = "none" =>
          /\ \A a \in DOMAIN sent : (\E m : IsRoot(sent, m, sent[a].trace)) \/ (OmHeld /\ OmId = sent[a].trace)
          /\ OmHeld => OmParent \/ hooks'[OmId].at = "openSpan"
    BY <1>b, <1>l, <1>t DEF OmRooted
  <2>2. world.died = {} /\ world.race = "none" =>
          \A g \in OmHooks : LET l == hooks'[g] IN
            /\ l.at \in {"llmSpan", "toolSpan", "sendLlm", "sendTool"} => OmHeld /\ OmId = l.trace
            /\ l.at \in {"open", "clearSpan", "clearOut"} => ~OmHeld
    BY <1>b, <1>l DEF OmRooted
  <2> QED
    BY <1>b, <1>i, <1>k, <2>1, <2>2 DEF OmRooted, IsRoot
<1>6. OmAnswers'
  <2>1. ASSUME NEW p \in EventsOf("start")', \A q \in EventsOf("start")' : q <= p,
               hooks'[world'.log[p].by].at = "done", world'.log[p].by \notin world'.died, OmHeld'
        PROVE  \E i \in DOMAIN world'.log : p <= i /\ world'.log[i].by = OmId'
    <3>1. p # n
      BY <1>b, <1>k, <2>1
    <3>2. p \in EventsOf("start") /\ p \in DOMAIN world.log
      BY <1>e, <3>1 DEF EventsOf
    <3>3. \A q \in EventsOf("start") : q <= p
      BY <1>e, <2>1
    <3>4. hooks[world.log[p].by].at = "done" /\ world.log[p].by \notin world.died /\ OmHeld
      BY <1>b, <1>i, <1>k, <2>1, <3>2
    <3>5. PICK i \in DOMAIN world.log : p <= i /\ world.log[i].by = OmId
      BY <1>l, <3>2, <3>3, <3>4 DEF OmAnswers
    <3> QED
      BY <1>i, <1>k, <3>5
  <2>2. ASSUME world.race = "none", OmHeld', NEW o, NEW x, o = OmOut', x = OmId'
        PROVE  Fits(o, x)' \/ hooks'[x].at \in {"openSpan", "openOut"}
    <3>1. o = OmOut /\ x = OmId /\ OmHeld /\ x # h /\ x \in OmHooks
      BY <1>i, <1>t, <2>2
    <3>2. Fits(o, x) \/ hooks[x].at \in {"openSpan", "openOut"}
      BY <1>l, <2>2, <3>1 DEF OmAnswers
    <3> QED
      BY <1>b, <1>o, <3>1, <3>2
  <2>3. ASSUME world.race = "none", OmHeld', NEW g \in OmHooks, hooks'[g].at \in OmRoot,
               NEW o, NEW x, o = hooks'[g].out, x = OmId'
        PROVE  Fits(o, x)'
    <3>1. g # h /\ hooks'[g] = hooks[g]
      BY <1>b, <2>3 DEF OmRoot
    <3>2. Fits(o, x)
      BY <1>i, <1>l, <2>3, <3>1 DEF OmAnswers
    <3> QED
      BY <1>o, <3>2
  <2>4. ASSUME world.race = "none", NEW a, NEW x, IsRoot(sent, a, x), NEW o, o = sent[a].out
        PROVE  Fits(o, x)'
    BY <1>l, <1>o, <2>4 DEF OmAnswers
  <2>5. /\ world.race = "none" /\ OmHeld' => Fits(OmOut, OmId)' \/ hooks'[OmId'].at \in {"openSpan", "openOut"}
        /\ \A g \in OmHooks : world.race = "none" /\ hooks'[g].at \in OmRoot /\ OmHeld' =>
                                 Fits(hooks[g].out, OmId)'
        /\ \A a, x : world.race = "none" /\ IsRoot(sent, a, x) => Fits(sent[a].out, x)'
    <3>1. world.race = "none" /\ OmHeld' => Fits(OmOut, OmId)' \/ hooks'[OmId'].at \in {"openSpan", "openOut"}
      BY <2>2 DEF Fits
    <3>2. ASSUME NEW g \in OmHooks, world.race = "none", hooks'[g].at \in OmRoot, OmHeld'
          PROVE  Fits(hooks[g].out, OmId)'
      BY <2>3, <3>2 DEF Fits
    <3>3. ASSUME NEW a, NEW x, world.race = "none", IsRoot(sent, a, x)
          PROVE  Fits(sent[a].out, x)'
      BY <1>b, <2>4, <3>3 DEF Fits
    <3> QED
      BY <3>1, <3>2, <3>3
  <2>6. \A a, x : IsRoot(sent, a, x)' <=> IsRoot(sent, a, x)
    BY <1>b DEF IsRoot
  <2>7. \A p \in EventsOf("start")' :
          /\ \A q \in EventsOf("start")' : q <= p
          /\ hooks'[world'.log[p].by].at = "done" /\ world'.log[p].by \notin world'.died /\ OmHeld'
          => \E i \in DOMAIN world'.log : p <= i /\ world'.log[i].by = OmId'
    BY <2>1
  <2> QED
    BY <1>b, <1>k, <2>5, <2>6, <2>7 DEF OmAnswers, OmRoot
<1> QED
  BY <1>1, <1>2, <1>3, <1>4, <1>5, <1>6

LEMMA OmInit ==
  ASSUME Om!Init, None \notin OmHooks
  PROVE  OmInv
<1>1. /\ store = Om!Empty /\ hooks = [h \in OmHooks |-> Om!Unborn] /\ sent = <<>>
      /\ \E r : world = [race |-> r, died |-> {}, log |-> <<>>]
  BY DEF Om!Init, OmHooks
<1>2. DOMAIN hooks = OmHooks /\ \A h \in OmHooks : hooks[h].at = "new" /\ DOMAIN hooks[h] = OmFields
  BY <1>1 DEF Om!Unborn, OmFields
<1>3. DOMAIN world = {"race", "died", "log"} /\ world.died = {} /\ world.log = <<>>
  BY <1>1
<1>4. IsSeq(<<>>) /\ DOMAIN world.log = {} /\ DOMAIN sent = {}
  BY <1>1, <1>3 DEF IsSeq
<1>5. \A k : EventsOf(k) = {}
  BY <1>4 DEF EventsOf
<1>6. ~OmHeld
  <2>1. \A x : Om!Get(Om!Empty, x) = None
    BY DEF Om!Get, Om!Empty
  <2> QED
    BY <1>1, <2>1 DEF OmHeld, OmId
<1>7. \A k, t : ~IsRoot(sent, k, t)
  BY <1>4 DEF IsRoot
<1>8. OmLog
  BY <1>2, <1>3, <1>4 DEF OmLog, OmPlaced
<1>9. OmAlone
  BY <1>4 DEF OmAlone
<1>10. OmTrace
  BY <1>2, <1>6 DEF OmTrace
<1>11. OmRoots
  BY <1>1, <1>2, <1>4, <1>7 DEF OmRoots
<1>12. OmOpen /\ OmEnds
  BY <1>4, <1>5 DEF OmOpen, OmEnds
<1>13. OmRooted
  BY <1>2, <1>4, <1>6 DEF OmRooted
<1>14. OmAnswers
  BY <1>5, <1>6, <1>7 DEF OmAnswers
<1> QED
  BY <1>8, <1>9, <1>10, <1>11, <1>12, <1>13, <1>14 DEF OmInv

LEMMA OmStep ==
  ASSUME OmInv, [Om!Next]_Om!vars
  PROVE  OmInv'
<1>l. OmLog /\ OmAlone /\ OmTrace /\ OmRoots /\ OmOpen /\ OmEnds /\ OmRooted /\ OmAnswers
  BY DEF OmInv
<1>2. ASSUME NEW h \in OmHooks, OmMove(h)
      PROVE  OmInv'
  BY <1>l, <1>2, OmLogKept, OmTraceKept, OmRootsKept, OmOpenKept, OmEndsKept, OmRootedKept, OmAnswersKept DEF OmInv
<1>3. ASSUME NEW h \in OmHooks, OmDeath(h)
      PROVE  OmInv'
  <2>1. OmKept(h)
    BY <1>l, <1>3, OmKeeps
  <2>2. world'.died # {} /\ sent' = sent
    BY <1>3 DEF OmDeath
  <2>3. OmOpen' /\ OmEnds' /\ OmRooted'
    BY <2>2 DEF OmOpen, OmEnds, OmRooted
  <2>4. OmRoots'
    <3>1. \A k, x : IsRoot(sent, k, x) => Opened(x)'
      BY <1>l, <2>1 DEF OmRoots, OmKept
    <3>2. \A g \in OmHooks : hooks'[g].at = "clear" => \E k : IsRoot(sent, k, hooks'[g].trace)
      BY <1>l, <1>3 DEF OmRoots, OmDeath
    <3>3. IsSeq(sent)' /\ OmHooks' = OmHooks
      BY <1>l, <2>1, <2>2 DEF OmRoots, OmKept, IsSeq
    <3> QED
      BY <2>2, <3>1, <3>2, <3>3 DEF OmRoots, IsRoot
  <2> QED
    BY <1>l, <1>3, <2>3, <2>4, OmLogKept, OmTraceKept, OmAnswersKept DEF OmInv
<1>4. ASSUME NEW h \in OmHooks, NEW k, NEW f, OmBegin(h, k, f)
      PROVE  OmInv'
  BY <1>l, <1>4, OmLogBegun, OmBegun DEF OmInv
<1>5. CASE Om!Next
  <2>1. PICK h \in OmHooks : Om!Step(h)
    BY <1>5 DEF Om!Next, OmHooks
  <2> QED
    BY <1>l, <1>2, <1>3, <1>4, <2>1, OmSteps
<1>6. CASE UNCHANGED Om!vars
  <2>1. store' = store /\ hooks' = hooks /\ world' = world /\ sent' = sent /\ OmHooks' = OmHooks
    BY <1>6 DEF Om!vars, OmHooks
  <2>2. \A x : EventsOf(x)' = EventsOf(x)
    BY <2>1 DEF EventsOf
  <2>3. \A p, i : RunOf(p, i)' <=> RunOf(p, i)
    BY <2>2 DEF RunOf
  <2>4. \A x : (Opened(x)' <=> Opened(x)) /\ (Om!Running(x)' <=> Om!Running(x))
    BY <2>1 DEF Opened, OmPast, OmSpans, Om!Running
  <2>5. \A o, x : Fits(o, x)' <=> Fits(o, x)
    BY <2>1, <2>3 DEF Fits
  <2>6. OmId' = OmId /\ (OmParent' <=> OmParent) /\ OmOut' = OmOut
    BY <2>1, OmUnwritten
  <2>7. OmHeld' <=> OmHeld
    BY <2>6 DEF OmHeld
  <2>8. OmLog'
    BY <1>l, <2>1, <2>2, <2>4 DEF OmLog, OmPlaced, IsSeq, Om!Running, Om!Kinds
  <2>9. OmAlone'
    BY <1>l, <2>1 DEF OmAlone, Om!Running
  <2>10. OmTrace'
    BY <1>l, <2>1, <2>6, <2>7 DEF OmTrace, Opened, OmPast, OmSpans
  <2>11. OmRoots'
    BY <1>l, <2>1, <2>4, <2>6 DEF OmRoots, IsSeq, IsRoot
  <2>12. OmOpen'
    BY <1>l, <2>1, <2>2, <2>3, <2>6, <2>7 DEF OmOpen, OmOpening, OmUncleared, OmEnd, OmRoot
  <2>13. OmEnds'
    BY <1>l, <2>1, <2>3, <2>6, <2>7 DEF OmEnds, OmUncleared, OmEnd, OmRoot, IsRoot
  <2>14. OmRooted'
    BY <1>l, <2>1, <2>6, <2>7 DEF OmRooted, IsRoot
  <2>15. OmAnswers'
    BY <1>l, <2>1, <2>2, <2>3, <2>6, <2>7 DEF OmAnswers, Fits, IsRoot, OmRoot
  <2> QED
    BY <2>8, <2>9, <2>10, <2>11, <2>12, <2>13, <2>14, <2>15 DEF OmInv
<1> QED
  BY <1>5, <1>6

LEMMA OmCardinality == \A S : Om!Cardinality(S) = Cardinality(S)
BY DEF Om!Cardinality, Cardinality

(* omp: a run whose agent_end has been handled has one root, with the last *)
(* answer of the run, also where the hook of that answer was overtaken;    *)
(* where nothing overlaps every span has a root or is in the open trace,   *)
(* and a root has no answer of another run unless a hook died that was to  *)
(* keep them apart (_handle_before_agent_start, _handle_turn_end,          *)
(* _handle_agent_end).                                                     *)
THEOREM OmpRuns == Spec => []RunsReported
<1> DEFINE Inv == harness = "omp" => OmInv
<1>1. Init => Inv
  <2>1. Om!OmpAssumption
    BY HarnessesAssumption
  <2>2. None \notin OmHooks
    BY <2>1 DEF Om!OmpAssumption, OmHooks
  <2> QED
    BY <2>2, OmInit DEF Init
<1>2. Inv /\ [Next]_vars => Inv'
  <2> SUFFICES ASSUME Inv, [Next]_vars, harness' = "omp"
               PROVE  OmInv'
    OBVIOUS
  <2>1. harness = "omp"
    BY DEF Next, vars
  <2>2. [Next]_vars /\ harness = "omp" => [Om!Next]_Om!vars
    BY DEF Next, vars, Om!vars
  <2> QED
    BY <2>1, <2>2, OmStep
<1>3. Inv => RunsReported
  <2> SUFFICES ASSUME OmInv
               PROVE  Om!RunsReported
    BY DEF RunsReported
  <2>l. OmLog /\ OmRoots /\ OmEnds /\ OmRooted /\ OmAnswers
    BY DEF OmInv
  <2>e. \A k : Om!Events(k) = EventsOf(k)
    BY DEF Om!Events, EventsOf
  <2>r. \A t, k : k \in Om!Roots(t) <=> IsRoot(sent, k, t)
    BY DEF Om!Roots, IsRoot
  <2>1. ASSUME world.died = {}, NEW i \in EventsOf("agentEnd"), hooks[world.log[i].by].at = "done"
        PROVE  LET roots == Om!Roots(world.log[Om!StartOf(i)].by) IN
               Cardinality(roots) = 1 /\ \A r \in roots : sent[r].out = world.log[i].final
    <3>1. i \in DOMAIN world.log /\ world.log[i].kind = "agentEnd"
      BY DEF EventsOf
    <3>2. PICK p \in EventsOf("start") : RunOf(p, i) /\ p \in DOMAIN world.log
      BY <2>l, <3>1, OmOfRun
    <3>3. Om!StartOf(i) = p
      BY <2>l, <3>1, <3>2, OmRunOf
    <3>4. PICK k : IsRoot(sent, k, world.log[p].by) /\ sent[k].out = world.log[i].final
      BY <2>1, <2>l, <3>1, <3>2 DEF OmEnds, OmUncleared, OmEnd, OmRoot
    <3>5. \A m : IsRoot(sent, m, world.log[p].by) => m = k
      BY <2>1, <2>l, <3>4 DEF OmRoots
    <3>6. Om!Roots(world.log[p].by) = {k}
      BY <2>r, <3>4, <3>5
    <3> QED
      BY <3>3, <3>4, <3>6, FS_Singleton
  <2>2. ASSUME world.died = {}, world.race = "none", NEW i \in DOMAIN sent
        PROVE  Om!Roots(sent[i].trace) # {} \/ OmId = sent[i].trace
    BY <2>2, <2>l, <2>r DEF OmRooted
  <2>3. ASSUME world.race = "none", NEW i \in DOMAIN sent, sent[i].what = "root", sent[i].out # None
        PROVE  LET run == Om!StartOf(Om!EventOf(sent[i].out)) IN
               \/ run = Om!StartOf(Om!EventOf(sent[i].trace))
               \/ {world.log[run].by, sent[i].trace} \cap world.died # {}
    <3> DEFINE o == sent[i].out
               t == sent[i].trace
    <3>1. Fits(o, t)
      BY <2>3, <2>l DEF OmAnswers, IsRoot
    <3>2. \A a, b \in DOMAIN world.log : world.log[a].by = world.log[b].by => a = b
      BY <2>l DEF OmLog
    <3>3. \A a \in DOMAIN world.log : \A x : x = world.log[a].by => Om!EventOf(x) = a
      BY <3>2 DEF Om!EventOf
    <3> HIDE DEF o, t
    <3>4. CASE t \in world.died
      BY <3>4 DEF t
    <3>5. CASE t \notin world.died
      <4>1. PICK p, j \in DOMAIN world.log :
              /\ RunOf(p, j) /\ world.log[j].by = o
              /\ \/ world.log[p].by \in world.died
                 \/ \E m \in DOMAIN world.log : RunOf(p, m) /\ world.log[m].by = t
        BY <2>3, <3>1, <3>5 DEF Fits, o
      <4>2. Om!EventOf(o) = j /\ Om!StartOf(j) = p
        BY <2>l, <3>3, <4>1, OmRunOf
      <4>3. CASE world.log[p].by \in world.died
        BY <4>2, <4>3 DEF o, t
      <4>4. CASE \E m \in DOMAIN world.log : RunOf(p, m) /\ world.log[m].by = t
        <5>1. Om!StartOf(Om!EventOf(t)) = p
          BY <2>l, <3>3, <4>4, OmRunOf
        <5> QED
          BY <4>2, <5>1 DEF o, t
      <4> QED
        BY <4>1, <4>3, <4>4
    <3> QED
      BY <3>4, <3>5
  <2> QED
    BY <2>1, <2>2, <2>3, <2>e, OmCardinality DEF Om!RunsReported, OmId
<1> QED
  BY <1>1, <1>2, <1>3, PTL DEF Spec
=============================================================================
