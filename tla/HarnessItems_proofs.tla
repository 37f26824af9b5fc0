------------------------ MODULE HarnessItems_proofs -------------------------
(***************************************************************************)
(* Proofs about two harnesses whose hooks meet the same items again, for   *)
(* all values of their constants: the steps that Devin's hooks find in its *)
(* database, and the snapshots of opencode, old ones after newer ones, by  *)
(* hooks that die between any two of their updates.                        *)
(***************************************************************************)
EXTENDS Harnesses, Positions_proofs

-----------------------------------------------------------------------------
(* Devin *)

DevinHooks == HooksOf["devin"]
DevinKeys == Nat \X Nat
DevinSteps == [request : Nat, content : BOOLEAN]
DevinNodes == [session : Nat, request : Nat, content : BOOLEAN]
DevinPlaces == {"new", "resolve", "read", "check", "sendRoot", "send", "mark", "done"}

DevinLocals ==
  [at : DevinPlaces, session : Nat, steps : Seq(DevinSteps), i : Nat \ {0}, new : Seq(DevinSteps)]
DevinSpans ==
  [what : {"llm"}, trace : DevinHooks, key : DevinKeys, content : BOOLEAN]
    \cup [what : {"root"}, trace : DevinHooks, key : {<<>>}, content : BOOLEAN]

(* What the variables hold.                                                *)
DevinType ==
  /\ store \in SUBSET DevinKeys
  /\ hooks \in [DevinHooks -> DevinLocals]
  /\ world \in [overlap : BOOLEAN, crashes : Nat, fails : Nat, nodes : Seq(DevinNodes),
                recent : Nat, flushed : SUBSET DevinKeys]
  /\ sent \in Seq(DevinSpans)

(* The requests of q are distinct.                                         *)
Distinct(q) == \A a, b \in DOMAIN q : q[a].request = q[b].request => a = b

(* Devin's module has its own copy of the operator.                         *)
LEMMA DevinElementsAt == \A s, I : De!ElementsAt(s, I) = ElementsAt(s, I)
  BY DEF De!ElementsAt, ElementsAt, De!Nth, Nth, De!Rank, Rank, De!Cardinality, Cardinality

(* The nodes of a session.                                                 *)
LEMMA DevinNodesOf ==
  ASSUME world.nodes \in Seq(DevinNodes), NEW s \in Nat
  PROVE  De!NodesOf(s) \in Seq(DevinNodes)
<1> DEFINE I == {i \in DOMAIN world.nodes : world.nodes[i].session = s}
<1>1. I \in SUBSET DOMAIN world.nodes
  OBVIOUS
<1> HIDE DEF I
<1> QED
  BY <1>1, DevinElementsAt, ElementsOfPositions DEF De!NodesOf, I

(* read_steps makes one step of every request.                             *)
LEMMA DevinStepsOf ==
  ASSUME world.nodes \in Seq(DevinNodes), NEW s \in Nat
  PROVE  De!StepsOf(s) \in Seq(DevinSteps) /\ Distinct(De!StepsOf(s))
<1> DEFINE nodes == De!NodesOf(s)
           I == {i \in DOMAIN nodes : \A j \in 1..(i - 1) : nodes[j].request # nodes[i].request}
           firsts == ElementsAt(nodes, I)
           steps == De!StepsOf(s)
<1>1. nodes \in Seq(DevinNodes) /\ I \in SUBSET DOMAIN nodes
  BY DevinNodesOf
<1>2. /\ DOMAIN steps = DOMAIN firsts
      /\ \A n \in DOMAIN steps : steps[n].request = firsts[n].request /\ steps[n].content \in BOOLEAN
      /\ \A n \in DOMAIN steps : steps[n] = [request |-> steps[n].request, content |-> steps[n].content]
      /\ steps = [n \in DOMAIN steps |-> steps[n]]
  BY DevinElementsAt DEF De!StepsOf
<1>3. \A i, j \in I : nodes[i].request = nodes[j].request => i = j
  <2>1. \A i \in I : i \in Nat /\ i >= 1
    BY <1>1
  <2>2. \A i, j \in I : i < j => nodes[i].request # nodes[j].request
    BY <2>1
  <2> QED
    BY <2>1, <2>2
<1> HIDE DEF nodes, I, steps
<1>4. /\ firsts \in Seq(DevinNodes)
      /\ \A n \in DOMAIN firsts : Nth(I, n) \in I /\ firsts[n] = nodes[Nth(I, n)]
      /\ \A n, k \in DOMAIN firsts : Nth(I, n) < Nth(I, k) <=> n < k
  BY <1>1, ElementsOfPositions
<1> HIDE DEF firsts
<1>5. /\ DOMAIN firsts = 1 .. Len(firsts) /\ Len(firsts) \in Nat
      /\ \A n \in DOMAIN firsts : firsts[n].request \in Nat
  <2>1. DOMAIN firsts = 1 .. Len(firsts) /\ Len(firsts) \in Nat
    BY <1>4
  <2>2. \A n \in DOMAIN firsts : firsts[n] \in DevinNodes
    BY <1>4, <2>1, ElementOfSeq
  <2> QED
    BY <2>1, <2>2 DEF DevinNodes
<1>6. steps \in Seq(DevinSteps)
  <2>1. \A n \in 1 .. Len(firsts) : steps[n] \in DevinSteps
    BY <1>2, <1>5 DEF DevinSteps
  <2>2. steps \in [1 .. Len(firsts) -> DevinSteps]
    BY <1>2, <1>5, <2>1
  <2> QED
    BY <1>5, <2>2
<1>7. ASSUME NEW n \in DOMAIN steps, NEW k \in DOMAIN steps, steps[n].request = steps[k].request
      PROVE  n = k
  <2>1. Nth(I, n) = Nth(I, k)
    BY <1>2, <1>3, <1>4, <1>7
  <2>2. Nth(I, n) \in Nat /\ ~(n < k) /\ ~(k < n)
    BY <1>1, <1>2, <1>4, <2>1
  <2> QED
    BY <1>2, <1>5, <2>2
<1> QED
  BY <1>6, <1>7 DEF Distinct, steps

(* The next request of a session is a number.                              *)
LEMMA DevinRequests ==
  ASSUME world.nodes \in Seq(DevinNodes), NEW s \in Nat,
         NEW r \in De!Requests(s) \cup {De!Cardinality(De!Requests(s)) + 1}
  PROVE  r \in Nat
<1> DEFINE nodes == De!NodesOf(s)
           R == De!Requests(s)
           f == [i \in DOMAIN nodes |-> nodes[i].request]
<1>1. /\ nodes \in Seq(DevinNodes) /\ DOMAIN nodes = 1 .. Len(nodes) /\ Len(nodes) \in Nat
      /\ R = {f[i] : i \in DOMAIN nodes} /\ DOMAIN f = DOMAIN nodes
      /\ \A i \in DOMAIN nodes : f[i] = nodes[i].request
  BY DevinNodesOf DEF De!Requests
<1> HIDE DEF nodes, R, f
<1>2. \A i \in DOMAIN nodes : nodes[i] \in DevinNodes
  BY <1>1, ElementOfSeq
<1>3. R \subseteq Nat
  BY <1>1, <1>2 DEF DevinNodes
<1>4. IsFiniteSet(DOMAIN nodes)
  BY <1>1, FS_Interval
<1>5. IsFiniteSet(R)
  <2>1. f \in Surjection(DOMAIN nodes, R)
    <3>1. f \in [DOMAIN nodes -> R]
      <4>1. f = [i \in DOMAIN nodes |-> f[i]]
        BY DEF f
      <4> QED
        BY <1>1, <4>1
    <3> QED
      BY <1>1, <3>1 DEF Surjection
  <2> QED
    BY <1>4, <2>1, FS_Surjection
<1>6. De!Cardinality(R) \in Nat
  <2>1. De!Cardinality(R) = Cardinality(R)
    BY DEF De!Cardinality, Cardinality
  <2> QED
    BY <1>5, <2>1, FS_CardinalityType
<1> QED
  BY <1>3, <1>6 DEF R

(* A hook's new step is one of the steps it has read, or one of the list.  *)
LEMMA DevinTypeStep ==
  ASSUME De!DevinAssumption, DevinType, [De!Next]_De!vars,
         \A h \in DevinHooks : hooks[h].at = "send" => hooks[h].i <= Len(hooks[h].new)
  PROVE  DevinType'
<1> USE DEF DevinHooks
<1> DEFINE WorldType == [overlap : BOOLEAN, crashes : Nat, fails : Nat, nodes : Seq(DevinNodes),
                         recent : Nat, flushed : SUBSET DevinKeys]
<1>w. world \in WorldType
  BY DEF DevinType
<1>l. \A h \in DevinHooks : hooks[h] \in DevinLocals
  BY DEF DevinType
<1>g. ASSUME NEW h \in DevinHooks, NEW s \in DevinPlaces, NEW l \in DevinLocals, De!Goto(h, s, l)
      PROVE  hooks' \in [DevinHooks -> DevinLocals]
  <2>1. [l EXCEPT !.at = s] \in DevinLocals
    BY <1>g DEF DevinLocals
  <2> QED
    BY <1>g, <2>1 DEF De!Goto, DevinType
<1>e. ASSUME NEW h \in DevinHooks, hooks' = [hooks EXCEPT ![h] = De!Ended]
      PROVE  hooks' \in [DevinHooks -> DevinLocals]
  <2>1. De!Ended \in DevinLocals
    <3>1. De!Ended = [at |-> "done", session |-> 0, steps |-> <<>>, i |-> 1, new |-> <<>>]
      BY DEF De!Ended, De!Unborn
    <3>2. <<>> \in Seq(DevinSteps)
      OBVIOUS
    <3> QED
      BY <3>1, <3>2 DEF DevinLocals, DevinPlaces
  <2> QED
    BY <1>e, <2>1 DEF DevinType
<1>n. ASSUME NEW h \in DevinHooks, NEW q \in Seq(DevinSteps), NEW i \in 1 .. Len(q)
      PROVE  q[i] \in DevinSteps /\ De!Key(hooks[h], q[i]) \in DevinKeys
  <2>1. q[i] \in DevinSteps
    BY <1>n, ElementOfSeq
  <2> QED
    BY <1>l, <2>1 DEF De!Key, DevinKeys, DevinLocals, DevinSteps
<1>f. ASSUME world' = [world EXCEPT !.fails = @ + 1] \/ world' = [world EXCEPT !.crashes = @ + 1]
      PROVE  world' \in WorldType
  BY <1>f, <1>w
<1>d. ASSUME NEW h \in DevinHooks, De!Finish(h)
      PROVE  world' \in WorldType /\ hooks' \in [DevinHooks -> DevinLocals]
  <2>1. {De!Key(hooks[h], hooks[h].steps[i]) : i \in DOMAIN hooks[h].steps} \in SUBSET DevinKeys
    <3>1. hooks[h].steps \in Seq(DevinSteps)
      BY <1>l DEF DevinLocals
    <3> QED
      BY <1>n, <3>1
  <2> QED
    BY <1>d, <1>e, <1>w, <2>1 DEF De!Finish, De!Local
<1>p. ASSUME NEW e \in DevinSpans, sent' = Append(sent, e)
      PROVE  sent' \in Seq(DevinSpans)
  BY <1>p DEF DevinType
<1> HIDE DEF WorldType
<1>1. CASE De!Generate
  <2>0. PICK s \in 1 .. MaxSessions, c \in BOOLEAN :
          \E r \in De!Requests(s) \cup {De!Cardinality(De!Requests(s)) + 1} :
            world' = [world EXCEPT !.recent = s,
                        !.nodes = Append(@, [session |-> s, request |-> r, content |-> c])]
    BY <1>1 DEF De!Generate
  <2>1. PICK r \in De!Requests(s) \cup {De!Cardinality(De!Requests(s)) + 1} :
          world' = [world EXCEPT !.recent = s,
                      !.nodes = Append(@, [session |-> s, request |-> r, content |-> c])]
    BY <2>0
  <2>2. s \in Nat
    BY DEF De!DevinAssumption
  <2>3. r \in Nat
    BY <1>w, <2>2, DevinRequests DEF WorldType
  <2>4. [session |-> s, request |-> r, content |-> c] \in DevinNodes
    BY <2>2, <2>3 DEF DevinNodes
  <2>5. world' \in WorldType
    <3> DEFINE node == [session |-> s, request |-> r, content |-> c]
               more == Append(world.nodes, node)
    <3>1. more \in Seq(DevinNodes)
      BY <1>w, <2>4 DEF WorldType
    <3>2. world' = [world EXCEPT !.recent = s, !.nodes = more]
      BY <2>1
    <3> HIDE DEF node, more
    <3> QED
      BY <1>w, <2>2, <3>1, <3>2 DEF WorldType
  <2> QED
    BY <1>1, <2>5 DEF De!Generate, DevinType, WorldType
<1>2. ASSUME NEW h \in DevinHooks, De!Step(h)
      PROVE  DevinType'
  <2> USE DEF De!Local, De!Keeps
  <2>l. hooks[h] \in DevinLocals
    BY <1>l
  <2>1. CASE De!Fire(h)
    <3>1. De!Unborn \in DevinLocals
      BY DEF De!Unborn, DevinLocals, DevinPlaces
    <3>2. De!Goto(h, "resolve", De!Unborn) /\ UNCHANGED <<store, world, sent>>
      BY <2>1 DEF De!Fire
    <3>3. hooks' \in [DevinHooks -> DevinLocals]
      BY <3>1, <3>2, <1>g DEF DevinPlaces
    <3> QED
      BY <3>2, <3>3 DEF DevinType
  <2>2. CASE De!Resolve(h)
    <3>1. [hooks[h] EXCEPT !.session = world.recent] \in DevinLocals
      BY <1>w, <2>l DEF DevinLocals, WorldType
    <3>2. hooks' \in [DevinHooks -> DevinLocals]
      BY <2>2, <3>1, <1>g DEF De!Resolve, DevinPlaces
    <3> QED
      BY <2>2, <3>2 DEF De!Resolve, DevinType
  <2>3. CASE De!ReadSteps(h)
    <3>1. De!StepsOf(hooks[h].session) \in Seq(DevinSteps)
      BY <1>w, <2>l, DevinStepsOf DEF WorldType, DevinLocals
    <3>2. [hooks[h] EXCEPT !.steps = De!StepsOf(hooks[h].session)] \in DevinLocals
      BY <2>l, <3>1 DEF DevinLocals
    <3>3. hooks' \in [DevinHooks -> DevinLocals]
      BY <2>3, <2>l, <3>2, <1>g DEF De!ReadSteps, DevinPlaces
    <3> QED
      BY <2>3, <3>3, <1>f, <1>w DEF De!ReadSteps, DevinType, WorldType
  <2>4. CASE De!Check(h)
    <3> DEFINE l == [hooks[h] EXCEPT !.i = hooks[h].i + 1]
               step == hooks[h].steps[hooks[h].i]
               n == [l EXCEPT !.new = Append(l.new, step)]
    <3>1. l \in DevinLocals
      BY <2>l DEF DevinLocals
    <3>2. step \in DevinSteps
      BY <2>4, <2>l, <1>n DEF De!Check, DevinLocals
    <3>3. n \in DevinLocals
      <4> HIDE DEF l, step
      <4>1. Append(l.new, step) \in Seq(DevinSteps)
        BY <3>1, <3>2 DEF DevinLocals
      <4> QED
        BY <3>1, <4>1 DEF DevinLocals
    <3>4. De!Goto(h, "check", l) \/ De!Goto(h, "check", n)
      BY <2>4 DEF De!Check, De!UnreadMeansNew
    <3>5. hooks' \in [DevinHooks -> DevinLocals]
      <4> HIDE DEF l, n
      <4> QED
        BY <3>1, <3>3, <3>4, <1>g DEF DevinPlaces
    <3> QED
      BY <2>4, <3>5, <1>f, <1>w DEF De!Check, DevinType, WorldType
  <2>5. CASE De!Checked(h)
    <3>1. [hooks[h] EXCEPT !.i = 1] \in DevinLocals
      BY <2>l DEF DevinLocals
    <3>2. hooks' \in [DevinHooks -> DevinLocals] /\ world' \in WorldType
      BY <2>5, <3>1, <1>g, <1>d, <1>w DEF De!Checked, DevinPlaces
    <3> QED
      BY <2>5, <3>2 DEF De!Checked, DevinType, WorldType
  <2>6. CASE De!SendRoot(h)
    <3>1. [what |-> "root", trace |-> h, key |-> <<>>, content |-> FALSE] \in DevinSpans
      BY DEF DevinSpans
    <3>2. hooks' \in [DevinHooks -> DevinLocals] /\ sent' \in Seq(DevinSpans)
      BY <2>6, <2>l, <3>1, <1>g, <1>p DEF De!SendRoot, DevinPlaces
    <3> QED
      BY <2>6, <3>2 DEF De!SendRoot, DevinType
  <2>7. CASE De!SendStep(h)
    <3> DEFINE l == hooks[h]
               step == l.new[l.i]
               e == [what |-> "llm", trace |-> h, key |-> De!Key(l, step), content |-> step.content]
    <3>1. l.at = "send" /\ l.i \in 1 .. Len(l.new) /\ l.new \in Seq(DevinSteps)
      BY <2>7, <2>l DEF De!SendStep, DevinLocals
    <3>2. e \in DevinSpans
      <4>1. step \in DevinSteps /\ De!Key(l, step) \in DevinKeys
        BY <3>1, <1>n
      <4> HIDE DEF l, step
      <4> QED
        BY <4>1 DEF DevinSpans, DevinSteps
    <3>3. [l EXCEPT !.i = 1] \in DevinLocals /\ [l EXCEPT !.i = l.i + 1] \in DevinLocals
      BY <2>l DEF DevinLocals
    <3>4. /\ sent' = Append(sent, e) /\ UNCHANGED <<store, world>>
          /\ De!Goto(h, "mark", [l EXCEPT !.i = 1]) \/ De!Goto(h, "send", [l EXCEPT !.i = l.i + 1])
      BY <2>7 DEF De!SendStep
    <3> HIDE DEF l, step, e
    <3>5. hooks' \in [DevinHooks -> DevinLocals] /\ sent' \in Seq(DevinSpans)
      BY <3>2, <3>3, <3>4, <1>g, <1>p DEF DevinPlaces
    <3> QED
      BY <3>4, <3>5 DEF DevinType
  <2>8. CASE De!Mark(h)
    <3>1. [hooks[h] EXCEPT !.i = hooks[h].i + 1] \in DevinLocals
      BY <2>l DEF DevinLocals
    <3>2. hooks' \in [DevinHooks -> DevinLocals]
      BY <2>8, <3>1, <1>g DEF De!Mark, DevinPlaces
    <3>3. De!Key(hooks[h], hooks[h].new[hooks[h].i]) \in DevinKeys
      BY <2>8, <2>l, <1>n DEF De!Mark, DevinLocals
    <3> QED
      BY <2>8, <3>2, <3>3, <1>f, <1>w DEF De!Mark, DevinType, WorldType
  <2>9. CASE De!Marked(h)
    BY <2>9, <1>d DEF De!Marked, DevinType, WorldType
  <2>10. CASE De!Crash(h)
    BY <2>10, <1>e, <1>f DEF De!Crash, DevinType, WorldType
  <2> QED
    BY <1>2, <2>1, <2>2, <2>3, <2>4, <2>5, <2>6, <2>7, <2>8, <2>9, <2>10 DEF De!Step
<1>3. CASE UNCHANGED De!vars
  BY <1>3 DEF De!vars, DevinType
<1> QED
  BY <1>1, <1>2, <1>3 DEF De!Next

(* A step that was looked up: its line is in the file, or it is kept.      *)
Known(l, j) ==
  \/ De!Key(l, l.steps[j]) \in store
  \/ \E a \in DOMAIN l.new : l.new[a].request = l.steps[j].request

Out(l, j) == De!Key(l, l.new[j]) \in De!SentKeys

(* How far a hook has come, l its local variables: what it has read it has *)
(* looked up; what it has passed in its list it has sent.                  *)
DevinPlaced(l) ==
  /\ Distinct(l.steps) /\ Distinct(l.new)
  /\ l.at \in {"new", "resolve", "read", "done"} => l.i = 1 /\ l.steps = <<>> /\ l.new = <<>>
  /\ l.at = "check" =>
       /\ l.i <= Len(l.steps) + 1
       /\ \A j \in 1 .. (l.i - 1) : Known(l, j)
       /\ \A a \in DOMAIN l.new : \E j \in 1 .. (l.i - 1) : l.new[a].request = l.steps[j].request
  /\ l.at \in {"sendRoot", "send", "mark"} => \A j \in DOMAIN l.steps : Known(l, j)
  /\ l.at = "sendRoot" => l.i = 1 /\ l.new # <<>>
  /\ l.at = "send" => l.i <= Len(l.new) /\ \A j \in 1 .. (l.i - 1) : Out(l, j)
  /\ l.at = "mark" => \A j \in DOMAIN l.new : Out(l, j)

(* Nothing is in the file, or in what a flush had read, that was not sent. *)
DevinSent == store \cup world.flushed \subseteq De!SentKeys

(* A hook sends what it has not sent yet.                                  *)
DevinTraces ==
  /\ \A h \in DevinHooks, k \in DOMAIN sent : sent[k].trace = h =>
       /\ hooks[h].at \in {"send", "mark", "done"}
       /\ hooks[h].at = "send" /\ sent[k].what = "llm" =>
            \E j \in 1 .. (hooks[h].i - 1) : sent[k].key = De!Key(hooks[h], hooks[h].new[j])
  /\ \A k, m \in DOMAIN sent :
       sent[k].what = "llm" /\ sent[k].key = sent[m].key /\ sent[k].trace = sent[m].trace => k = m

(* While flushes come one after the other and nothing fails, the file has  *)
(* what was sent, but for what the one flush that runs has still to write. *)
Unwritten(l, key) ==
  \/ l.at = "send" /\ \E j \in 1 .. (l.i - 1) : key = De!Key(l, l.new[j])
  \/ l.at = "mark" /\ \E j \in l.i .. Len(l.new) : key = De!Key(l, l.new[j])

Steady == ~world.overlap /\ world.crashes + world.fails = 0

DevinSteady ==
  Steady =>
    /\ \A g, h \in DevinHooks : De!Running(g) /\ De!Running(h) => g = h
    /\ \A h \in DevinHooks : hooks[h].at \in {"check", "sendRoot", "send"} =>
         \A j \in DOMAIN hooks[h].new : De!Key(hooks[h], hooks[h].new[j]) \notin store
    /\ \A k \in DOMAIN sent : sent[k].what = "llm" =>
         sent[k].key \in store \/ \E h \in DevinHooks : Unwritten(hooks[h], sent[k].key)
    /\ \A k, m \in DOMAIN sent : sent[k].what = "llm" /\ sent[k].key = sent[m].key => k = m

DevinInv ==
  /\ DevinType /\ (\A h \in DevinHooks : DevinPlaced(hooks[h]))
  /\ DevinSent /\ DevinTraces /\ DevinSteady

(* One span more.                                                          *)
LEMMA DevinAppend ==
  ASSUME sent \in Seq(DevinSpans), NEW e \in DevinSpans, sent' = Append(sent, e)
  PROVE  /\ De!SentKeys' = De!SentKeys \cup {e.key}
         /\ DOMAIN sent' = DOMAIN sent \cup {Len(sent) + 1} /\ Len(sent) + 1 \notin DOMAIN sent
         /\ \A k \in DOMAIN sent : sent'[k] = sent[k]
         /\ sent'[Len(sent) + 1] = e
<1>1. /\ Len(sent) \in Nat /\ DOMAIN sent = 1 .. Len(sent)
      /\ DOMAIN sent' = 1 .. (Len(sent) + 1)
      /\ \A k \in 1 .. Len(sent) : sent'[k] = sent[k]
      /\ sent'[Len(sent) + 1] = e
  BY DEF DevinSpans
<1>2. /\ DOMAIN sent' = DOMAIN sent \cup {Len(sent) + 1} /\ Len(sent) + 1 \notin DOMAIN sent
      /\ \A k \in DOMAIN sent : sent'[k] = sent[k]
      /\ sent'[Len(sent) + 1] = e
  BY <1>1
<1>3. De!SentKeys' = De!SentKeys \cup {e.key}
  <2>1. \A x : x \in De!SentKeys' <=> \E k \in DOMAIN sent' : sent'[k].key = x
    BY DEF De!SentKeys
  <2>2. \A x : x \in De!SentKeys <=> \E k \in DOMAIN sent : sent[k].key = x
    BY DEF De!SentKeys
  <2>3. \A x : x \in De!SentKeys' <=> x \in De!SentKeys \cup {e.key}
    BY <1>2, <2>1, <2>2
  <2> QED
    BY <2>3
<1> QED
  BY <1>2, <1>3

(* What a step of a hook leaves alone: the other hooks, the lines of the   *)
(* file, the spans that were sent.                                         *)
LEMMA DevinFrame ==
  ASSUME DevinType, NEW h \in DevinHooks, De!Step(h), DevinPlaced(hooks[h])
  PROVE  /\ \A g \in DevinHooks : g # h => hooks'[g] = hooks[g]
         /\ store \subseteq store' /\ De!SentKeys \subseteq De!SentKeys'
         /\ Steady' => Steady
         /\ store' = store \/ hooks[h].at = "mark"
         /\ sent' = sent \/ hooks[h].at \in {"sendRoot", "send"}
<1> USE DEF De!Local, De!Keeps, De!Goto
<1>h. \A l : hooks' = [hooks EXCEPT ![h] = l] =>
        \A g \in DevinHooks : g # h => hooks'[g] = hooks[g]
  BY DEF DevinType
<1>w. /\ world.crashes \in Nat /\ world.fails \in Nat
      /\ world' = [world EXCEPT !.fails = @ + 1] => ~Steady'
      /\ world' = [world EXCEPT !.crashes = @ + 1] => ~Steady'
      /\ world' = world => (Steady' => Steady)
  BY DEF DevinType, Steady
<1>f. De!Finish(h) => (Steady' => Steady) /\ \A g \in DevinHooks : g # h => hooks'[g] = hooks[g]
  <2>1. De!Finish(h) => world'.overlap = world.overlap /\ world'.crashes = world.crashes
                          /\ world'.fails = world.fails
    BY DEF De!Finish, DevinType
  <2> QED
    BY <2>1, <1>h DEF De!Finish, Steady
<1>s. sent' = sent => De!SentKeys \subseteq De!SentKeys'
  BY DEF De!SentKeys
<1>1. CASE De!Fire(h) \/ De!Resolve(h) \/ De!ReadSteps(h) \/ De!Check(h)
  <2>1. UNCHANGED <<store, sent>> /\ (\A g \in DevinHooks : g # h => hooks'[g] = hooks[g])
    BY <1>1, <1>h DEF De!Fire, De!Resolve, De!ReadSteps, De!Check
  <2>2. world' = world \/ world' = [world EXCEPT !.fails = @ + 1]
    BY <1>1 DEF De!Fire, De!Resolve, De!ReadSteps, De!Check
  <2> QED
    BY <2>1, <2>2, <1>w, <1>s
<1>2. CASE De!Checked(h) \/ De!Marked(h) \/ De!Crash(h)
  <2>1. UNCHANGED <<store, sent>> /\ (\A g \in DevinHooks : g # h => hooks'[g] = hooks[g])
    BY <1>2, <1>h, <1>f DEF De!Checked, De!Marked, De!Crash
  <2>2. Steady' => Steady
    BY <1>2, <1>w, <1>f DEF De!Checked, De!Marked, De!Crash
  <2> QED
    BY <2>1, <2>2, <1>s
<1>3. CASE De!SendRoot(h)
  <2>1. [what |-> "root", trace |-> h, key |-> <<>>, content |-> FALSE] \in DevinSpans
    BY DEF DevinSpans
  <2> QED
    BY <1>3, <2>1, <1>h, <1>w, DevinAppend DEF De!SendRoot, DevinType
<1>4. CASE De!SendStep(h)
  <2> DEFINE l == hooks[h]
             step == l.new[l.i]
             e == [what |-> "llm", trace |-> h, key |-> De!Key(l, step), content |-> step.content]
  <2>1. l.at = "send" /\ l.i \in 1 .. Len(l.new) /\ l.new \in Seq(DevinSteps) /\ l.session \in Nat
    BY <1>4 DEF De!SendStep, DevinType, DevinLocals, DevinPlaced
  <2>2. e \in DevinSpans
    <3>1. step \in DevinSteps
      BY <2>1, ElementOfSeq
    <3>2. De!Key(l, step) \in DevinKeys
      BY <2>1, <3>1 DEF De!Key, DevinKeys, DevinSteps
    <3> HIDE DEF l, step
    <3> QED
      BY <3>1, <3>2 DEF DevinSpans, DevinSteps
  <2>3. sent' = Append(sent, e) /\ UNCHANGED <<store, world>>
    BY <1>4 DEF De!SendStep
  <2>4. \A g \in DevinHooks : g # h => hooks'[g] = hooks[g]
    BY <1>4, <1>h DEF De!SendStep
  <2>5. De!SentKeys \subseteq De!SentKeys'
    <3> HIDE DEF e
    <3> QED
      BY <2>2, <2>3, DevinAppend DEF DevinType
  <2> QED
    BY <2>1, <2>3, <2>4, <2>5, <1>w
<1>5. CASE De!Mark(h)
  BY <1>5, <1>h, <1>w, <1>s DEF De!Mark
<1> QED
  BY <1>1, <1>2, <1>3, <1>4, <1>5 DEF De!Step

(* The span of one step, as a hook sends it.                               *)
LEMMA DevinSpan ==
  ASSUME DevinType, NEW h \in DevinHooks, De!SendStep(h), DevinPlaced(hooks[h])
  PROVE  /\ hooks[h].at = "send" /\ hooks[h].i \in 1 .. Len(hooks[h].new)
         /\ \E e \in DevinSpans :
              /\ sent' = Append(sent, e) /\ e.what = "llm" /\ e.trace = h
              /\ e.key = De!Key(hooks[h], hooks[h].new[hooks[h].i])
         /\ hooks'[h] = IF hooks[h].i = Len(hooks[h].new)
                        THEN [hooks[h] EXCEPT !.i = 1, !.at = "mark"]
                        ELSE [hooks[h] EXCEPT !.i = hooks[h].i + 1, !.at = "send"]
         /\ UNCHANGED <<store, world>>
<1> DEFINE l == hooks[h]
           step == l.new[l.i]
           e == [what |-> "llm", trace |-> h, key |-> De!Key(l, step), content |-> step.content]
<1>1. l.at = "send" /\ l.i \in 1 .. Len(l.new) /\ l.new \in Seq(DevinSteps) /\ l.session \in Nat
  BY DEF De!SendStep, De!Local, DevinType, DevinLocals, DevinPlaced
<1>2. e \in DevinSpans
  <2>1. step \in DevinSteps
    BY <1>1, ElementOfSeq
  <2>2. De!Key(l, step) \in DevinKeys
    BY <1>1, <2>1 DEF De!Key, DevinKeys, DevinSteps
  <2> HIDE DEF l, step
  <2> QED
    BY <2>1, <2>2 DEF DevinSpans, DevinSteps
<1>3. sent' = Append(sent, e) /\ UNCHANGED <<store, world>>
  BY DEF De!SendStep, De!Local
<1>4. hooks'[h] = IF l.i = Len(l.new) THEN [l EXCEPT !.i = 1, !.at = "mark"]
                  ELSE [l EXCEPT !.i = l.i + 1, !.at = "send"]
  BY DEF De!SendStep, De!Local, De!Goto, DevinType, DevinLocals
<1>5. e.what = "llm" /\ e.trace = h /\ e.key = De!Key(l, step)
  OBVIOUS
<1> HIDE DEF e
<1> QED
  BY <1>1, <1>2, <1>3, <1>4, <1>5

(* What a hook makes of a look into the file.                              *)
LEMMA DevinChecks ==
  ASSUME DevinType, NEW h \in DevinHooks, De!Check(h)
  PROVE  LET l == hooks[h]
             t == hooks'[h]
             step == l.steps[l.i] IN
         /\ t.at = "check" /\ t.i = l.i + 1 /\ t.session = l.session /\ t.steps = l.steps
         /\ \/ t.new = l.new /\ De!Key(l, step) \in store
            \/ t.new = Append(l.new, step) /\ (Steady' => De!Key(l, step) \notin store)
<1> DEFINE l == hooks[h]
           step == l.steps[l.i]
<1>l. l \in DevinLocals
  BY DEF DevinType
<1> DEFINE m == [l EXCEPT !.i = l.i + 1]
           n == [m EXCEPT !.new = Append(l.new, step)]
<1>1. /\ m.i = l.i + 1 /\ m.session = l.session /\ m.steps = l.steps /\ m.new = l.new
      /\ n.i = l.i + 1 /\ n.session = l.session /\ n.steps = l.steps
      /\ n.new = Append(l.new, step) /\ m \in DevinLocals /\ DOMAIN n = DOMAIN l
  BY <1>l DEF DevinLocals
<1>2. \/ hooks'[h] = [m EXCEPT !.at = "check"] /\ De!Key(m, step) \in store
      \/ hooks'[h] = [n EXCEPT !.at = "check"] /\ (Steady' => De!Key(m, step) \notin store)
  <2>1. \/ /\ hooks' = [hooks EXCEPT ![h] =
                          [(IF De!Key(m, step) \in store THEN m ELSE n) EXCEPT !.at = "check"]]
        \/ /\ hooks' = [hooks EXCEPT ![h] = [n EXCEPT !.at = "check"]]
           /\ world' = [world EXCEPT !.fails = @ + 1]
    BY DEF De!Check, De!UnreadMeansNew, De!Local, De!Goto
  <2>2. world' = [world EXCEPT !.fails = @ + 1] => ~Steady'
    BY DEF Steady, DevinType
  <2> HIDE DEF m, n, step
  <2> QED
    BY <2>1, <2>2 DEF DevinType
<1>3. De!Key(m, step) = De!Key(l, step)
  BY <1>1 DEF De!Key
<1>4. /\ DOMAIN m = {"at", "session", "steps", "i", "new"}
      /\ DOMAIN n = {"at", "session", "steps", "i", "new"}
  BY <1>l, <1>1 DEF DevinLocals
<1> HIDE DEF m, n
<1> QED
  BY <1>1, <1>2, <1>3, <1>4

LEMMA DevinPlacedStep ==
  ASSUME De!DevinAssumption, DevinType, NEW h \in DevinHooks, De!Step(h),
         \A g \in DevinHooks : DevinPlaced(hooks[g])
  PROVE  \A g \in DevinHooks : DevinPlaced(hooks[g])'
<1> USE DEF De!Local, De!Keeps, De!Goto
<1> DEFINE l == hooks[h]
<1>l. /\ l \in DevinLocals /\ DevinPlaced(l)
      /\ l.i \in Nat \ {0} /\ l.steps \in Seq(DevinSteps) /\ l.new \in Seq(DevinSteps)
  BY DEF DevinType, DevinLocals
<1>m. \A k : DevinPlaced(k) => DevinPlaced(k)'
  <2>1. store \subseteq store' /\ De!SentKeys \subseteq De!SentKeys'
    BY DevinFrame
  <2>2. \A k, j : (Known(k, j) => Known(k, j)') /\ (Out(k, j) => Out(k, j)')
    BY <2>1 DEF Known, Out
  <2> QED
    BY <2>2 DEF DevinPlaced
<1>t. \A k : k = hooks'[h] => (DevinPlaced(k)' <=> DevinPlaced(hooks[h])')
  OBVIOUS
<1>o. ASSUME NEW g \in DevinHooks, g # h
      PROVE  DevinPlaced(hooks[g])'
  <2>1. \A k : k = hooks'[g] => (DevinPlaced(k)' <=> DevinPlaced(hooks[g])')
    OBVIOUS
  <2>2. hooks'[g] = hooks[g]
    BY <1>o, DevinFrame
  <2> QED
    BY <2>1, <2>2, <1>m
<1>e. hooks' = [hooks EXCEPT ![h] = De!Ended] => DevinPlaced(hooks[h])'
  <2>1. hooks' = [hooks EXCEPT ![h] = De!Ended] =>
          hooks'[h] = [at |-> "done", session |-> 0, steps |-> <<>>, i |-> 1, new |-> <<>>]
    BY DEF De!Ended, De!Unborn, DevinType
  <2> QED
    BY <2>1 DEF DevinPlaced, Distinct
<1> SUFFICES DevinPlaced(hooks[h])'
  BY <1>o
<1>1. CASE De!Fire(h)
  BY <1>1 DEF De!Fire, De!Unborn, DevinType, DevinPlaced, Distinct
<1>2. CASE De!Resolve(h)
  BY <1>2, <1>l DEF De!Resolve, DevinType, DevinPlaced, Distinct, DevinLocals
<1>3. CASE De!ReadSteps(h)
  <2>1. Distinct(De!StepsOf(l.session)) /\ De!StepsOf(l.session) \in Seq(DevinSteps)
    BY DevinStepsOf DEF DevinType, DevinLocals
  <2>2. /\ hooks'[h].at = "check" /\ hooks'[h].i = 1 /\ hooks'[h].new = <<>>
        /\ hooks'[h].steps = De!StepsOf(l.session) \/ hooks'[h].steps = <<>>
    <3>1. l.i = 1 /\ l.new = <<>> /\ l.steps = <<>>
      BY <1>3, <1>l DEF De!ReadSteps, DevinPlaced
    <3>2. \/ hooks'[h] = [l EXCEPT !.steps = De!StepsOf(l.session), !.at = "check"]
          \/ hooks'[h] = [l EXCEPT !.at = "check"]
      BY <1>3 DEF De!ReadSteps, DevinType
    <3> QED
      BY <1>l, <3>1, <3>2 DEF DevinLocals
  <2> QED
    BY <2>1, <2>2 DEF DevinPlaced, Distinct
<1>4. CASE De!Check(h)
  <2> DEFINE step == l.steps[l.i]
  <2>1. l.at = "check" /\ l.i \in 1 .. Len(l.steps)
    BY <1>4, <1>l DEF De!Check
  <2>2. /\ \A j \in 1 .. (l.i - 1) : Known(l, j)
        /\ \A a \in DOMAIN l.new : \E j \in 1 .. (l.i - 1) : l.new[a].request = l.steps[j].request
    BY <1>l, <2>1 DEF DevinPlaced
  <2>3. store' = store
    BY <1>4 DEF De!Check
  <2>d. /\ hooks'[h].at = "check" /\ hooks'[h].i = l.i + 1 /\ hooks'[h].session = l.session
        /\ hooks'[h].steps = l.steps
        /\ \/ hooks'[h].new = l.new /\ De!Key(l, step) \in store
           \/ hooks'[h].new = Append(l.new, step)
    BY <1>4, DevinChecks
  <2>4. CASE hooks'[h].new = l.new /\ De!Key(l, step) \in store
    <3>1. \A j \in 1 .. l.i : Known(l, j)
      BY <2>1, <2>2, <2>4 DEF Known
    <3>2. /\ hooks'[h].at = "check" /\ hooks'[h].i = l.i + 1 /\ hooks'[h].session = l.session
          /\ hooks'[h].steps = l.steps /\ hooks'[h].new = l.new
      BY <2>d, <2>4
    <3>3. \A j \in 1 .. l.i : Known(hooks[h], j)'
      BY <2>3, <3>1, <3>2 DEF Known, De!Key
    <3> QED
      BY <1>l, <2>1, <2>2, <3>2, <3>3 DEF DevinPlaced
  <2>5. CASE hooks'[h].new = Append(l.new, step)
    <3> DEFINE new == Append(l.new, step)
    <3>0. step \in DevinSteps
      BY <1>l, <2>1, ElementOfSeq
    <3>1. /\ DOMAIN new = DOMAIN l.new \cup {Len(l.new) + 1}
          /\ \A a \in DOMAIN l.new : new[a] = l.new[a]
          /\ new[Len(l.new) + 1] = step
      BY <1>l, <3>0
    <3>2. /\ hooks'[h].at = "check" /\ hooks'[h].i = l.i + 1 /\ hooks'[h].session = l.session
          /\ hooks'[h].steps = l.steps /\ hooks'[h].new = new
      BY <2>d, <2>5
    <3> HIDE DEF new
    <3>3. \A j \in 1 .. l.i : Known(hooks[h], j)'
      <4>1. \A j \in 1 .. (l.i - 1) : Known(hooks[h], j)'
        BY <2>2, <2>3, <3>1, <3>2 DEF Known, De!Key
      <4>2. \A j : j = l.i => Known(hooks[h], j)'
        <5>1. Len(l.new) + 1 \in DOMAIN new /\ new[Len(l.new) + 1].request = l.steps[l.i].request
          BY <3>1
        <5> QED
          BY <3>2, <5>1 DEF Known
      <4>3. \A j \in 1 .. l.i : j \in 1 .. (l.i - 1) \/ j = l.i
        BY <1>l
      <4> QED
        BY <4>1, <4>2, <4>3
    <3>4. \A a \in DOMAIN new : \E j \in 1 .. l.i : new[a].request = l.steps[j].request
      BY <2>1, <2>2, <3>1
    <3>5. Distinct(new)
      <4>1. \A a \in DOMAIN l.new : l.new[a].request # step.request
        <5>1. Distinct(l.steps) /\ DOMAIN l.steps = 1 .. Len(l.steps)
          BY <1>l DEF DevinPlaced
        <5> SUFFICES ASSUME NEW a \in DOMAIN l.new, l.new[a].request = step.request
                     PROVE  FALSE
          OBVIOUS
        <5>2. PICK j \in 1 .. (l.i - 1) : l.new[a].request = l.steps[j].request
          BY <2>2
        <5>3. j \in 1 .. Len(l.steps) /\ l.i \in 1 .. Len(l.steps) /\ j # l.i
          BY <2>1
        <5>4. j = l.i
          BY <5>1, <5>2, <5>3 DEF Distinct
        <5> QED
          BY <5>3, <5>4
      <4>2. Distinct(l.new)
        BY <1>l DEF DevinPlaced
      <4> QED
        BY <3>1, <4>1, <4>2 DEF Distinct
    <3> QED
      BY <1>l, <2>1, <3>2, <3>3, <3>4, <3>5 DEF DevinPlaced
  <2> QED
    BY <2>d, <2>4, <2>5
<1>5. CASE De!Checked(h)
  <2>1. CASE l.new = <<>>
    BY <1>5, <2>1, <1>e DEF De!Checked, De!Finish
  <2>2. CASE l.new # <<>>
    <3>1. hooks'[h] = [l EXCEPT !.i = 1, !.at = "sendRoot"]
      BY <1>5, <2>2 DEF De!Checked, DevinType, DevinLocals
    <3>2. store' = store
      BY <1>5, <2>2 DEF De!Checked
    <3>3. l.at = "check" /\ l.i > Len(l.steps)
      BY <1>5 DEF De!Checked
    <3>4. \A j \in DOMAIN l.steps : Known(l, j)
      BY <1>l, <3>3 DEF DevinPlaced
    <3>5. /\ hooks'[h].at = "sendRoot" /\ hooks'[h].i = 1 /\ hooks'[h].session = l.session
          /\ hooks'[h].steps = l.steps /\ hooks'[h].new = l.new
      BY <1>l, <3>1 DEF DevinLocals
    <3>6. \A j \in DOMAIN l.steps : Known(hooks[h], j)'
      BY <3>2, <3>4, <3>5 DEF Known, De!Key
    <3> QED
      BY <1>l, <2>2, <3>5, <3>6 DEF DevinPlaced
  <2> QED
    BY <2>1, <2>2
<1>6. CASE De!SendRoot(h)
  <2>1. hooks'[h] = [l EXCEPT !.at = "send"] /\ l.at = "sendRoot" /\ store' = store
    BY <1>6 DEF De!SendRoot, DevinType, DevinLocals
  <2>2. l.i = 1 /\ Len(l.new) >= 1
    BY <1>l, <2>1 DEF DevinPlaced
  <2> QED
    BY <1>l, <2>1, <2>2 DEF DevinPlaced, Known, De!Key, DevinLocals
<1>7. CASE De!SendStep(h)
  <2>1. /\ l.at = "send" /\ l.i \in 1 .. Len(l.new) /\ store' = store
        /\ hooks'[h] = IF l.i = Len(l.new) THEN [l EXCEPT !.i = 1, !.at = "mark"]
                       ELSE [l EXCEPT !.i = l.i + 1, !.at = "send"]
    BY <1>7, <1>l, DevinSpan, Zenon
  <2>2. De!Key(l, l.new[l.i]) \in De!SentKeys'
    <3>1. PICK e \in DevinSpans : sent' = Append(sent, e) /\ e.key = De!Key(l, l.new[l.i])
      BY <1>7, <1>l, DevinSpan, Zenon
    <3>2. e.key \in De!SentKeys'
      BY <3>1, DevinAppend DEF DevinType
    <3> QED
      BY <3>1, <3>2, Zenon
  <2>3. \A j \in 1 .. l.i : De!Key(l, l.new[j]) \in De!SentKeys'
    BY <1>l, <2>1, <2>2, DevinFrame DEF DevinPlaced, Out
  <2>4. \A k : De!Key(hooks'[h], k) = De!Key(l, k)
    BY <2>1, <1>l DEF De!Key, DevinLocals
  <2>5. hooks'[h].steps = l.steps /\ hooks'[h].new = l.new
    BY <2>1, <1>l DEF DevinLocals
  <2>6. \A j \in DOMAIN l.steps : Known(hooks[h], j)'
    BY <1>l, <2>1, <2>4, <2>5 DEF DevinPlaced, Known
  <2>7. \A j \in 1 .. l.i : Out(hooks[h], j)'
    BY <2>3, <2>4, <2>5 DEF Out
  <2>8. CASE l.i = Len(l.new)
    <3>1. hooks'[h].at = "mark" /\ hooks'[h].i = 1
      BY <2>1, <2>8, <1>l DEF DevinLocals
    <3> QED
      BY <1>l, <2>1, <2>5, <2>6, <2>7, <2>8, <3>1 DEF DevinPlaced
  <2>9. CASE l.i # Len(l.new)
    <3>1. hooks'[h].at = "send" /\ hooks'[h].i = l.i + 1 /\ l.i + 1 <= Len(l.new)
      BY <2>1, <2>9, <1>l DEF DevinLocals
    <3> QED
      BY <1>l, <2>1, <2>5, <2>6, <2>7, <3>1 DEF DevinPlaced
  <2> QED
    BY <2>8, <2>9, Zenon
<1>8. CASE De!Mark(h)
  <2>1. l.at = "mark" /\ \A k : k = l => DevinPlaced(k)'
    BY <1>8, <1>l, <1>m DEF De!Mark
  <2>2. hooks'[h] = [l EXCEPT !.i = l.i + 1]
    BY <1>8 DEF De!Mark, DevinType, DevinLocals
  <2> QED
    BY <1>l, <2>1, <2>2 DEF DevinPlaced, Known, Out, De!Key, DevinLocals
<1>9. CASE De!Marked(h) \/ De!Crash(h)
  BY <1>9, <1>e DEF De!Marked, De!Finish, De!Crash
<1> QED
  BY <1>1, <1>2, <1>3, <1>4, <1>5, <1>6, <1>7, <1>8, <1>9 DEF De!Step

LEMMA DevinSentStep ==
  ASSUME DevinType, NEW h \in DevinHooks, De!Step(h), DevinPlaced(hooks[h]), DevinSent
  PROVE  DevinSent'
<1> USE DEF De!Local, De!Keeps, De!Goto
<1> DEFINE l == hooks[h]
<1>l. l \in DevinLocals /\ l.steps \in Seq(DevinSteps) /\ l.new \in Seq(DevinSteps)
  BY DEF DevinType, DevinLocals
<1>g. De!SentKeys \subseteq De!SentKeys' /\ store \cup world.flushed \subseteq De!SentKeys
  BY DevinFrame DEF DevinSent
<1>f. ASSUME De!Finish(h), UNCHANGED <<store, sent>>,
             \A j \in DOMAIN l.steps : De!Key(l, l.steps[j]) \in De!SentKeys
      PROVE  DevinSent'
  <2>1. world'.flushed = world.flushed \cup {De!Key(l, l.steps[i]) : i \in DOMAIN l.steps}
    BY <1>f DEF De!Finish, DevinType
  <2> QED
    BY <1>f, <1>g, <2>1 DEF DevinSent
<1>k. ASSUME NEW j \in DOMAIN l.steps, Known(l, j),
             \A a \in DOMAIN l.new : De!Key(l, l.new[a]) \in De!SentKeys
      PROVE  De!Key(l, l.steps[j]) \in De!SentKeys
  BY <1>k, <1>g DEF Known, De!Key
<1>1. CASE De!Fire(h) \/ De!Resolve(h) \/ De!ReadSteps(h) \/ De!Check(h) \/ De!SendRoot(h)
           \/ De!SendStep(h) \/ De!Crash(h)
  <2>1. store' = store /\ world'.flushed = world.flushed
    BY <1>1 DEF De!Fire, De!Resolve, De!ReadSteps, De!Check, De!SendRoot, De!SendStep, De!Crash,
         DevinType
  <2> QED
    BY <2>1, <1>g DEF DevinSent
<1>2. CASE De!Checked(h)
  <2>1. CASE l.new = <<>>
    <3>1. \A j \in DOMAIN l.steps : Known(l, j)
      BY <1>2, <1>l DEF De!Checked, DevinPlaced, DevinLocals
    <3> QED
      BY <1>2, <2>1, <3>1, <1>k, <1>f DEF De!Checked
  <2>2. CASE l.new # <<>>
    BY <1>2, <2>2, <1>g DEF De!Checked, DevinSent
  <2> QED
    BY <2>1, <2>2
<1>3. CASE De!Mark(h)
  <2>1. \A a \in DOMAIN l.new : De!Key(l, l.new[a]) \in De!SentKeys
    BY <1>3 DEF De!Mark, DevinPlaced, Out
  <2>2. l.i \in DOMAIN l.new /\ world'.flushed = world.flushed
    BY <1>3, <1>l DEF De!Mark, DevinLocals, DevinType
  <2>3. store' \subseteq store \cup {De!Key(l, l.new[l.i])}
    BY <1>3 DEF De!Mark
  <2> QED
    BY <1>g, <2>1, <2>2, <2>3 DEF DevinSent
<1>4. CASE De!Marked(h)
  <2>1. /\ \A a \in DOMAIN l.new : De!Key(l, l.new[a]) \in De!SentKeys
        /\ \A j \in DOMAIN l.steps : Known(l, j)
    BY <1>4 DEF De!Marked, DevinPlaced, Out
  <2> QED
    BY <1>4, <2>1, <1>k, <1>f DEF De!Marked
<1> QED
  BY <1>1, <1>2, <1>3, <1>4 DEF De!Step

(* A root has no key; the others are distinct where their requests are.    *)
LEMMA DevinKeysDiffer ==
  ASSUME DevinType, NEW h \in DevinHooks, DevinPlaced(hooks[h])
  PROVE  /\ \A k \in DOMAIN sent :
              /\ sent[k].what \in {"llm", "root"}
              /\ sent[k].what = "llm" <=> sent[k].key \in DevinKeys
              /\ sent[k].what = "root" => sent[k].key = <<>>
         /\ <<>> \notin DevinKeys
         /\ \A a, b \in DOMAIN hooks[h].new :
              /\ De!Key(hooks[h], hooks[h].new[a]) \in DevinKeys
              /\ De!Key(hooks[h], hooks[h].new[a]) = De!Key(hooks[h], hooks[h].new[b]) => a = b
<1>1. <<>> \notin DevinKeys
  BY DEF DevinKeys
<1>2. \A k \in DOMAIN sent : sent[k] \in DevinSpans
  BY ElementOfSeq DEF DevinType
<1>3. \A k \in DOMAIN sent :
        /\ sent[k].what \in {"llm", "root"}
        /\ sent[k].what = "llm" <=> sent[k].key \in DevinKeys
        /\ sent[k].what = "root" => sent[k].key = <<>>
  BY <1>1, <1>2 DEF DevinSpans
<1>4. hooks[h].new \in Seq(DevinSteps) /\ hooks[h].session \in Nat /\ Distinct(hooks[h].new)
  BY DEF DevinType, DevinLocals, DevinPlaced
<1>5. \A a \in DOMAIN hooks[h].new : hooks[h].new[a] \in DevinSteps
  BY <1>4, ElementOfSeq
<1> QED
  BY <1>1, <1>3, <1>4, <1>5 DEF De!Key, DevinKeys, DevinSteps, Distinct

(* Where a hook goes from where it is, and what it keeps of its list.      *)
LEMMA DevinWays ==
  ASSUME DevinType, NEW h \in DevinHooks, De!Step(h), DevinPlaced(hooks[h])
  PROVE  LET l == hooks[h]
             t == hooks'[h] IN
         \/ /\ De!Fire(h) /\ l.at = "new" /\ t.at = "resolve"
         \/ /\ l.at \in {"resolve", "read", "check"} /\ t.at \in {"done", "read", "check", "sendRoot"}
            /\ UNCHANGED <<store, sent>>
            /\ t.at = "sendRoot" => t.session = l.session /\ t.new = l.new
         \/ /\ De!SendRoot(h) /\ l.at = "sendRoot"
            /\ t.at = "send" /\ t.i = 1 /\ t.session = l.session /\ t.new = l.new
         \/ De!SendStep(h)
         \/ /\ De!Mark(h) /\ l.at = "mark" /\ t.at = "mark" /\ t.i = l.i + 1 /\ l.i <= Len(l.new)
            /\ t.session = l.session /\ t.new = l.new
         \/ /\ De!Marked(h) /\ l.at = "mark" /\ l.i > Len(l.new) /\ t.at = "done"
         \/ /\ De!Crash(h) /\ l.at \notin {"new", "done"} /\ t.at = "done" /\ ~Steady'
<1> USE DEF De!Local, De!Keeps, De!Goto
<1>l. hooks[h] \in DevinLocals /\ hooks \in [DevinHooks -> DevinLocals]
  BY DEF DevinType
<1>e. hooks' = [hooks EXCEPT ![h] = De!Ended] => hooks'[h].at = "done"
  BY DEF De!Ended, De!Unborn, DevinType
<1>1. CASE De!Fire(h)
  BY <1>1, <1>l DEF De!Fire, De!Unborn
<1>a. \A k, s : "at" \in DOMAIN k /\ hooks' = [hooks EXCEPT ![h] = [k EXCEPT !.at = s]] =>
        hooks'[h].at = s
  BY <1>l DEF DevinLocals
<1>d. "at" \in DOMAIN hooks[h]
  BY <1>l DEF DevinLocals
<1>2. CASE De!Resolve(h) \/ De!ReadSteps(h)
  <2>1. /\ hooks[h].at \in {"resolve", "read"} /\ UNCHANGED <<store, sent>>
        /\ \E k, s : /\ "at" \in DOMAIN k /\ s \in {"done", "read", "check"}
                     /\ hooks' = [hooks EXCEPT ![h] = [k EXCEPT !.at = s]]
    BY <1>2, <1>d DEF De!Resolve, De!ReadSteps
  <2> QED
    BY <2>1, <1>a
<1>3. CASE De!Check(h)
  <2>1. /\ hooks[h].at = "check" /\ UNCHANGED <<store, sent>>
        /\ \E k : "at" \in DOMAIN k /\ hooks' = [hooks EXCEPT ![h] = [k EXCEPT !.at = "check"]]
    BY <1>3, <1>d DEF De!Check, De!UnreadMeansNew
  <2> QED
    BY <2>1, <1>a
<1>4. CASE De!Checked(h)
  <2>1. hooks[h].at = "check" /\ UNCHANGED <<store, sent>>
    BY <1>4 DEF De!Checked
  <2>2. CASE hooks[h].new = <<>>
    BY <1>4, <1>e, <2>1, <2>2 DEF De!Checked, De!Finish
  <2>3. CASE hooks[h].new # <<>>
    <3>1. hooks'[h] = [hooks[h] EXCEPT !.i = 1, !.at = "sendRoot"]
      BY <1>4, <1>l, <2>3 DEF De!Checked
    <3>2. /\ hooks'[h].at = "sendRoot" /\ hooks'[h].session = hooks[h].session
          /\ hooks'[h].new = hooks[h].new
      BY <3>1, <1>l DEF DevinLocals
    <3> QED
      BY <2>1, <3>2
  <2> QED
    BY <2>2, <2>3
<1>5. CASE De!SendRoot(h)
  BY <1>5, <1>l DEF De!SendRoot, DevinLocals, DevinPlaced
<1>6. CASE De!Mark(h)
  BY <1>6, <1>l DEF De!Mark, DevinLocals
<1>7. CASE De!Marked(h)
  BY <1>7, <1>e DEF De!Marked, De!Finish
<1>8. CASE De!Crash(h)
  <2>1. ~Steady'
    BY <1>8 DEF De!Crash, Steady, DevinType
  <2> QED
    BY <1>8, <1>e, <2>1 DEF De!Crash, De!Running
<1> QED
  BY <1>1, <1>2, <1>3, <1>4, <1>5, <1>6, <1>7, <1>8 DEF De!Step

LEMMA DevinTracesStep ==
  ASSUME DevinType, NEW h \in DevinHooks, De!Step(h), DevinPlaced(hooks[h]), DevinTraces
  PROVE  DevinTraces'
<1> DEFINE l == hooks[h]
           t == hooks'[h]
<1>l. l \in DevinLocals /\ l.i \in Nat \ {0} /\ l.new \in Seq(DevinSteps)
  BY DEF DevinType, DevinLocals
<1>o. \A g \in DevinHooks : g # h => hooks'[g] = hooks[g]
  BY DevinFrame
<1>1. ASSUME sent' = sent,
             \/ l.at \notin {"send", "mark", "done"}
             \/ t.at = "done"
             \/ l.at = "mark" /\ t.at = "mark"
      PROVE  DevinTraces'
  BY <1>1, <1>o DEF DevinTraces
<1>2. ASSUME NEW e \in DevinSpans, sent' = Append(sent, e), e.trace = h,
             t.at \in {"send", "mark"},
             \A k \in DOMAIN sent : sent[k].trace = h =>
               /\ t.at = "send" /\ sent[k].what = "llm" =>
                    \E j \in 1 .. (t.i - 1) : sent[k].key = De!Key(t, t.new[j])
               /\ sent[k].what = "llm" \/ e.what = "llm" => sent[k].key # e.key,
             t.at = "send" /\ e.what = "llm" => \E j \in 1 .. (t.i - 1) : e.key = De!Key(t, t.new[j])
      PROVE  DevinTraces'
  <2>1. /\ DOMAIN sent' = DOMAIN sent \cup {Len(sent) + 1} /\ Len(sent) + 1 \notin DOMAIN sent
        /\ \A k \in DOMAIN sent : sent'[k] = sent[k]
        /\ sent'[Len(sent) + 1] = e
    BY <1>2, DevinAppend DEF DevinType
  <2>2. \A k, m \in DOMAIN sent' :
          sent'[k].what = "llm" /\ sent'[k].key = sent'[m].key /\ sent'[k].trace = sent'[m].trace => k = m
    BY <1>2, <2>1 DEF DevinTraces
  <2>3. ASSUME NEW g \in DevinHooks, NEW k \in DOMAIN sent', sent'[k].trace = g
        PROVE  /\ hooks'[g].at \in {"send", "mark", "done"}
               /\ hooks'[g].at = "send" /\ sent'[k].what = "llm" =>
                    \E j \in 1 .. (hooks'[g].i - 1) : sent'[k].key = De!Key(hooks'[g], hooks'[g].new[j])
    <3>1. CASE g = h
      BY <1>2, <2>1, <2>3, <3>1
    <3>2. CASE g # h
      <4>1. k \in DOMAIN sent /\ sent'[k] = sent[k] /\ hooks'[g] = hooks[g]
        BY <1>2, <1>o, <2>1, <2>3, <3>2
      <4> QED
        BY <2>3, <4>1 DEF DevinTraces
    <3> QED
      BY <3>1, <3>2
  <2> QED
    BY <2>2, <2>3 DEF DevinTraces
<1>3. CASE De!SendRoot(h)
  <2> DEFINE e == [what |-> "root", trace |-> h, key |-> <<>>, content |-> FALSE]
  <2>1. e \in DevinSpans /\ sent' = Append(sent, e) /\ e.trace = h /\ e.what = "root"
    BY <1>3 DEF DevinSpans, De!SendRoot
  <2>2. t.at = "send" /\ l.at = "sendRoot"
    BY <1>3, <1>l DEF De!SendRoot, De!Local, De!Goto, DevinType, DevinLocals
  <2>3. \A k \in DOMAIN sent : sent[k].trace # h
    BY <2>2 DEF DevinTraces
  <2> HIDE DEF e
  <2> QED
    BY <2>1, <2>2, <2>3, <1>2
<1>4. CASE De!SendStep(h)
  <2>1. /\ l.at = "send" /\ l.i \in 1 .. Len(l.new)
        /\ t = IF l.i = Len(l.new) THEN [l EXCEPT !.i = 1, !.at = "mark"]
               ELSE [l EXCEPT !.i = l.i + 1, !.at = "send"]
    BY <1>4, DevinSpan, Zenon
  <2>2. PICK e \in DevinSpans : /\ sent' = Append(sent, e) /\ e.what = "llm" /\ e.trace = h
                                /\ e.key = De!Key(l, l.new[l.i])
    BY <1>4, DevinSpan, Zenon
  <2>3. /\ t.at \in {"send", "mark"} /\ t.new = l.new /\ t.session = l.session
        /\ t.at = "send" => t.i = l.i + 1
    BY <2>1, <1>l DEF DevinLocals
  <2>4. \A k \in DOMAIN sent : sent[k].trace = h /\ sent[k].what = "llm" =>
          \E j \in 1 .. (l.i - 1) : sent[k].key = De!Key(l, l.new[j])
    BY <2>1 DEF DevinTraces
  <2>5. \A k \in DOMAIN sent : sent[k].trace = h => sent[k].key # e.key
    <3>1. ASSUME NEW k \in DOMAIN sent, sent[k].trace = h, sent[k].key = e.key
          PROVE  FALSE
      <4>1. l.i \in DOMAIN l.new /\ \A j \in 1 .. (l.i - 1) : j \in DOMAIN l.new /\ j # l.i
        BY <1>l, <2>1
      <4>2. sent[k].what = "llm"
        BY <2>2, <3>1, <4>1, DevinKeysDiffer
      <4> QED
        BY <2>2, <2>4, <3>1, <4>1, <4>2, DevinKeysDiffer
    <3> QED
      BY <3>1
  <2>6. \A x : De!Key(t, x) = De!Key(l, x)
    BY <2>3 DEF De!Key
  <2>7. \A k \in DOMAIN sent : sent[k].trace = h /\ t.at = "send" /\ sent[k].what = "llm" =>
          \E j \in 1 .. (t.i - 1) : sent[k].key = De!Key(t, t.new[j])
    BY <1>l, <2>3, <2>4, <2>6
  <2>8. t.at = "send" => \E j \in 1 .. (t.i - 1) : e.key = De!Key(t, t.new[j])
    BY <1>l, <2>1, <2>2, <2>3, <2>6
  <2> HIDE DEF l, t
  <2> QED
    BY <2>2, <2>3, <2>5, <2>7, <2>8, <1>2, Zenon
<1>5. De!Mark(h) \/ De!Marked(h) \/ De!Crash(h) \/ De!Fire(h) => sent' = sent
  BY DEF De!Mark, De!Marked, De!Crash, De!Fire, De!Keeps
<1> QED
  BY <1>1, <1>3, <1>4, <1>5, DevinWays

LEMMA DevinSteadyStep ==
  ASSUME DevinType, NEW h \in DevinHooks, De!Step(h), DevinPlaced(hooks[h]), DevinSteady, Steady'
  PROVE  /\ \A g, f \in DevinHooks : De!Running(g)' /\ De!Running(f)' => g = f
         /\ \A g \in DevinHooks : hooks'[g].at \in {"check", "sendRoot", "send"} =>
              \A j \in DOMAIN hooks'[g].new : De!Key(hooks'[g], hooks'[g].new[j]) \notin store'
         /\ \A k \in DOMAIN sent' : sent'[k].what = "llm" =>
              sent'[k].key \in store' \/ \E g \in DevinHooks : Unwritten(hooks'[g], sent'[k].key)
         /\ \A k, m \in DOMAIN sent' :
              sent'[k].what = "llm" /\ sent'[k].key = sent'[m].key => k = m
<1> DEFINE l == hooks[h]
           t == hooks'[h]
<1>l. /\ l \in DevinLocals /\ l.i \in Nat \ {0} /\ Len(l.new) \in Nat
      /\ l.new \in Seq(DevinSteps) /\ l.steps \in Seq(DevinSteps)
  BY DEF DevinType, DevinLocals
<1>o. /\ \A g \in DevinHooks : g # h => hooks'[g] = hooks[g]
      /\ store \subseteq store' /\ (store' = store \/ l.at = "mark")
  BY DevinFrame
<1>s. /\ \A g, f \in DevinHooks : De!Running(g) /\ De!Running(f) => g = f
      /\ \A g \in DevinHooks : hooks[g].at \in {"check", "sendRoot", "send"} =>
           \A j \in DOMAIN hooks[g].new : De!Key(hooks[g], hooks[g].new[j]) \notin store
      /\ \A k \in DOMAIN sent : sent[k].what = "llm" =>
           sent[k].key \in store \/ \E g \in DevinHooks : Unwritten(hooks[g], sent[k].key)
      /\ \A k, m \in DOMAIN sent : sent[k].what = "llm" /\ sent[k].key = sent[m].key => k = m
  BY DevinFrame DEF DevinSteady
<1>a. \A g \in DevinHooks : De!Running(g) => g = h
  <2>1. CASE De!Fire(h)
    <3>1. ~world.overlap
      BY <1>s, DevinFrame DEF Steady
    <3> QED
      BY <2>1, <3>1 DEF De!Fire, DevinHooks
  <2>2. CASE ~De!Fire(h)
    <3>1. De!Running(h)
      BY <2>2 DEF De!Step, De!Running, De!Local, De!Resolve, De!ReadSteps, De!Check, De!Checked,
           De!SendRoot, De!SendStep, De!Mark, De!Marked, De!Crash
    <3> QED
      BY <3>1, <1>s
  <2> QED
    BY <2>1, <2>2
<1>1. \A g, f \in DevinHooks : De!Running(g)' /\ De!Running(f)' => g = f
  BY <1>a, <1>o DEF De!Running
<1>2. ASSUME NEW g \in DevinHooks, hooks'[g].at \in {"check", "sendRoot", "send"}
      PROVE  \A j \in DOMAIN hooks'[g].new : De!Key(hooks'[g], hooks'[g].new[j]) \notin store'
  <2>1. g = h
    BY <1>2, <1>a, <1>o DEF De!Running
  <2>n. \/ De!ReadSteps(h) \/ De!Check(h) \/ De!SendRoot(h) \/ De!SendStep(h) \/ De!Checked(h)
    <3>1. t.at \in {"check", "sendRoot", "send"}
      BY <1>2, <2>1
    <3>2. De!Resolve(h) => t.at \in {"done", "read"}
      BY <1>l DEF De!Resolve, De!Local, De!Goto, DevinType, DevinLocals
    <3>3. De!Fire(h) => t.at = "resolve"
      BY <1>l DEF De!Fire, De!Local, De!Goto, De!Unborn, DevinType
    <3>4. De!Mark(h) => t.at = "mark"
      BY <1>l DEF De!Mark, De!Local, De!Goto, DevinType, DevinLocals
    <3>5. De!Marked(h) \/ De!Crash(h) => t.at = "done"
      BY DEF De!Marked, De!Crash, De!Finish, De!Ended, De!Unborn, DevinType
    <3> QED
      BY <3>1, <3>2, <3>3, <3>4, <3>5 DEF De!Step
  <2>2. store' = store
    BY <2>n DEF De!ReadSteps, De!Check, De!SendRoot, De!SendStep, De!Checked, De!Keeps
  <2>3. CASE De!ReadSteps(h)
    <3>1. t.new = <<>>
      <4>1. l.new = <<>>
        BY <2>3 DEF De!ReadSteps, De!Local, DevinPlaced
      <4>2. \/ t = [l EXCEPT !.steps = De!StepsOf(l.session), !.at = "check"]
            \/ t = [l EXCEPT !.at = "check"]
        BY <2>3 DEF De!ReadSteps, De!Local, De!Goto, DevinType
      <4> QED
        BY <4>1, <4>2, <1>l DEF DevinLocals
    <3> QED
      BY <2>1, <3>1
  <2>4. CASE De!Check(h)
    <3> DEFINE step == l.steps[l.i]
    <3>1. l.at = "check" /\ l.i \in 1 .. Len(l.steps) /\ step \in DevinSteps
      BY <2>4, <1>l, ElementOfSeq DEF De!Check, De!Local
    <3>2. \/ t.session = l.session /\ t.new = l.new
          \/ /\ t.session = l.session /\ t.new = Append(l.new, step)
             /\ De!Key(l, step) \notin store
      BY <2>4, DevinChecks
    <3>3. \A j \in DOMAIN l.new : De!Key(l, l.new[j]) \notin store
      BY <3>1, <1>s
    <3>4. CASE t.new = l.new /\ t.session = l.session
      BY <2>1, <2>2, <3>3, <3>4 DEF De!Key
    <3>5. CASE t.new = Append(l.new, step) /\ t.session = l.session /\ De!Key(l, step) \notin store
      <4>1. \A j \in DOMAIN t.new : (j \in DOMAIN l.new /\ t.new[j] = l.new[j]) \/ t.new[j] = step
        BY <1>l, <3>1, <3>5
      <4> HIDE DEF step
      <4> QED
        BY <2>1, <2>2, <3>3, <3>5, <4>1 DEF De!Key
    <3> QED
      BY <3>2, <3>4, <3>5
  <2>5. CASE De!SendRoot(h) \/ De!SendStep(h) \/ De!Checked(h)
    <3>1. l.at \in {"check", "sendRoot", "send"} /\ t.session = l.session /\ t.new = l.new
      <4>1. CASE De!SendRoot(h)
        BY <4>1, <1>l DEF De!SendRoot, De!Local, De!Goto, DevinType, DevinLocals
      <4>2. CASE De!SendStep(h)
        <5>1. /\ l.at = "send"
              /\ \/ t = [l EXCEPT !.i = 1, !.at = "mark"]
                 \/ t = [l EXCEPT !.i = l.i + 1, !.at = "send"]
          BY <4>2, DevinSpan, Zenon
        <5> QED
          BY <5>1, <1>l, Zenon DEF DevinLocals
      <4>3. CASE De!Checked(h)
        <5>1. l.at = "check"
          BY <4>3 DEF De!Checked, De!Local
        <5>2. t.at # "done"
          BY <1>2, <2>1
        <5>3. t = [l EXCEPT !.i = 1, !.at = "sendRoot"]
          BY <4>3, <5>2 DEF De!Checked, De!Local, De!Goto, De!Finish, De!Ended, De!Unborn, DevinType
        <5> QED
          BY <5>1, <5>3, <1>l DEF DevinLocals
      <4> QED
        BY <2>5, <4>1, <4>2, <4>3
    <3>2. \A x : De!Key(t, x) = De!Key(l, x)
      BY <3>1 DEF De!Key
    <3>3. \A j \in DOMAIN l.new : De!Key(l, l.new[j]) \notin store
      BY <3>1, <1>s
    <3> HIDE DEF l, t
    <3> QED
      BY <2>1, <2>2, <3>1, <3>2, <3>3 DEF t
  <2> QED
    BY <2>n, <2>3, <2>4, <2>5
<1>3. ASSUME NEW key, key \in store \/ \E g \in DevinHooks : Unwritten(hooks[g], key)
      PROVE  key \in store' \/ \E g \in DevinHooks : Unwritten(hooks'[g], key)
  <2>1. CASE key \in store
    BY <2>1, <1>o
  <2>2. ASSUME NEW g \in DevinHooks, Unwritten(hooks[g], key)
        PROVE  key \in store' \/ \E f \in DevinHooks : Unwritten(hooks'[f], key)
    <3>1. g = h /\ l.at \in {"send", "mark"}
      BY <2>2, <1>a DEF Unwritten, De!Running
    <3>2. CASE De!SendStep(h)
      <4>1. /\ l.at = "send" /\ l.i \in 1 .. Len(l.new)
            /\ t = IF l.i = Len(l.new) THEN [l EXCEPT !.i = 1, !.at = "mark"]
                   ELSE [l EXCEPT !.i = l.i + 1, !.at = "send"]
        BY <3>2, DevinSpan, Zenon
      <4>2. /\ t.new = l.new /\ (\A x : De!Key(t, x) = De!Key(l, x))
            /\ (t.at = "mark" /\ t.i = 1) \/ (t.at = "send" /\ t.i = l.i + 1)
        BY <1>l, <4>1 DEF De!Key, DevinLocals
      <4>3. PICK j \in 1 .. (l.i - 1) : key = De!Key(l, l.new[j])
        BY <2>2, <3>1, <4>1 DEF Unwritten
      <4>4. j \in 1 .. Len(l.new) /\ j \in 1 .. l.i
        BY <1>l, <4>1
      <4>5. Unwritten(t, key)
        BY <1>l, <4>2, <4>3, <4>4 DEF Unwritten
      <4> QED
        BY <4>5, Zenon
    <3>3. CASE De!Mark(h)
      <4>1. /\ l.at = "mark" /\ t.at = "mark" /\ t.i = l.i + 1 /\ t.new = l.new
            /\ t.session = l.session
        BY <3>3, <1>l DEF De!Mark, De!Local, De!Goto, DevinType, DevinLocals
      <4>2. De!Key(l, l.new[l.i]) \in store'
        BY <3>3 DEF De!Mark, De!Local, Steady, DevinType
      <4>3. PICK j \in l.i .. Len(l.new) : key = De!Key(l, l.new[j])
        BY <2>2, <3>1, <4>1 DEF Unwritten
      <4>4. CASE j = l.i
        BY <4>2, <4>3, <4>4
      <4>5. CASE j # l.i
        <5>1. j \in t.i .. Len(t.new) /\ key = De!Key(t, t.new[j])
          BY <1>l, <4>1, <4>3, <4>5 DEF De!Key
        <5>2. Unwritten(t, key)
          BY <4>1, <5>1 DEF Unwritten
        <5> QED
          BY <5>2
      <4> QED
        BY <4>4, <4>5
    <3>4. CASE De!Marked(h)
      BY <2>2, <3>1, <3>4, <1>l DEF De!Marked, De!Local, Unwritten
    <3>5. CASE De!Crash(h)
      BY <3>5 DEF De!Crash, Steady, DevinType
    <3> QED
      BY <3>1, <3>2, <3>3, <3>4, <3>5, DevinWays
  <2> QED
    BY <1>3, <2>1, <2>2
<1>4. CASE sent' = sent
  BY <1>1, <1>2, <1>3, <1>4, <1>s
<1>5. ASSUME NEW e \in DevinSpans, sent' = Append(sent, e),
             e.what = "llm" => \E g \in DevinHooks : Unwritten(hooks'[g], e.key),
             \A k \in DOMAIN sent : sent[k].what = "llm" \/ e.what = "llm" => sent[k].key # e.key
      PROVE  /\ \A k \in DOMAIN sent' : sent'[k].what = "llm" =>
                  sent'[k].key \in store' \/ \E g \in DevinHooks : Unwritten(hooks'[g], sent'[k].key)
             /\ \A k, m \in DOMAIN sent' :
                  sent'[k].what = "llm" /\ sent'[k].key = sent'[m].key => k = m
  <2>1. /\ DOMAIN sent' = DOMAIN sent \cup {Len(sent) + 1} /\ Len(sent) + 1 \notin DOMAIN sent
        /\ \A k \in DOMAIN sent : sent'[k] = sent[k]
        /\ sent'[Len(sent) + 1] = e
    BY <1>5, DevinAppend DEF DevinType
  <2> QED
    BY <1>5, <2>1, <1>3, <1>s
<1>6. CASE De!SendRoot(h)
  <2> DEFINE e == [what |-> "root", trace |-> h, key |-> <<>>, content |-> FALSE]
  <2>1. /\ e \in DevinSpans /\ sent' = Append(sent, e) /\ e.what = "root" /\ e.key = <<>>
    BY <1>6 DEF DevinSpans, De!SendRoot
  <2>2. \A k \in DOMAIN sent : sent[k].what = "llm" => sent[k].key # <<>>
    BY DevinKeysDiffer
  <2> HIDE DEF e
  <2> QED
    BY <2>1, <2>2, <1>1, <1>2, <1>5
<1>7. CASE De!SendStep(h)
  <2>1. /\ l.at = "send" /\ l.i \in 1 .. Len(l.new)
        /\ t = IF l.i = Len(l.new) THEN [l EXCEPT !.i = 1, !.at = "mark"]
               ELSE [l EXCEPT !.i = l.i + 1, !.at = "send"]
    BY <1>7, DevinSpan, Zenon
  <2>2. PICK e \in DevinSpans : /\ sent' = Append(sent, e) /\ e.what = "llm" /\ e.trace = h
                                /\ e.key = De!Key(l, l.new[l.i])
    BY <1>7, DevinSpan, Zenon
  <2>3. \A k \in DOMAIN sent : sent[k].key # e.key
    <3>1. e.key \notin store /\ e.key \in DevinKeys
      BY <1>l, <1>s, <2>1, <2>2, DevinKeysDiffer
    <3>2. \A g \in DevinHooks : ~Unwritten(hooks[g], e.key)
      <4>1. \A g \in DevinHooks : Unwritten(hooks[g], e.key) => g = h
        BY <1>a DEF Unwritten, De!Running
      <4>2. ~Unwritten(l, e.key)
        BY <1>l, <2>1, <2>2, DevinKeysDiffer DEF Unwritten
      <4> QED
        BY <4>1, <4>2
    <3>3. \A k \in DOMAIN sent : sent[k].key = e.key => sent[k].what = "llm"
      BY <3>1, DevinKeysDiffer
    <3> QED
      BY <3>1, <3>2, <3>3, <1>s
  <2>4. Unwritten(t, e.key)
    <3>1. t.new = l.new /\ (\A x : De!Key(t, x) = De!Key(l, x))
      BY <1>l, <2>1 DEF De!Key, DevinLocals
    <3>2. CASE l.i = Len(l.new)
      <4>1. t.at = "mark" /\ t.i = 1
        BY <1>l, <2>1, <3>2 DEF DevinLocals
      <4>2. l.i \in t.i .. Len(t.new) /\ e.key = De!Key(t, t.new[l.i])
        BY <1>l, <2>1, <2>2, <3>1, <4>1
      <4> QED
        BY <4>1, <4>2 DEF Unwritten
    <3>3. CASE l.i # Len(l.new)
      <4>1. t.at = "send" /\ t.i = l.i + 1
        BY <1>l, <2>1, <3>3 DEF DevinLocals
      <4> QED
        BY <1>l, <2>1, <2>2, <3>1, <4>1 DEF Unwritten
    <3> QED
      BY <3>2, <3>3
  <2> HIDE DEF l, t
  <2> QED
    BY <2>2, <2>3, <2>4, <1>1, <1>2, <1>5, Zenon DEF t
<1>8. De!Mark(h) \/ De!Marked(h) \/ De!Crash(h) \/ De!Fire(h) => sent' = sent
  BY DEF De!Mark, De!Marked, De!Crash, De!Fire, De!Keeps
<1> QED
  BY <1>4, <1>6, <1>7, <1>8, DevinWays

LEMMA DevinInit ==
  ASSUME De!DevinAssumption, De!Init
  PROVE  DevinInv
<1>1. /\ store = {} /\ sent = <<>>
      /\ \A h \in DevinHooks : hooks[h] = [at |-> "new", session |-> 0, steps |-> <<>>, i |-> 1, new |-> <<>>]
      /\ hooks = [h \in DevinHooks |-> hooks[h]]
  BY DEF De!Init, De!Unborn, DevinHooks
<1>2. PICK o \in BOOLEAN :
        world = [overlap |-> o, crashes |-> 0, fails |-> 0, nodes |-> <<>>,
                 recent |-> 0, flushed |-> {}]
  BY DEF De!Init, De!DevinAssumption
<1>3. DevinType
  <2>1. \A h \in DevinHooks : hooks[h] \in DevinLocals
    <3>1. <<>> \in Seq(DevinSteps)
      OBVIOUS
    <3>2. [at |-> "new", session |-> 0, steps |-> <<>>, i |-> 1, new |-> <<>>] \in DevinLocals
      BY <3>1 DEF DevinLocals, DevinPlaces
    <3> QED
      BY <1>1, <3>2
  <2>2. hooks \in [DevinHooks -> DevinLocals]
    BY <1>1, <2>1
  <2>3. sent \in Seq(DevinSpans)
    BY <1>1
  <2>4. <<>> \in Seq(DevinNodes)
    OBVIOUS
  <2>5. world \in [overlap : BOOLEAN, crashes : Nat, fails : Nat, nodes : Seq(DevinNodes),
                   recent : Nat, flushed : SUBSET DevinKeys]
    BY <1>2, <2>4
  <2> QED
    BY <1>1, <2>2, <2>3, <2>5 DEF DevinType
<1>4. \A h \in DevinHooks : DevinPlaced(hooks[h])
  BY <1>1 DEF DevinPlaced, Distinct
<1>5. DevinSent
  BY <1>1, <1>2 DEF DevinSent
<1>6. DOMAIN sent = {}
  BY <1>1
<1>7. DevinTraces
  BY <1>6 DEF DevinTraces
<1>8. DevinSteady
  BY <1>1, <1>6 DEF DevinSteady, De!Running
<1> QED
  BY <1>3, <1>4, <1>5, <1>7, <1>8 DEF DevinInv

LEMMA DevinStep ==
  ASSUME De!DevinAssumption, DevinInv, [De!Next]_De!vars
  PROVE  DevinInv'
<1>1. DevinType /\ DevinSent /\ DevinTraces /\ DevinSteady /\ \A h \in DevinHooks : DevinPlaced(hooks[h])
  BY DEF DevinInv
<1>2. DevinType'
  BY <1>1, DevinTypeStep DEF DevinPlaced
<1>3. ASSUME NEW h \in DevinHooks, De!Step(h)
      PROVE  DevinInv'
  <2>1. (\A g \in DevinHooks : DevinPlaced(hooks[g])') /\ DevinSent' /\ DevinTraces'
    BY <1>1, <1>3, DevinPlacedStep, DevinSentStep, DevinTracesStep
  <2>2. DevinSteady'
    <3>1. Steady' =>
            /\ \A g, f \in DevinHooks : De!Running(g)' /\ De!Running(f)' => g = f
            /\ \A g \in DevinHooks : hooks'[g].at \in {"check", "sendRoot", "send"} =>
                 \A j \in DOMAIN hooks'[g].new : De!Key(hooks'[g], hooks'[g].new[j]) \notin store'
            /\ \A k \in DOMAIN sent' : sent'[k].what = "llm" =>
                 sent'[k].key \in store' \/ \E g \in DevinHooks : Unwritten(hooks'[g], sent'[k].key)
            /\ \A k, m \in DOMAIN sent' :
                 sent'[k].what = "llm" /\ sent'[k].key = sent'[m].key => k = m
      BY <1>1, <1>3, DevinSteadyStep
    <3> QED
      BY <3>1 DEF DevinSteady, De!Running, Unwritten, De!Key
  <2> QED
    BY <1>2, <2>1, <2>2 DEF DevinInv
<1>4. ASSUME UNCHANGED <<store, hooks, sent>>, world'.flushed = world.flushed,
             world'.overlap = world.overlap, world'.crashes = world.crashes,
             world'.fails = world.fails
      PROVE  DevinInv'
  <2>1. De!SentKeys' = De!SentKeys /\ (Steady' <=> Steady)
    BY <1>4 DEF De!SentKeys, Steady
  <2>2. \A h \in DevinHooks : DevinPlaced(hooks[h])'
    <3>1. \A k, j : (Known(k, j) => Known(k, j)') /\ (Out(k, j) => Out(k, j)')
      BY <1>4, <2>1 DEF Known, Out
    <3>2. \A k : DevinPlaced(k) => DevinPlaced(k)'
      BY <3>1 DEF DevinPlaced
    <3> QED
      <4> TAKE h \in DevinHooks
      <4>1. \A k : k = hooks'[h] => (DevinPlaced(k)' <=> DevinPlaced(hooks[h])')
        OBVIOUS
      <4>2. hooks'[h] = hooks[h]
        BY <1>4
      <4> QED
        BY <1>1, <3>2, <4>1, <4>2
  <2>3. DevinSent'
    BY <1>1, <1>4, <2>1 DEF DevinSent
  <2>4. DevinTraces'
    BY <1>1, <1>4 DEF DevinTraces
  <2>5. DevinSteady'
    BY <1>1, <1>4, <2>1 DEF DevinSteady, De!Running, Unwritten, De!Key
  <2> QED
    BY <1>2, <2>2, <2>3, <2>4, <2>5 DEF DevinInv
<1>5. CASE De!Generate
  <2>1. \E s, n : world' = [world EXCEPT !.recent = s, !.nodes = n]
    BY <1>5 DEF De!Generate
  <2>2. /\ world'.flushed = world.flushed /\ world'.overlap = world.overlap
        /\ world'.crashes = world.crashes /\ world'.fails = world.fails
    BY <1>1, <2>1 DEF DevinType
  <2> QED
    BY <1>4, <1>5, <2>2 DEF De!Generate
<1>6. CASE UNCHANGED De!vars
  BY <1>4, <1>6 DEF De!vars
<1> QED
  BY <1>3, <1>5, <1>6 DEF De!Next, DevinHooks

(* Devin: whatever overlaps, dies or cannot be read or written, what a     *)
(* flush that came to its end had read, and what is in the file, has been  *)
(* sent; a generation is sent once while flushes come one after the other  *)
(* and nothing fails, and once in a trace in any case (flush_session).     *)
THEOREM DevinReports == Spec => []StepsReportedOnce
<1> DEFINE Inv == harness = "devin" => DevinInv
<1>1. Init => Inv
  <2>1. De!DevinAssumption
    BY HarnessesAssumption
  <2>2. Init /\ harness = "devin" => De!Init
    BY DEF Init
  <2> QED
    BY <2>1, <2>2, DevinInit
<1>2. Inv /\ [Next]_vars => Inv'
  <2>1. De!DevinAssumption
    BY HarnessesAssumption
  <2>2. [Next]_vars => harness' = harness
    BY DEF Next, vars
  <2>3. [Next]_vars /\ harness = "devin" => [De!Next]_De!vars
    BY DEF Next, vars, De!vars
  <2> QED
    BY <2>1, <2>2, <2>3, DevinStep
<1>3. Inv => StepsReportedOnce
  BY DEF StepsReportedOnce, De!StepsReportedOnce, DevinInv, DevinSent, DevinTraces, DevinSteady, Steady
<1> QED
  BY <1>1, <1>2, <1>3, PTL DEF Spec

-----------------------------------------------------------------------------
(* opencode *)

OpHooks == HooksOf["opencode"]
OpTurns == 1 .. MaxTurns
OpNames == {"span_msg", "span_tool", "span_agent"}
OpMarks == {"emitted_msg", "emitted_tool", "emitted_agent"}
OpLinks == [trace : Op!Drawn, span : Op!Drawn]
OpSpans == {"llm", "tool", "agent"}
ClosedKey(u) == <<"closed_user", u>>
LinkKey(m) == <<"tool_link", m>>

(* The keys under which a span has its id and its mark.                    *)
OpIdKey(s) ==
  <<IF s.what = "llm" THEN "span_msg" ELSE IF s.what = "tool" THEN "span_tool" ELSE "span_agent", s.of>>
OpMark(s) ==
  <<IF s.what = "llm" THEN "emitted_msg" ELSE IF s.what = "tool" THEN "emitted_tool" ELSE "emitted_agent", s.of>>

(* What the hook inside has still to do about the item in hand, and how    *)
(* its steps follow each other.                                            *)
OpDue == UNION {Elems(hooks[h].steps) : h \in OpHooks}
OpFinal == \E h \in OpHooks : hooks[h].at = "inside" /\ hooks[h].kind = "close"

OpKind == IF OpFinal THEN "close" ELSE "reconcile"

OpRank(x, kind) ==
  IF x.do = "send" THEN 5
  ELSE IF x.do = "delete"
       THEN IF x.key = Op!TraceKey THEN 7 ELSE IF x.key = Op!SpanKey THEN 8
            ELSE IF x.key = Op!UserKey THEN 9 ELSE 13
  ELSE IF x.key = Op!PendingKey THEN (IF kind = "close" THEN 13 ELSE 0)
  ELSE IF x.key = Op!UserKey THEN 10
  ELSE IF x.key = Op!TraceKey THEN 11
  ELSE IF x.key = Op!SpanKey THEN 12
  ELSE IF x.key[1] \in {"span_msg", "span_agent"} THEN 1
  ELSE IF x.key[1] = "span_tool" THEN 2
  ELSE IF x.key[1] \in {"closed_user", "tool_link"} THEN 6
  ELSE 7

OpOrdered(q, kind) ==
  \A i, j \in DOMAIN q : i < j => OpRank(q[i], kind) < OpRank(q[j], kind)

OpWrites(k, v) == Op!Set(k, v) \in OpDue
OpSets(k) == \E x \in OpDue : x.do = "set" /\ x.key = k
OpDrops(k) == Op!Delete(k) \in OpDue
OpSends(what, of) == \E x \in OpDue : x.do = "send" /\ x.span.what = what /\ x.span.of = of

OpUser == Op!Get(store, Op!UserKey)
OpTrace == Op!Get(store, Op!TraceKey)
OpSpan == Op!Get(store, Op!SpanKey)
OpOpen == OpTrace # None /\ OpSpan # None
OpClosed(u) == Op!Has(store, ClosedKey(u))
OpRooted(u) == \E i \in DOMAIN sent : sent[i].what = "root" /\ sent[i].of = u

(* The steps, and the spans, that there are.                               *)
OpSpanOf(s) ==
  \/ s.what = "root" /\ s.of \in OpTurns
  \/ s.what \in OpSpans /\ s.of \in Op!Messages

OpUpdate(x) ==
  \/ \E u \in OpTurns : x = Op!Set(Op!UserKey, u) \/ x = Op!Set(ClosedKey(u), "1")
  \/ \E d \in Op!Drawn : x = Op!Set(Op!TraceKey, d) \/ x = Op!Set(Op!SpanKey, d)
  \/ \E s \in SUBSET Tasks : x = Op!Set(Op!PendingKey, s)
  \/ \E m \in Op!Messages :
       \/ \E n \in OpNames : \E d \in Op!Drawn : x = Op!Set(<<n, m>>, d)
       \/ \E n \in OpMarks : x = Op!Set(<<n, m>>, "1")
       \/ \E l \in OpLinks : x = Op!Set(LinkKey(m), l)

OpStep(x) ==
  \/ OpUpdate(x)
  \/ \E k \in {Op!UserKey, Op!TraceKey, Op!SpanKey, Op!PendingKey} : x = Op!Delete(k)
  \/ x.do = "send" /\ x = Op!Send(x.span) /\ OpSpanOf(x.span)

(* The log of a session: an answer comes after its prompt.                 *)
OpLog(log) ==
  /\ IsSeq(log)
  /\ \A n \in DOMAIN log :
       /\ log[n] \in Op!Messages /\ ~log[n].sub
       /\ log[n].step > 0 => \E k \in DOMAIN log : k < n /\ log[k] = Op!Prompt(log[n].turn)

OpHook(l) ==
  /\ DOMAIN l = {"at", "kind", "snap", "steps", "todo", "final"}
  /\ l.at \in {"new", "asked", "ready", "inside", "done"}
  /\ DOMAIN l.snap = {"log", "done", "ran", "kids"}
  /\ OpLog(l.snap.log) /\ l.snap.kids \subseteq Tasks
  /\ l.at # "inside" => l.steps = <<>> /\ l.todo = <<>>
  /\ IsSeq(l.steps) /\ OpOrdered(l.steps, l.kind) /\ IsSeq(l.todo)

OpShape ==
  /\ DOMAIN hooks = OpHooks /\ \A h \in OpHooks : OpHook(hooks[h])
  /\ \A g, h \in OpHooks : hooks[g].at = "inside" /\ hooks[h].at = "inside" => g = h
  /\ \A x \in OpDue : OpStep(x)
  /\ DOMAIN world = {"log", "done", "ran", "idle", "crashes"} /\ world.crashes \in Nat
  /\ OpLog(world.log)
  /\ IsSeq(sent) /\ \A i \in DOMAIN sent : OpSpanOf(sent[i])

OpStored ==
  /\ OpUser # None => OpUser \in OpTurns
  /\ OpTrace # None => OpTrace \in Op!Drawn
  /\ OpSpan # None => OpSpan \in Op!Drawn
  /\ \A m \in Op!Messages : \A n \in OpNames : Op!Has(store, <<n, m>>) => store[<<n, m>>] \in Op!Drawn
  /\ \A m \in Op!Messages : Op!Has(store, LinkKey(m)) => store[LinkKey(m)] \in OpLinks
  /\ Op!Finalizers \subseteq Tasks

(* An id is reserved once, before its span is sent, and kept.              *)
OpReserved ==
  /\ \A i \in DOMAIN sent : sent[i].what # "root" =>
       Op!Has(store, OpIdKey(sent[i])) /\ store[OpIdKey(sent[i])] = sent[i].id
  /\ \A x \in OpDue : x.do = "send" /\ x.span.what # "root" =>
       \/ Op!Has(store, OpIdKey(x.span)) /\ store[OpIdKey(x.span)] = x.span.id
       \/ OpWrites(OpIdKey(x.span), x.span.id)
  /\ \A x \in OpDue : x.do = "set" /\ x.key[1] \in OpNames => ~Op!Has(store, x.key)

(* While no hook dies, what is sent is marked, and sent once.              *)
OpMarked ==
  world.crashes = 0 =>
    /\ \A i \in DOMAIN sent : sent[i].what # "root" =>
         Op!Has(store, OpMark(sent[i])) \/ OpWrites(OpMark(sent[i]), "1")
    /\ \A x \in OpDue : x.do = "send" /\ x.span.what # "root" => OpWrites(OpMark(x.span), "1")
    /\ \A x \in OpDue : x.do = "send" =>
         \A i \in DOMAIN sent : ~(sent[i].what = x.span.what /\ sent[i].of = x.span.of)
    /\ \A i, j \in DOMAIN sent : sent[i].what = sent[j].what /\ sent[i].of = sent[j].of => i = j

(* The turn that is open: what closes it, and what opens the next one.     *)
OpCloses ==
  /\ \A x \in OpDue : x.do = "send" /\ x.span.what = "root" =>
       /\ x.span.of = OpUser /\ x.span.id = OpSpan /\ x.span.trace = OpTrace /\ OpOpen
       /\ OpWrites(ClosedKey(OpUser), "1")
  /\ \A u \in OpTurns : OpWrites(ClosedKey(u), "1") => OpUser = u /\ OpOpen /\ OpDrops(Op!TraceKey)
  /\ OpDrops(Op!TraceKey) => OpDrops(Op!SpanKey)
  /\ OpDrops(Op!SpanKey) => OpDrops(Op!UserKey)
  /\ OpDrops(Op!UserKey) => /\ OpUser # None /\ (OpClosed(OpUser) \/ OpWrites(ClosedKey(OpUser), "1"))
                            /\ OpTrace # None => OpDrops(Op!TraceKey)

OpNoUser == \A u \in OpTurns : ~OpWrites(Op!UserKey, u)

OpOpens ==
  /\ \A u \in OpTurns : OpWrites(Op!UserKey, u) =>
       /\ OpUser # u /\ ~OpClosed(u) /\ ~OpRooted(u)
       /\ OpDrops(Op!UserKey) \/ ~OpOpen
       /\ \E d \in Op!Drawn : OpWrites(Op!TraceKey, d)
       /\ \A d \in Op!Drawn : OpWrites(Op!TraceKey, d) => d.of[2] = u
  /\ \A d \in Op!Drawn : OpWrites(Op!TraceKey, d) =>
       /\ \E e \in Op!Drawn : OpWrites(Op!SpanKey, e)
       /\ OpNoUser => d.of[2] = OpUser
  /\ \A d \in Op!Drawn : OpWrites(Op!SpanKey, d) =>
       /\ OpNoUser => OpUser # None /\ ~OpClosed(OpUser) /\ ~OpRooted(OpUser) /\ ~OpDrops(Op!UserKey)
       /\ (\A e \in Op!Drawn : ~OpWrites(Op!TraceKey, e)) => OpTrace # None /\ OpTrace.of[2] = OpUser

OpTurn ==
  /\ OpTrace # None => OpUser # None
  /\ OpOpen => OpTrace.of[2] = OpUser
  /\ \A i \in DOMAIN sent : sent[i].what = "root" =>
       /\ OpClosed(sent[i].of) \/ (OpUser = sent[i].of /\ OpOpen)
       /\ OpUser = sent[i].of /\ OpOpen => OpSpan = sent[i].id
       /\ sent[i].trace.of[2] = sent[i].of
  /\ \A i, j \in DOMAIN sent :
       sent[i].what = "root" /\ sent[j].what = "root" /\ sent[i].of = sent[j].of => sent[i].id = sent[j].id
  /\ world.crashes = 0 =>
       /\ \A i \in DOMAIN sent : sent[i].what = "root" =>
            OpClosed(sent[i].of) \/ OpWrites(ClosedKey(sent[i].of), "1")
       /\ OpOpen /\ OpClosed(OpUser) => OpDrops(Op!TraceKey)
       /\ OpUser # None /\ ~OpOpen => OpDrops(Op!UserKey) \/ \E d \in Op!Drawn : OpWrites(Op!SpanKey, d)
       /\ OpUser # None => OpNoUser \/ OpDrops(Op!UserKey)

(* A span is in the trace of its turn, or that turn is closed.             *)
OpInPlace(trace, t) == trace.of[2] = t \/ OpClosed(t)

OpPlaces ==
  world.crashes = 0 =>
    /\ \A i \in DOMAIN sent : sent[i].what # "root" => OpInPlace(sent[i].trace, sent[i].of.turn)
    /\ \A x \in OpDue : x.do = "send" /\ x.span.what # "root" => OpInPlace(x.span.trace, x.span.of.turn)
    /\ \A m \in Op!Messages : Op!Has(store, LinkKey(m)) => OpInPlace(store[LinkKey(m)].trace, m.turn)
    /\ \A m \in Op!Messages : \A x \in OpDue : x.do = "set" /\ x.key = LinkKey(m) =>
         OpInPlace(x.val.trace, m.turn)

(* The spans of a subagent: its agent span was sent or the child is        *)
(* remembered.                                                             *)
OpAgent(m) == \E i \in DOMAIN sent : sent[i].what = "agent" /\ sent[i].of = m
OpKept(m) == OpAgent(m) \/ m \in Op!Finalizers
OpCovered(m) ==
  \/ OpKept(m) \/ OpSends("agent", m)
  \/ \E x \in OpDue : x.do = "set" /\ x.key = Op!PendingKey /\ m \in x.val

OpChildren ==
  \A m \in Tasks :
    /\ \A i \in DOMAIN sent : sent[i].what = "llm" /\ sent[i].of = Op!Sub(m) => OpKept(m)
    /\ OpSends("llm", Op!Sub(m)) => OpKept(m)
    /\ \A x \in OpDue : x.do = "set" /\ x.key = Op!PendingKey /\ m \in Op!Finalizers =>
         m \in x.val \/ OpAgent(m) \/ (OpSends("agent", m) /\ OpFinal)
    /\ OpDrops(Op!PendingKey) => OpFinal /\ (m \in Op!Finalizers => OpAgent(m) \/ OpSends("agent", m))
    /\ Op!Has(store, <<"emitted_agent", m>>) => OpAgent(m)
    /\ OpWrites(<<"emitted_agent", m>>, "1") => OpAgent(m) \/ OpSends("agent", m)

(* The items that the hook inside will come to.                            *)
OpItem(i) ==
  \/ i.do = "user" /\ i.of \in OpTurns
  \/ i.do \in {"llm", "tool"} /\ i.of \in Op!Messages /\ (i.under = None \/ i.under \in OpLinks)
  \/ i.do \in {"child", "vanished"} /\ i.of \in Tasks
  \/ i.do = "children" /\ i.of \subseteq Tasks
  \/ i.do \in {"pending", "root"}

OpSeen(t) == OpClosed(t) \/ OpUser = t \/ OpWrites(Op!UserKey, t)

OpToCome(q, p, t) == \E r \in DOMAIN q : r < p /\ q[r].do = "user" /\ q[r].of = t

OpTodo(l) ==
  \A p \in DOMAIN l.todo :
    /\ OpItem(l.todo[p])
    /\ l.todo[p].do \in {"vanished", "children", "pending"} => l.kind = "close"
    /\ world.crashes = 0 /\ l.todo[p].do \in {"llm", "tool"} =>
         IF l.todo[p].under = None
         THEN OpSeen(l.todo[p].of.turn) \/ OpToCome(l.todo, p, l.todo[p].of.turn)
         ELSE OpInPlace(l.todo[p].under.trace, l.todo[p].of.turn)
    /\ \A m \in Tasks : l.todo[p].do = "llm" /\ l.todo[p].of = Op!Sub(m) => OpCovered(m)

OpItems == \A h \in OpHooks : OpTodo(hooks[h])

OpInv ==
  /\ OpShape /\ OpStored /\ OpReserved /\ OpMarked /\ OpCloses /\ OpOpens /\ OpTurn /\ OpPlaces
  /\ OpChildren /\ OpItems
-----------------------------------------------------------------------------
(* Sequences of steps *)

(* The elements of a sorted sequence of steps, and their ranks.            *)
OpList(q, E, kind, lo, hi) ==
  /\ IsSeq(q) /\ Elems(q) = E /\ OpOrdered(q, kind)
  /\ \A x \in E : OpRank(x, kind) \in lo .. hi

LEMMA OpListEmpty == \A kind, lo, hi : OpList(<<>>, {}, kind, lo, hi)
<1>1. <<>> \in Seq({}) /\ DOMAIN <<>> = {}
  OBVIOUS
<1> QED
  BY <1>1 DEF OpList, IsSeq, Elems, OpOrdered

LEMMA OpListOne ==
  ASSUME NEW x, NEW kind, NEW lo \in Int, NEW hi \in Int, OpRank(x, kind) \in lo .. hi
  PROVE  OpList(<<x>>, {x}, kind, lo, hi)
<1> DEFINE q == <<x>>
<1>1. DOMAIN q = {1} /\ q[1] = x /\ q \in Seq({x})
  OBVIOUS
<1> HIDE DEF q
<1>2. Elems(q) = {x}
  BY <1>1 DEF Elems
<1>3. IsSeq(q)
  BY <1>1, <1>2 DEF IsSeq, Elems
<1>4. OpOrdered(q, kind)
  BY <1>1 DEF OpOrdered
<1> QED
  BY <1>2, <1>3, <1>4 DEF OpList, q

LEMMA OpListCat ==
  ASSUME NEW a, NEW A, NEW b, NEW B, NEW kind,
         NEW lo \in Int, NEW mid \in Int, NEW next \in Int, NEW hi \in Int,
         lo <= mid, mid < next, next <= hi,
         OpList(a, A, kind, lo, mid), OpList(b, B, kind, next, hi)
  PROVE  OpList(a \o b, A \cup B, kind, lo, hi)
<1> DEFINE c == a \o b
<1>1. Elems(a) = A /\ Elems(b) = B
  BY DEF OpList
<1>9. IsSeq(a) /\ IsSeq(b)
  BY DEF OpList
<1>2. /\ IsSeq(c) /\ Elems(c) = Elems(a) \cup Elems(b)
      /\ Len(a) \in Nat /\ Len(b) \in Nat /\ DOMAIN a = 1 .. Len(a) /\ DOMAIN b = 1 .. Len(b)
      /\ Len(c) = Len(a) + Len(b) /\ DOMAIN c = 1 .. Len(a) + Len(b)
      /\ \A i \in DOMAIN a : c[i] = a[i]
      /\ \A i \in DOMAIN b : c[Len(a) + i] = b[i]
      /\ \A i \in 1 .. Len(a) + Len(b) : i \in DOMAIN a \/ (i > Len(a) /\ i - Len(a) \in DOMAIN b)
  BY <1>9, ConcatAny, Zenon
<1> HIDE DEF c
<1>3. \A x \in A : OpRank(x, kind) \in lo .. mid
  BY DEF OpList
<1>4. \A x \in B : OpRank(x, kind) \in next .. hi
  BY DEF OpList
<1>5. \A x \in A \cup B : OpRank(x, kind) \in lo .. hi
  BY <1>3, <1>4
<1>8. Elems(c) = A \cup B
  BY <1>1, <1>2
<1>6. ASSUME NEW i \in DOMAIN c, NEW j \in DOMAIN c, i < j
      PROVE  OpRank(c[i], kind) < OpRank(c[j], kind)
  <2>1. CASE j \in DOMAIN a
    <3>1. i \in DOMAIN a
      BY <1>2, <1>6, <2>1
    <3> QED
      BY <1>2, <1>6, <2>1, <3>1 DEF OpList, OpOrdered
  <2>2. CASE i \in DOMAIN a /\ j - Len(a) \in DOMAIN b
    <3>1. c[i] \in A /\ c[i] = a[i]
      BY <1>1, <1>2, <2>2 DEF Elems
    <3>2. j = Len(a) + (j - Len(a))
      BY <1>2
    <3>3. c[j] \in B
      BY <1>1, <1>2, <2>2, <3>2 DEF Elems
    <3>4. OpRank(c[i], kind) \in lo .. mid /\ OpRank(c[j], kind) \in next .. hi
      BY <1>3, <1>4, <3>1, <3>3
    <3> QED
      BY <3>4
  <2>3. CASE i - Len(a) \in DOMAIN b /\ j - Len(a) \in DOMAIN b
    <3>1. i = Len(a) + (i - Len(a)) /\ j = Len(a) + (j - Len(a)) /\ i - Len(a) < j - Len(a)
      BY <1>2, <1>6
    <3>2. c[i] = b[i - Len(a)] /\ c[j] = b[j - Len(a)]
      BY <1>2, <2>3, <3>1
    <3> QED
      BY <2>3, <3>1, <3>2 DEF OpList, OpOrdered
  <2> QED
    BY <1>2, <1>6, <2>1, <2>2, <2>3
<1>7. OpOrdered(c, kind)
  BY <1>6 DEF OpOrdered
<1> QED
  BY <1>2, <1>5, <1>7, <1>8 DEF OpList, c

LEMMA OpListIf ==
  ASSUME NEW q, NEW E, NEW kind, NEW lo, NEW hi, NEW c \in BOOLEAN, c => OpList(q, E, kind, lo, hi)
  PROVE  OpList(Op!If(c, q), IF c THEN E ELSE {}, kind, lo, hi)
BY OpListEmpty DEF Op!If

-----------------------------------------------------------------------------
(* The keys of the dict, and the ranks of the steps *)

(* Four keys are for the session, the others for a message or a prompt.    *)
LEMMA OpKeys ==
  /\ \A n, m : Len(<<n, m>>) = 2 /\ <<n, m>>[1] = n /\ <<n, m>>[2] = m
  /\ \A n, m : <<n, m>> \notin {Op!TraceKey, Op!SpanKey, Op!UserKey, Op!PendingKey}
  /\ Op!TraceKey # Op!SpanKey /\ Op!TraceKey # Op!UserKey /\ Op!TraceKey # Op!PendingKey
  /\ Op!SpanKey # Op!UserKey /\ Op!SpanKey # Op!PendingKey /\ Op!UserKey # Op!PendingKey
<1>1. \A n, m : Len(<<n, m>>) = 2 /\ <<n, m>>[1] = n /\ <<n, m>>[2] = m
  OBVIOUS
<1>2. /\ Len(Op!TraceKey) = 1 /\ Op!TraceKey[1] = "current_trace_id"
      /\ Len(Op!SpanKey) = 1 /\ Op!SpanKey[1] = "current_trace_span_id"
      /\ Len(Op!UserKey) = 1 /\ Op!UserKey[1] = "current_user_message_id"
      /\ Len(Op!PendingKey) = 1 /\ Op!PendingKey[1] = "pending_child_finalizers"
  BY DEF Op!TraceKey, Op!SpanKey, Op!UserKey, Op!PendingKey
<1>3. \A n, m : <<n, m>> \notin {Op!TraceKey, Op!SpanKey, Op!UserKey, Op!PendingKey}
  BY <1>1, <1>2
<1>4. "current_trace_id" # "current_trace_span_id" /\ "current_trace_id" # "current_user_message_id"
  OBVIOUS
<1> QED
  BY <1>1, <1>2, <1>3

LEMMA OpPairRanks ==
  ASSUME NEW kind, NEW n, NEW m, NEW v
  PROVE  OpRank(Op!Set(<<n, m>>, v), kind) =
           IF n \in {"span_msg", "span_agent"} THEN 1
           ELSE IF n = "span_tool" THEN 2
           ELSE IF n \in {"closed_user", "tool_link"} THEN 6
           ELSE 7
<1> DEFINE k == <<n, m>>
<1>1. k[1] = n /\ k \notin {Op!TraceKey, Op!SpanKey, Op!UserKey, Op!PendingKey}
  BY OpKeys
<1> HIDE DEF k
<1>2. Op!Set(k, v).do = "set" /\ Op!Set(k, v).key = k
  BY DEF Op!Set
<1> DEFINE x == Op!Set(k, v)
<1> HIDE DEF x
<1>3. OpRank(x, kind) = IF n \in {"span_msg", "span_agent"} THEN 1
                        ELSE IF n = "span_tool" THEN 2
                        ELSE IF n \in {"closed_user", "tool_link"} THEN 6
                        ELSE 7
  BY <1>1, <1>2 DEF OpRank, x
<1> QED
  BY <1>3 DEF x, k

LEMMA OpRanks ==
  ASSUME NEW kind
  PROVE  /\ \A s : OpRank(Op!Send(s), kind) = 5
         /\ OpRank(Op!Delete(Op!TraceKey), kind) = 7
         /\ OpRank(Op!Delete(Op!SpanKey), kind) = 8
         /\ OpRank(Op!Delete(Op!UserKey), kind) = 9
         /\ OpRank(Op!Delete(Op!PendingKey), kind) = 13
         /\ \A v : /\ kind = "close" => OpRank(Op!Set(Op!PendingKey, v), kind) = 13
                   /\ kind # "close" => OpRank(Op!Set(Op!PendingKey, v), kind) = 0
         /\ \A v : OpRank(Op!Set(Op!UserKey, v), kind) = 10
         /\ \A v : OpRank(Op!Set(Op!TraceKey, v), kind) = 11
         /\ \A v : OpRank(Op!Set(Op!SpanKey, v), kind) = 12
         /\ \A m, v : OpRank(Op!Set(<<"span_msg", m>>, v), kind) = 1
         /\ \A m, v : OpRank(Op!Set(<<"span_agent", m>>, v), kind) = 1
         /\ \A m, v : OpRank(Op!Set(<<"span_tool", m>>, v), kind) = 2
         /\ \A m, v : OpRank(Op!Set(<<"closed_user", m>>, v), kind) = 6
         /\ \A m, v : OpRank(Op!Set(<<"tool_link", m>>, v), kind) = 6
         /\ \A m, v : OpRank(Op!Set(<<"emitted_msg", m>>, v), kind) = 7
         /\ \A m, v : OpRank(Op!Set(<<"emitted_tool", m>>, v), kind) = 7
         /\ \A m, v : OpRank(Op!Set(<<"emitted_agent", m>>, v), kind) = 7
<1>1. \A k, v : /\ Op!Set(k, v).do = "set" /\ Op!Set(k, v).key = k
                /\ Op!Delete(k).do = "delete" /\ Op!Delete(k).key = k
  BY DEF Op!Set, Op!Delete
<1>2. \A s : OpRank(Op!Send(s), kind) = 5
  BY DEF Op!Send, OpRank
<1>3. /\ OpRank(Op!Delete(Op!TraceKey), kind) = 7
      /\ OpRank(Op!Delete(Op!SpanKey), kind) = 8
      /\ OpRank(Op!Delete(Op!UserKey), kind) = 9
      /\ OpRank(Op!Delete(Op!PendingKey), kind) = 13
  BY <1>1, OpKeys DEF OpRank
<1>4. \A v : /\ kind = "close" => OpRank(Op!Set(Op!PendingKey, v), kind) = 13
             /\ kind # "close" => OpRank(Op!Set(Op!PendingKey, v), kind) = 0
             /\ OpRank(Op!Set(Op!UserKey, v), kind) = 10
             /\ OpRank(Op!Set(Op!TraceKey, v), kind) = 11
             /\ OpRank(Op!Set(Op!SpanKey, v), kind) = 12
  BY <1>1, OpKeys DEF OpRank
<1> QED
  BY <1>2, <1>3, <1>4, OpPairRanks

-----------------------------------------------------------------------------
(* What a step of the hook inside changes *)

(* The hook inside does the step that comes first of those it has to do.   *)
OpDid(x) ==
  /\ x \in OpDue /\ OpDue' = OpDue \ {x}
  /\ \A y \in OpDue' : OpRank(x, OpKind) < OpRank(y, OpKind)
  /\ OpFinal' = OpFinal /\ world'.crashes = world.crashes
  /\ \/ x.do = "set" /\ store' = Op!Put(store, x.key, x.val) /\ sent' = sent
     \/ x.do = "delete" /\ store' = Op!Drop(store, {x.key}) /\ sent' = sent
     \/ x.do = "send" /\ store' = store /\ sent' = Append(sent, x.span)

(* The hook inside comes to an item.                                       *)
OpCame(E) ==
  /\ OpDue = {} /\ OpDue' = E /\ OpFinal' = OpFinal /\ world'.crashes = world.crashes
  /\ store' = store /\ sent' = sent

LEMMA OpPut ==
  ASSUME NEW k, NEW v, store' = Op!Put(store, k, v)
  PROVE  /\ \A j : Op!Has(store', j) <=> j = k \/ Op!Has(store, j)
         /\ \A j : j # k => store'[j] = store[j] \/ ~Op!Has(store, j)
         /\ \A j : j # k => Op!Get(store', j) = Op!Get(store, j)
         /\ store'[k] = v /\ Op!Get(store', k) = v
BY DEF Op!Put, Op!Has, Op!Get

LEMMA OpDrop ==
  ASSUME NEW k, store' = Op!Drop(store, {k})
  PROVE  /\ \A j : Op!Has(store', j) <=> j # k /\ Op!Has(store, j)
         /\ \A j : j # k => store'[j] = store[j] \/ ~Op!Has(store, j)
         /\ \A j : j # k => Op!Get(store', j) = Op!Get(store, j)
         /\ Op!Get(store', k) = None
BY DEF Op!Drop, Op!Has, Op!Get

LEMMA OpFields ==
  /\ \A k, v : LET x == Op!Set(k, v) IN x.do = "set" /\ x.key = k /\ x.val = v
  /\ \A k : LET x == Op!Delete(k) IN x.do = "delete" /\ x.key = k
  /\ \A s : LET x == Op!Send(s) IN x.do = "send" /\ x.span = s
BY DEF Op!Set, Op!Delete, Op!Send

LEMMA OpKinds ==
  ASSUME NEW x, OpStep(x)
  PROVE  \/ x.do = "set" /\ OpUpdate(x) /\ x = Op!Set(x.key, x.val)
         \/ /\ x.do = "delete" /\ x = Op!Delete(x.key)
            /\ x.key \in {Op!UserKey, Op!TraceKey, Op!SpanKey, Op!PendingKey}
         \/ x.do = "send" /\ x = Op!Send(x.span) /\ OpSpanOf(x.span)
<1>1. CASE OpUpdate(x)
  <2>1. \E k, v : x = Op!Set(k, v)
    BY <1>1 DEF OpUpdate
  <2>2. x.do = "set" /\ x = Op!Set(x.key, x.val)
    BY <2>1, OpFields
  <2> QED
    BY <1>1, <2>2
<1>2. CASE \E k \in {Op!UserKey, Op!TraceKey, Op!SpanKey, Op!PendingKey} : x = Op!Delete(k)
  BY <1>2, OpFields
<1> QED
  BY <1>1, <1>2 DEF OpStep

(* The turn that is open, after a step.                                    *)
LEMMA OpReads ==
  ASSUME NEW x, OpStep(x), OpDid(x)
  PROVE  /\ x.do = "set" /\ x.key = Op!UserKey =>
              OpUser' = x.val /\ OpTrace' = OpTrace /\ OpSpan' = OpSpan
         /\ x.do = "set" /\ x.key = Op!TraceKey =>
              OpTrace' = x.val /\ OpUser' = OpUser /\ OpSpan' = OpSpan
         /\ x.do = "set" /\ x.key = Op!SpanKey =>
              OpSpan' = x.val /\ OpUser' = OpUser /\ OpTrace' = OpTrace
         /\ x.do = "delete" /\ x.key = Op!UserKey =>
              OpUser' = None /\ OpTrace' = OpTrace /\ OpSpan' = OpSpan
         /\ x.do = "delete" /\ x.key = Op!TraceKey =>
              OpTrace' = None /\ OpUser' = OpUser /\ OpSpan' = OpSpan
         /\ x.do = "delete" /\ x.key = Op!SpanKey =>
              OpSpan' = None /\ OpUser' = OpUser /\ OpTrace' = OpTrace
         /\ x.do = "send" \/ x.key \notin {Op!UserKey, Op!TraceKey, Op!SpanKey} =>
              OpUser' = OpUser /\ OpTrace' = OpTrace /\ OpSpan' = OpSpan
         /\ \A u : OpClosed(u)' <=> OpClosed(u) \/ (x.do = "set" /\ x.key = ClosedKey(u))
<1>k. \A u : ClosedKey(u) \notin {Op!TraceKey, Op!SpanKey, Op!UserKey, Op!PendingKey}
  BY OpKeys DEF ClosedKey
<1>1. CASE x.do = "set"
  <2>1. store' = Op!Put(store, x.key, x.val)
    BY <1>1 DEF OpDid
  <2>2. /\ \A j : Op!Has(store', j) <=> j = x.key \/ Op!Has(store, j)
        /\ \A j : j # x.key => Op!Get(store', j) = Op!Get(store, j)
        /\ Op!Get(store', x.key) = x.val
    BY <2>1, OpPut
  <2>3. \A u : OpClosed(u)' <=> OpClosed(u) \/ x.key = ClosedKey(u)
    BY <2>2 DEF OpClosed
  <2> QED
    BY <1>1, <2>2, <2>3, OpKeys DEF OpUser, OpTrace, OpSpan
<1>2. CASE x.do = "delete"
  <2>1. store' = Op!Drop(store, {x.key})
    BY <1>2 DEF OpDid
  <2>2. /\ \A j : Op!Has(store', j) <=> j # x.key /\ Op!Has(store, j)
        /\ \A j : j # x.key => Op!Get(store', j) = Op!Get(store, j)
        /\ Op!Get(store', x.key) = None
    BY <2>1, OpDrop
  <2>3. x.key \in {Op!UserKey, Op!TraceKey, Op!SpanKey, Op!PendingKey}
    BY <1>2, OpKinds
  <2>4. \A u : OpClosed(u)' <=> OpClosed(u)
    BY <1>k, <2>2, <2>3 DEF OpClosed
  <2> QED
    BY <1>2, <2>2, <2>4, OpKeys DEF OpUser, OpTrace, OpSpan
<1>3. CASE x.do = "send"
  <2>1. store' = store
    BY <1>3 DEF OpDid
  <2> QED
    BY <1>3, <2>1 DEF OpUser, OpTrace, OpSpan, OpClosed
<1> QED
  BY <1>1, <1>2, <1>3 DEF OpDid

(* The spans sent, after a step.                                           *)
LEMMA OpSpansSent ==
  ASSUME NEW x, OpShape, OpDid(x)
  PROVE  /\ IsSeq(sent')
         /\ \A i \in DOMAIN sent : i \in DOMAIN sent' /\ sent'[i] = sent[i]
         /\ x.do # "send" => sent' = sent
         /\ x.do = "send" =>
              /\ \A i \in DOMAIN sent' : i \in DOMAIN sent \/ (i = Len(sent) + 1 /\ sent'[i] = x.span)
              /\ Len(sent) + 1 \in DOMAIN sent' /\ sent'[Len(sent) + 1] = x.span
<1>1. IsSeq(sent)
  BY DEF OpShape
<1>2. CASE x.do = "send"
  <2>1. sent' = Append(sent, x.span)
    BY <1>2 DEF OpDid
  <2> QED
    BY <1>1, <1>2, <2>1, AppendAny
<1>3. CASE x.do # "send"
  BY <1>1, <1>3 DEF OpDid
<1> QED
  BY <1>2, <1>3

-----------------------------------------------------------------------------
(* The turn that is open *)

(* A step that does not touch the turn.                                    *)
OpAside(x) ==
  \/ x.do = "send" /\ x.span.what # "root"
  \/ /\ x.do \in {"set", "delete"} /\ x.key \notin {Op!UserKey, Op!TraceKey, Op!SpanKey}
     /\ \A u : x.key # ClosedKey(u)

LEMMA OpTurnSteps ==
  ASSUME NEW x, OpStep(x)
  PROVE  \/ x.do = "send" /\ x.span.what = "root" /\ x.span.of \in OpTurns
         \/ \E u \in OpTurns : x = Op!Set(ClosedKey(u), "1")
         \/ x = Op!Delete(Op!TraceKey)
         \/ x = Op!Delete(Op!SpanKey)
         \/ x = Op!Delete(Op!UserKey)
         \/ \E u \in OpTurns : x = Op!Set(Op!UserKey, u)
         \/ \E d \in Op!Drawn : x = Op!Set(Op!TraceKey, d)
         \/ \E d \in Op!Drawn : x = Op!Set(Op!SpanKey, d)
         \/ OpAside(x)
<1>k. /\ \A n, m : <<n, m>> \notin {Op!UserKey, Op!TraceKey, Op!SpanKey}
      /\ \A n, m, u : n # "closed_user" => <<n, m>> # ClosedKey(u)
      /\ Op!PendingKey \notin {Op!UserKey, Op!TraceKey, Op!SpanKey} /\ \A u : Op!PendingKey # ClosedKey(u)
  BY OpKeys DEF ClosedKey
<1>1. ASSUME NEW k, NEW v, x = Op!Set(k, v), k \notin {Op!UserKey, Op!TraceKey, Op!SpanKey}, \A u : k # ClosedKey(u)
      PROVE  OpAside(x)
  BY <1>1, OpFields DEF OpAside
<1>2. CASE \E s \in SUBSET Tasks : x = Op!Set(Op!PendingKey, s)
  BY <1>k, <1>1, <1>2
<1>3. CASE \E m \in Op!Messages : \/ \E n \in OpNames : \E d \in Op!Drawn : x = Op!Set(<<n, m>>, d)
                                  \/ \E n \in OpMarks : x = Op!Set(<<n, m>>, "1")
                                  \/ \E l \in OpLinks : x = Op!Set(LinkKey(m), l)
  <2>1. \E n, m, v : n # "closed_user" /\ x = Op!Set(<<n, m>>, v)
    BY <1>3 DEF OpNames, OpMarks, LinkKey
  <2> QED
    BY <1>k, <1>1, <2>1
<1>4. CASE x = Op!Delete(Op!PendingKey)
  BY <1>k, <1>4, OpFields DEF OpAside
<1>5. ASSUME x.do = "send", OpSpanOf(x.span)
      PROVE  (x.span.what = "root" /\ x.span.of \in OpTurns) \/ OpAside(x)
  <2>1. x.span.what = "root" \/ OpAside(x)
    BY <1>5 DEF OpAside
  <2>2. x.span.what = "root" => x.span.of \in OpTurns
    BY <1>5 DEF OpSpanOf, OpSpans
  <2> QED
    BY <2>1, <2>2
<1>6. CASE OpUpdate(x)
  BY <1>2, <1>3, <1>6 DEF OpUpdate
<1>7. CASE \E k \in {Op!UserKey, Op!TraceKey, Op!SpanKey, Op!PendingKey} : x = Op!Delete(k)
  BY <1>4, <1>7
<1> QED
  BY <1>5, <1>6, <1>7 DEF OpStep

(* What is due of the turn, and its rank.                                  *)
LEMMA OpTurnRanks ==
  ASSUME NEW x, OpDid(x)
  PROVE  /\ \A y \in OpDue' : y.do = "send" => OpRank(x, OpKind) < 5
         /\ \A u : OpWrites(ClosedKey(u), "1")' => OpRank(x, OpKind) < 6
         /\ OpDrops(Op!TraceKey)' => OpRank(x, OpKind) < 7
         /\ OpDrops(Op!SpanKey)' => OpRank(x, OpKind) < 8
         /\ OpDrops(Op!UserKey)' => OpRank(x, OpKind) < 9
         /\ \A u : OpWrites(Op!UserKey, u)' => OpRank(x, OpKind) < 10
         /\ \A d : OpWrites(Op!TraceKey, d)' => OpRank(x, OpKind) < 11
         /\ \A d : OpWrites(Op!SpanKey, d)' => OpRank(x, OpKind) < 12
<1>1. \A y \in OpDue' : OpRank(x, OpKind) < OpRank(y, OpKind)
  BY DEF OpDid
<1>2. \A y : y.do = "send" => OpRank(y, OpKind) = 5
  BY DEF OpRank
<1> QED
  BY <1>1, <1>2, OpRanks DEF OpWrites, OpDrops, ClosedKey

LEMMA OpTurnDone ==
  ASSUME NEW x, OpShape, OpStored, OpCloses, OpOpens, OpTurn, OpStep(x), OpDid(x)
  PROVE  OpCloses' /\ OpOpens' /\ OpTurn'
<1>d. \A y : y \in OpDue' <=> y \in OpDue /\ y # x
  BY DEF OpDid
<1>r. /\ \A y \in OpDue' : y.do = "send" => OpRank(x, OpKind) < 5
      /\ \A u : OpWrites(ClosedKey(u), "1")' => OpRank(x, OpKind) < 6
      /\ OpDrops(Op!TraceKey)' => OpRank(x, OpKind) < 7
      /\ OpDrops(Op!SpanKey)' => OpRank(x, OpKind) < 8
      /\ OpDrops(Op!UserKey)' => OpRank(x, OpKind) < 9
      /\ \A u : OpWrites(Op!UserKey, u)' => OpRank(x, OpKind) < 10
      /\ \A d : OpWrites(Op!TraceKey, d)' => OpRank(x, OpKind) < 11
      /\ \A d : OpWrites(Op!SpanKey, d)' => OpRank(x, OpKind) < 12
  BY OpTurnRanks
<1>n. None \notin OpTurns /\ None \notin Op!Drawn
  BY HarnessesAssumption DEF Op!OpencodeAssumption, OpTurns
<1>c. world'.crashes = world.crashes
  BY DEF OpDid
<1>f. /\ \A k, v, l : Op!Set(k, v) # Op!Delete(l)
      /\ \A k, v, s : Op!Set(k, v) # Op!Send(s)
      /\ \A k, l, v, w : Op!Set(k, v) = Op!Set(l, w) => k = l /\ v = w
      /\ \A k, l : Op!Delete(k) = Op!Delete(l) => k = l
      /\ \A k, s : Op!Delete(k) # Op!Send(s)
  BY OpFields
<1>k. \A v : ClosedKey(v) \notin {Op!UserKey, Op!TraceKey, Op!SpanKey}
  BY OpKeys DEF ClosedKey
<1>1. CASE x = Op!Delete(Op!TraceKey)
  <2>1. /\ OpTrace' = None /\ OpUser' = OpUser /\ OpSpan' = OpSpan
        /\ \A u : OpClosed(u)' <=> OpClosed(u)
    BY <1>1, OpReads, OpFields
  <2>2. sent' = sent
    BY <1>1, OpSpansSent, OpFields
  <2>3. OpRank(x, OpKind) = 7
    BY <1>1, OpRanks
  <2>4. /\ \A y \in OpDue' : y.do # "send"
        /\ \A u : ~OpWrites(ClosedKey(u), "1")'
        /\ ~OpDrops(Op!TraceKey)' /\ OpDrops(Op!TraceKey)
    BY <1>1, <1>r, <2>3 DEF OpDrops, OpDid
  <2>5. /\ OpDrops(Op!SpanKey)' <=> OpDrops(Op!SpanKey)
        /\ OpDrops(Op!UserKey)' <=> OpDrops(Op!UserKey)
        /\ \A k, v : OpWrites(k, v)' <=> OpWrites(k, v)
    BY <1>1, <1>d, <1>f, OpKeys DEF OpDrops, OpWrites
  <2>6. OpCloses'
    BY <2>1, <2>4, <2>5 DEF OpCloses
  <2>7. OpOpens'
    BY <2>1, <2>2, <2>4, <2>5 DEF OpCloses, OpOpens, OpNoUser, OpRooted, OpOpen
  <2>8. OpTurn'
    BY <1>c, <2>1, <2>2, <2>4, <2>5 DEF OpTurn, OpCloses, OpNoUser, OpOpen
  <2> QED
    BY <2>6, <2>7, <2>8
<1>2. CASE x = Op!Delete(Op!SpanKey)
  <2>1. /\ OpSpan' = None /\ OpUser' = OpUser /\ OpTrace' = OpTrace
        /\ \A u : OpClosed(u)' <=> OpClosed(u)
    BY <1>2, OpReads, OpFields
  <2>2. sent' = sent
    BY <1>2, OpSpansSent, OpFields
  <2>3. OpRank(x, OpKind) = 8
    BY <1>2, OpRanks
  <2>4. /\ \A y \in OpDue' : y.do # "send"
        /\ \A u : ~OpWrites(ClosedKey(u), "1")'
        /\ ~OpDrops(Op!TraceKey)' /\ ~OpDrops(Op!SpanKey)' /\ OpDrops(Op!SpanKey)
    BY <1>2, <1>r, <2>3 DEF OpDrops, OpDid
  <2>5. /\ ~OpDrops(Op!TraceKey)
        /\ OpDrops(Op!UserKey)' <=> OpDrops(Op!UserKey)
        /\ \A k, v : OpWrites(k, v)' <=> OpWrites(k, v)
    BY <1>2, <1>d, <1>f, <2>4, OpKeys DEF OpDrops, OpWrites
  <2>6. OpCloses'
    BY <2>1, <2>4, <2>5 DEF OpCloses
  <2>7. OpOpens'
    BY <2>1, <2>2, <2>4, <2>5 DEF OpCloses, OpOpens, OpNoUser, OpRooted, OpOpen
  <2>8. OpTurn'
    BY <1>c, <2>1, <2>2, <2>4, <2>5 DEF OpTurn, OpCloses, OpNoUser, OpOpen
  <2> QED
    BY <2>6, <2>7, <2>8
<1>3. CASE x = Op!Delete(Op!UserKey)
  <2>1. /\ OpUser' = None /\ OpSpan' = OpSpan /\ OpTrace' = OpTrace
        /\ \A u : OpClosed(u)' <=> OpClosed(u)
    BY <1>3, OpReads, OpFields
  <2>2. sent' = sent
    BY <1>3, OpSpansSent, OpFields
  <2>3. OpRank(x, OpKind) = 9
    BY <1>3, OpRanks
  <2>4. /\ \A y \in OpDue' : y.do # "send"
        /\ \A u : ~OpWrites(ClosedKey(u), "1")'
        /\ ~OpDrops(Op!TraceKey)' /\ ~OpDrops(Op!SpanKey)' /\ ~OpDrops(Op!UserKey)' /\ OpDrops(Op!UserKey)
    BY <1>3, <1>r, <2>3 DEF OpDrops, OpDid
  <2>5. /\ ~OpDrops(Op!TraceKey)
        /\ \A k, v : OpWrites(k, v)' <=> OpWrites(k, v)
    BY <1>3, <1>d, <1>f, <2>4, OpKeys DEF OpDrops, OpWrites
  <2>9. OpTrace = None
    BY <2>4, <2>5 DEF OpCloses
  <2>10. OpClosed(OpUser) /\ \A u : ~OpWrites(ClosedKey(u), "1")
    BY <2>4, <2>5 DEF OpCloses
  <2>6. OpCloses'
    BY <2>4 DEF OpCloses
  <2>7. OpOpens'
    BY <1>n, <2>1, <2>2, <2>4, <2>5, <2>9 DEF OpOpens, OpNoUser, OpRooted, OpOpen
  <2>8. OpTurn'
    BY <1>c, <1>n, <2>1, <2>2, <2>5, <2>9, <2>10 DEF OpTurn, OpNoUser, OpOpen
  <2> QED
    BY <2>6, <2>7, <2>8
<1>4. CASE \E u \in OpTurns : x = Op!Set(ClosedKey(u), "1")
  <2>0. PICK u \in OpTurns : x = Op!Set(ClosedKey(u), "1")
    BY <1>4
  <2>k. /\ ClosedKey(u) \notin {Op!UserKey, Op!TraceKey, Op!SpanKey}
        /\ \A v : ClosedKey(v) = ClosedKey(u) => v = u
    BY OpKeys DEF ClosedKey
  <2>1. /\ OpUser' = OpUser /\ OpSpan' = OpSpan /\ OpTrace' = OpTrace
        /\ \A v : OpClosed(v)' <=> OpClosed(v) \/ v = u
    BY <2>0, <2>k, OpReads, OpFields
  <2>2. sent' = sent
    BY <2>0, OpSpansSent, OpFields
  <2>3. OpRank(x, OpKind) = 6
    BY <2>0, OpPairRanks DEF ClosedKey
  <2>4. /\ \A y \in OpDue' : y.do # "send"
        /\ \A v : ~OpWrites(ClosedKey(v), "1")'
        /\ OpWrites(ClosedKey(u), "1")
    BY <2>0, <1>r, <2>3 DEF OpWrites, OpDid
  <2>5. /\ \A k : OpDrops(k)' <=> OpDrops(k)
        /\ \A k, v : k # ClosedKey(u) => (OpWrites(k, v)' <=> OpWrites(k, v))
    BY <2>0, <1>d, <1>f DEF OpDrops, OpWrites
  <2>9. /\ OpUser = u /\ OpOpen /\ OpDrops(Op!TraceKey) /\ OpDrops(Op!UserKey)
        /\ \A v \in OpTurns : v # u => ~OpWrites(ClosedKey(v), "1")
    BY <2>4 DEF OpCloses
  <2>6. OpCloses'
    BY <2>1, <2>4, <2>5, <2>9 DEF OpCloses
  <2>7. OpOpens'
    BY <2>k, <2>1, <2>2, <2>5, <2>9 DEF OpOpens, OpNoUser, OpRooted, OpOpen
  <2>8. OpTurn'
    <3>1. OpNoUser' <=> OpNoUser
      BY <2>k, <2>5 DEF OpNoUser
    <3>2. OpOpen' <=> OpOpen
      BY <2>1 DEF OpOpen
    <3>3. \A i \in DOMAIN sent : sent[i].what = "root" => sent[i].of \in OpTurns
      BY DEF OpShape, OpSpanOf, OpSpans
    <3> QED
      BY <1>c, <2>1, <2>2, <2>5, <2>9, <3>1, <3>2, <3>3 DEF OpTurn
  <2> QED
    BY <2>6, <2>7, <2>8
<1>5. CASE \E u \in OpTurns : x = Op!Set(Op!UserKey, u)
  <2>0. PICK u \in OpTurns : x = Op!Set(Op!UserKey, u)
    BY <1>5
  <2>1. /\ OpUser' = u /\ OpSpan' = OpSpan /\ OpTrace' = OpTrace
        /\ \A v : OpClosed(v)' <=> OpClosed(v)
    BY <1>k, <2>0, OpReads, OpFields
  <2>2. sent' = sent
    BY <2>0, OpSpansSent, OpFields
  <2>3. OpRank(x, OpKind) = 10
    BY <2>0, OpRanks
  <2>4. /\ \A y \in OpDue' : y.do # "send"
        /\ \A v : ~OpWrites(ClosedKey(v), "1")'
        /\ ~OpDrops(Op!TraceKey)' /\ ~OpDrops(Op!SpanKey)' /\ ~OpDrops(Op!UserKey)'
        /\ \A v : ~OpWrites(Op!UserKey, v)'
        /\ OpWrites(Op!UserKey, u)
    BY <2>0, <1>r, <2>3 DEF OpWrites, OpDid
  <2>5. /\ \A k : OpDrops(k)' <=> OpDrops(k)
        /\ \A k, v : k # Op!UserKey => (OpWrites(k, v)' <=> OpWrites(k, v))
    BY <2>0, <1>d, <1>f DEF OpDrops, OpWrites
  <2>9. /\ OpUser # u /\ ~OpClosed(u) /\ ~OpRooted(u) /\ ~OpOpen
        /\ \E d \in Op!Drawn : OpWrites(Op!TraceKey, d)
        /\ \A d \in Op!Drawn : OpWrites(Op!TraceKey, d) => d.of[2] = u
    BY <2>4, <2>5 DEF OpOpens
  <2>10. \A v : OpWrites(ClosedKey(v), "1")' <=> OpWrites(ClosedKey(v), "1")
    BY <2>5, OpKeys DEF ClosedKey
  <2>11. /\ \A d : OpWrites(Op!TraceKey, d)' <=> OpWrites(Op!TraceKey, d)
         /\ \A d : OpWrites(Op!SpanKey, d)' <=> OpWrites(Op!SpanKey, d)
    BY <2>5, OpKeys
  <2>6. OpCloses'
    BY <2>4 DEF OpCloses
  <2>7. OpOpens'
    BY <1>n, <2>1, <2>2, <2>4, <2>9, <2>11 DEF OpOpens, OpNoUser, OpRooted
  <2>8. OpTurn'
    BY <1>c, <1>n, <2>1, <2>2, <2>4, <2>9, <2>10, <2>11 DEF OpTurn, OpOpens, OpNoUser, OpOpen, OpRooted
  <2> QED
    BY <2>6, <2>7, <2>8
<1>6. CASE \E d \in Op!Drawn : x = Op!Set(Op!TraceKey, d)
  <2>0. PICK d \in Op!Drawn : x = Op!Set(Op!TraceKey, d)
    BY <1>6
  <2>1. /\ OpTrace' = d /\ OpSpan' = OpSpan /\ OpUser' = OpUser
        /\ \A v : OpClosed(v)' <=> OpClosed(v)
    BY <1>k, <2>0, OpReads, OpFields
  <2>2. sent' = sent
    BY <2>0, OpSpansSent, OpFields
  <2>3. OpRank(x, OpKind) = 11
    BY <2>0, OpRanks
  <2>4. /\ \A y \in OpDue' : y.do # "send"
        /\ \A v : ~OpWrites(ClosedKey(v), "1")'
        /\ ~OpDrops(Op!TraceKey)' /\ ~OpDrops(Op!SpanKey)' /\ ~OpDrops(Op!UserKey)'
        /\ \A v : ~OpWrites(Op!UserKey, v)' /\ ~OpWrites(Op!TraceKey, v)'
        /\ OpWrites(Op!TraceKey, d)
    BY <2>0, <1>r, <2>3 DEF OpWrites, OpDid
  <2>5. /\ \A k : OpDrops(k)' <=> OpDrops(k)
        /\ \A k, v : k # Op!TraceKey => (OpWrites(k, v)' <=> OpWrites(k, v))
    BY <2>0, <1>d, <1>f DEF OpDrops, OpWrites
  <2>10. \A v : /\ OpWrites(Op!UserKey, v)' <=> OpWrites(Op!UserKey, v)
                /\ OpWrites(Op!SpanKey, v)' <=> OpWrites(Op!SpanKey, v)
                /\ OpWrites(ClosedKey(v), "1")' <=> OpWrites(ClosedKey(v), "1")
    BY <2>5, OpKeys DEF ClosedKey
  <2>9. /\ OpNoUser /\ d.of[2] = OpUser
        /\ \E e \in Op!Drawn : OpWrites(Op!SpanKey, e)
        /\ OpUser # None /\ ~OpClosed(OpUser) /\ ~OpRooted(OpUser)
    BY <2>4, <2>10 DEF OpOpens, OpNoUser
  <2>6. OpCloses'
    BY <2>4 DEF OpCloses
  <2>7. OpOpens'
    BY <1>n, <2>1, <2>2, <2>4, <2>9, <2>10 DEF OpOpens, OpNoUser, OpRooted
  <2>8. OpTurn'
    BY <1>c, <1>n, <2>1, <2>2, <2>4, <2>9, <2>10 DEF OpTurn, OpNoUser, OpRooted
  <2> QED
    BY <2>6, <2>7, <2>8
<1>7. CASE \E d \in Op!Drawn : x = Op!Set(Op!SpanKey, d)
  <2>0. PICK d \in Op!Drawn : x = Op!Set(Op!SpanKey, d)
    BY <1>7
  <2>1. /\ OpSpan' = d /\ OpTrace' = OpTrace /\ OpUser' = OpUser
        /\ \A v : OpClosed(v)' <=> OpClosed(v)
    BY <1>k, <2>0, OpReads, OpFields
  <2>2. sent' = sent
    BY <2>0, OpSpansSent, OpFields
  <2>3. OpRank(x, OpKind) = 12
    BY <2>0, OpRanks
  <2>4. /\ \A y \in OpDue' : y.do # "send"
        /\ \A v : ~OpWrites(ClosedKey(v), "1")'
        /\ ~OpDrops(Op!TraceKey)' /\ ~OpDrops(Op!SpanKey)' /\ ~OpDrops(Op!UserKey)'
        /\ \A v : ~OpWrites(Op!UserKey, v)' /\ ~OpWrites(Op!TraceKey, v)' /\ ~OpWrites(Op!SpanKey, v)'
        /\ OpWrites(Op!SpanKey, d)
    BY <2>0, <1>r, <2>3 DEF OpWrites, OpDid
  <2>5. /\ \A k : OpDrops(k)' <=> OpDrops(k)
        /\ \A k, v : k # Op!SpanKey => (OpWrites(k, v)' <=> OpWrites(k, v))
    BY <2>0, <1>d, <1>f DEF OpDrops, OpWrites
  <2>10. \A v : /\ OpWrites(Op!UserKey, v)' <=> OpWrites(Op!UserKey, v)
                /\ OpWrites(Op!TraceKey, v)' <=> OpWrites(Op!TraceKey, v)
                /\ OpWrites(ClosedKey(v), "1")' <=> OpWrites(ClosedKey(v), "1")
    BY <2>5, OpKeys DEF ClosedKey
  <2>9. /\ OpNoUser /\ OpTrace # None /\ OpTrace.of[2] = OpUser
        /\ OpUser # None /\ ~OpClosed(OpUser) /\ ~OpRooted(OpUser)
    BY <2>4, <2>10 DEF OpOpens, OpNoUser
  <2>6. OpCloses'
    BY <2>4 DEF OpCloses
  <2>7. OpOpens'
    BY <2>4 DEF OpOpens
  <2>8. OpTurn'
    BY <1>c, <1>n, <2>1, <2>2, <2>4, <2>9, <2>10 DEF OpTurn, OpOpen, OpNoUser, OpRooted
  <2> QED
    BY <2>6, <2>7, <2>8
<1>8. CASE x.do = "send" /\ x.span.what = "root" /\ x.span.of \in OpTurns
  <2>1. /\ OpSpan' = OpSpan /\ OpTrace' = OpTrace /\ OpUser' = OpUser
        /\ \A v : OpClosed(v)' <=> OpClosed(v)
    BY <1>8, OpReads
  <2>2. \A i \in DOMAIN sent' : (i \in DOMAIN sent /\ sent'[i] = sent[i]) \/ sent'[i] = x.span
    BY <1>8, OpSpansSent
  <2>3. OpRank(x, OpKind) = 5 /\ x \in OpDue
    BY <1>8 DEF OpRank, OpDid
  <2>4. \A y \in OpDue' : y.do # "send"
    BY <1>r, <2>3
  <2>5. /\ \A k : OpDrops(k)' <=> OpDrops(k)
        /\ \A k, v : OpWrites(k, v)' <=> OpWrites(k, v)
    BY <1>8, <1>d, OpFields DEF OpDrops, OpWrites
  <2>9. /\ x.span.of = OpUser /\ x.span.id = OpSpan /\ x.span.trace = OpTrace /\ OpOpen
        /\ OpWrites(ClosedKey(OpUser), "1") /\ OpUser \in OpTurns
        /\ OpDrops(Op!TraceKey) /\ OpDrops(Op!UserKey)
    BY <1>8, <2>3 DEF OpCloses
  <2>10. \A u : OpRooted(u)' => OpRooted(u) \/ u = OpUser
    BY <2>2, <2>9 DEF OpRooted
  <2>11. (OpNoUser' <=> OpNoUser) /\ (OpOpen' <=> OpOpen)
    BY <2>1, <2>5 DEF OpNoUser, OpOpen
  <2>6. OpCloses'
    BY <2>1, <2>4, <2>5, <2>11 DEF OpCloses
  <2>7. OpOpens'
    BY <2>1, <2>5, <2>9, <2>10, <2>11 DEF OpOpens
  <2>8. OpTurn'
    BY <1>c, <2>1, <2>2, <2>5, <2>9, <2>11 DEF OpTurn
  <2> QED
    BY <2>6, <2>7, <2>8
<1>9. CASE OpAside(x)
  <2>1. /\ OpSpan' = OpSpan /\ OpTrace' = OpTrace /\ OpUser' = OpUser
        /\ \A v : OpClosed(v)' <=> OpClosed(v)
    BY <1>9, OpReads DEF OpAside
  <2>2. /\ \A i \in DOMAIN sent' : sent'[i].what = "root" => i \in DOMAIN sent /\ sent'[i] = sent[i]
        /\ \A i \in DOMAIN sent : i \in DOMAIN sent' /\ sent'[i] = sent[i]
    BY <1>9, OpSpansSent DEF OpAside
  <2>3. \A y : y \in OpDue' => y \in OpDue
    BY <1>d
  <2>4. \A k, v : (k \in {Op!UserKey, Op!TraceKey, Op!SpanKey} \/ \E u : k = ClosedKey(u)) =>
          (OpWrites(k, v)' <=> OpWrites(k, v)) /\ (OpDrops(k)' <=> OpDrops(k))
    BY <1>9, <1>d, OpFields DEF OpAside, OpWrites, OpDrops
  <2>5. /\ OpDrops(Op!TraceKey)' <=> OpDrops(Op!TraceKey)
        /\ OpDrops(Op!SpanKey)' <=> OpDrops(Op!SpanKey)
        /\ OpDrops(Op!UserKey)' <=> OpDrops(Op!UserKey)
        /\ \A v : /\ OpWrites(Op!UserKey, v)' <=> OpWrites(Op!UserKey, v)
                  /\ OpWrites(Op!TraceKey, v)' <=> OpWrites(Op!TraceKey, v)
                  /\ OpWrites(Op!SpanKey, v)' <=> OpWrites(Op!SpanKey, v)
                  /\ OpWrites(ClosedKey(v), "1")' <=> OpWrites(ClosedKey(v), "1")
    BY <2>4
  <2>10. \A u : OpRooted(u)' <=> OpRooted(u)
    BY <2>2 DEF OpRooted
  <2>11. (OpNoUser' <=> OpNoUser) /\ (OpOpen' <=> OpOpen)
    BY <2>1, <2>5 DEF OpNoUser, OpOpen
  <2>6. OpCloses'
    BY <2>1, <2>3, <2>5, <2>11 DEF OpCloses
  <2>7. OpOpens'
    BY <2>1, <2>5, <2>10, <2>11 DEF OpOpens
  <2>8. OpTurn'
    BY <1>c, <2>1, <2>2, <2>5, <2>11 DEF OpTurn
  <2> QED
    BY <2>6, <2>7, <2>8
<1> QED
  BY <1>1, <1>2, <1>3, <1>4, <1>5, <1>6, <1>7, <1>8, <1>9, OpTurnSteps

-----------------------------------------------------------------------------
(* Ids, marks and places *)

(* What is written under which key.                                        *)
LEMMA OpValues ==
  ASSUME NEW x, OpUpdate(x)
  PROVE  /\ x.key = Op!UserKey => x.val \in OpTurns
         /\ x.key \in {Op!TraceKey, Op!SpanKey} => x.val \in Op!Drawn
         /\ x.key = Op!PendingKey => x.val \subseteq Tasks
         /\ \A n \in OpNames : \A m : x.key = <<n, m>> => x.val \in Op!Drawn /\ m \in Op!Messages
         /\ \A m : x.key = LinkKey(m) => x.val \in OpLinks /\ m \in Op!Messages
         /\ \A n \in OpMarks : \A m : x.key = <<n, m>> => x.val = "1" /\ m \in Op!Messages
<1>f. \A k, v : LET y == Op!Set(k, v) IN y.key = k /\ y.val = v
  BY OpFields
<1>k. /\ \A n, m, k, l : <<n, m>> = <<k, l>> => n = k /\ m = l
      /\ \A m : LinkKey(m) = <<"tool_link", m>> /\ ClosedKey(m) = <<"closed_user", m>>
  BY DEF LinkKey, ClosedKey
<1>1. CASE \E u \in OpTurns : x = Op!Set(Op!UserKey, u)
  BY <1>f, <1>k, <1>1, OpKeys DEF OpMarks
<1>2. CASE \E u \in OpTurns : x = Op!Set(ClosedKey(u), "1")
  BY <1>f, <1>k, <1>2, OpKeys DEF OpNames, OpMarks
<1>3. CASE \E d \in Op!Drawn : x = Op!Set(Op!TraceKey, d) \/ x = Op!Set(Op!SpanKey, d)
  BY <1>f, <1>k, <1>3, OpKeys DEF OpMarks
<1>4. CASE \E s \in SUBSET Tasks : x = Op!Set(Op!PendingKey, s)
  BY <1>f, <1>k, <1>4, OpKeys DEF OpMarks
<1>5. CASE \E m \in Op!Messages : \E n \in OpNames : \E d \in Op!Drawn : x = Op!Set(<<n, m>>, d)
  BY <1>f, <1>k, <1>5, OpKeys DEF OpNames, OpMarks
<1>6. CASE \E m \in Op!Messages : \E n \in OpMarks : x = Op!Set(<<n, m>>, "1")
  BY <1>f, <1>k, <1>6, OpKeys DEF OpNames, OpMarks
<1>7. CASE \E m \in Op!Messages : \E l \in OpLinks : x = Op!Set(LinkKey(m), l)
  BY <1>f, <1>k, <1>7, OpKeys DEF OpNames, OpMarks
<1> QED
  BY <1>1, <1>2, <1>3, <1>4, <1>5, <1>6, <1>7 DEF OpUpdate

(* What a step does to a key of a message or a prompt.                     *)
LEMMA OpPairs ==
  ASSUME NEW x, OpStep(x), OpDid(x)
  PROVE  /\ \A n, m : Op!Has(store', <<n, m>>) <=> Op!Has(store, <<n, m>>) \/ (x.do = "set" /\ x.key = <<n, m>>)
         /\ \A n, m : Op!Has(store, <<n, m>>) /\ ~(x.do = "set" /\ x.key = <<n, m>>) =>
              store'[<<n, m>>] = store[<<n, m>>]
         /\ x.do = "set" => store'[x.key] = x.val
<1>1. CASE x.do = "set"
  <2>1. store' = Op!Put(store, x.key, x.val)
    BY <1>1 DEF OpDid
  <2> QED
    BY <1>1, <2>1, OpPut
<1>2. CASE x.do = "delete"
  <2>1. store' = Op!Drop(store, {x.key})
    BY <1>2 DEF OpDid
  <2>2. \A n, m : <<n, m>> # x.key
    BY <1>2, OpKinds, OpKeys
  <2> QED
    BY <1>2, <2>1, <2>2, OpDrop
<1>3. CASE x.do = "send"
  BY <1>3 DEF OpDid
<1> QED
  BY <1>1, <1>2, <1>3 DEF OpDid

LEMMA OpFinalizers ==
  ASSUME NEW x, OpStep(x), OpDid(x)
  PROVE  /\ x.do = "set" /\ x.key = Op!PendingKey => Op!Finalizers' = x.val
         /\ x.do = "delete" /\ x.key = Op!PendingKey => Op!Finalizers' = {}
         /\ x.do = "send" \/ x.key # Op!PendingKey => Op!Finalizers' = Op!Finalizers
<1>1. CASE x.do = "set"
  <2>1. store' = Op!Put(store, x.key, x.val)
    BY <1>1 DEF OpDid
  <2> QED
    BY <1>1, <2>1, OpPut DEF Op!Finalizers
<1>2. CASE x.do = "delete"
  <2>1. store' = Op!Drop(store, {x.key})
    BY <1>2 DEF OpDid
  <2> QED
    BY <1>2, <2>1, OpDrop DEF Op!Finalizers
<1>3. CASE x.do = "send"
  BY <1>3 DEF OpDid, Op!Finalizers
<1> QED
  BY <1>1, <1>2, <1>3 DEF OpDid

LEMMA OpStoredDone ==
  ASSUME NEW x, OpStored, OpStep(x), OpDid(x)
  PROVE  OpStored'
<1>1. /\ OpUser' # None => OpUser' \in OpTurns
      /\ OpTrace' # None => OpTrace' \in Op!Drawn
      /\ OpSpan' # None => OpSpan' \in Op!Drawn
  <2>1. CASE x.do = "set" /\ x.key \in {Op!UserKey, Op!TraceKey, Op!SpanKey}
    <3>1. OpUpdate(x)
      BY <2>1, OpKinds
    <3> QED
      BY <2>1, <3>1, OpValues, OpReads DEF OpStored
  <2>2. CASE x.do = "delete" /\ x.key \in {Op!UserKey, Op!TraceKey, Op!SpanKey}
    BY <2>2, OpReads DEF OpStored
  <2>3. CASE x.do = "send" \/ x.key \notin {Op!UserKey, Op!TraceKey, Op!SpanKey}
    BY <2>3, OpReads DEF OpStored
  <2> QED
    BY <2>1, <2>2, <2>3, OpKinds
<1>2. ASSUME NEW m \in Op!Messages, NEW n \in OpNames, Op!Has(store', <<n, m>>)
      PROVE  store'[<<n, m>>] \in Op!Drawn
  <2>1. CASE x.do = "set" /\ x.key = <<n, m>>
    <3>1. OpUpdate(x)
      BY <2>1, OpKinds
    <3> QED
      BY <2>1, <3>1, OpValues, OpPairs
  <2>2. CASE ~(x.do = "set" /\ x.key = <<n, m>>)
    <3>1. Op!Has(store, <<n, m>>) /\ store'[<<n, m>>] = store[<<n, m>>]
      BY <1>2, <2>2, OpPairs
    <3> QED
      BY <3>1 DEF OpStored
  <2> QED
    BY <2>1, <2>2
<1>3. ASSUME NEW m \in Op!Messages, Op!Has(store', LinkKey(m))
      PROVE  store'[LinkKey(m)] \in OpLinks
  <2>1. CASE x.do = "set" /\ x.key = LinkKey(m)
    <3>1. OpUpdate(x)
      BY <2>1, OpKinds
    <3> QED
      BY <2>1, <3>1, OpValues, OpPairs
  <2>2. CASE ~(x.do = "set" /\ x.key = LinkKey(m))
    <3>1. Op!Has(store, LinkKey(m)) /\ store'[LinkKey(m)] = store[LinkKey(m)]
      BY <1>3, <2>2, OpPairs DEF LinkKey
    <3> QED
      BY <3>1 DEF OpStored
  <2> QED
    BY <2>1, <2>2
<1>4. Op!Finalizers' \subseteq Tasks
  <2>1. CASE x.do = "set" /\ x.key = Op!PendingKey
    <3>1. OpUpdate(x)
      BY <2>1, OpKinds
    <3> QED
      BY <2>1, <3>1, OpValues, OpFinalizers
  <2>2. CASE ~(x.do = "set" /\ x.key = Op!PendingKey)
    BY <2>2, OpFinalizers, OpKinds DEF OpStored
  <2> QED
    BY <2>1, <2>2
<1> QED
  BY <1>1, <1>2, <1>3, <1>4 DEF OpStored

LEMMA OpEarly ==
  ASSUME NEW kind, NEW n \in OpNames, NEW m, NEW v
  PROVE  OpRank(Op!Set(<<n, m>>, v), kind) \in {1, 2}
BY OpPairRanks DEF OpNames

LEMMA OpReservedDone ==
  ASSUME NEW x, OpShape, OpReserved, OpStep(x), OpDid(x)
  PROVE  OpReserved'
<1>i. \A s : \E n \in OpNames : OpIdKey(s) = <<n, s.of>>
  BY DEF OpIdKey, OpNames
<1>d. \A y \in OpDue' : y \in OpDue /\ y # x /\ OpRank(x, OpKind) < OpRank(y, OpKind)
  BY DEF OpDid
<1>x. x \in OpDue
  BY DEF OpDid
<1>1. ASSUME NEW s, Op!Has(store, OpIdKey(s))
      PROVE  Op!Has(store', OpIdKey(s)) /\ store'[OpIdKey(s)] = store[OpIdKey(s)]
  <2>1. PICK n \in OpNames : OpIdKey(s) = <<n, s.of>>
    BY <1>i
  <2>2. <<n, s.of>>[1] = n
    OBVIOUS
  <2>3. ~(x.do = "set" /\ x.key = <<n, s.of>>)
    BY <1>1, <1>x, <2>1, <2>2 DEF OpReserved
  <2> QED
    BY <1>1, <2>1, <2>3, OpPairs
<1>2. ASSUME NEW i \in DOMAIN sent', sent'[i].what # "root"
      PROVE  Op!Has(store', OpIdKey(sent'[i])) /\ store'[OpIdKey(sent'[i])] = sent'[i].id
  <2>1. CASE i \in DOMAIN sent /\ sent'[i] = sent[i]
    BY <1>1, <1>2, <2>1 DEF OpReserved
  <2>2. CASE x.do = "send" /\ sent'[i] = x.span
    <3>1. ~OpWrites(OpIdKey(x.span), x.span.id)
      <4>1. PICK n \in OpNames : OpIdKey(x.span) = <<n, x.span.of>>
        BY <1>i
      <4> DEFINE y == Op!Set(<<n, x.span.of>>, x.span.id)
      <4>2. OpRank(y, OpKind) \in {1, 2} /\ y # x
        BY <2>2, OpEarly, OpFields
      <4>3. OpRank(x, OpKind) = 5
        BY <2>2 DEF OpRank
      <4>4. y \notin OpDue
        <5>1. y \in OpDue => y \in OpDue'
          BY <4>2 DEF OpDid
        <5> HIDE DEF y
        <5> QED
          BY <1>d, <4>2, <4>3, <5>1
      <4> QED
        BY <4>1, <4>4 DEF OpWrites
    <3>2. Op!Has(store, OpIdKey(x.span)) /\ store[OpIdKey(x.span)] = x.span.id
      BY <1>2, <1>x, <2>2, <3>1 DEF OpReserved
    <3> QED
      BY <1>1, <2>2, <3>2
  <2> QED
    BY <2>1, <2>2, OpSpansSent
<1>3. ASSUME NEW y \in OpDue', y.do = "send", y.span.what # "root"
      PROVE  \/ Op!Has(store', OpIdKey(y.span)) /\ store'[OpIdKey(y.span)] = y.span.id
             \/ OpWrites(OpIdKey(y.span), y.span.id)'
  <2>1. y \in OpDue
    BY <1>d
  <2>2. CASE Op!Has(store, OpIdKey(y.span)) /\ store[OpIdKey(y.span)] = y.span.id
    BY <1>1, <2>2
  <2>3. CASE OpWrites(OpIdKey(y.span), y.span.id)
    <3>1. CASE x = Op!Set(OpIdKey(y.span), y.span.id)
      <4>1. PICK n \in OpNames : OpIdKey(y.span) = <<n, y.span.of>>
        BY <1>i
      <4>2. x.do = "set" /\ x.key = <<n, y.span.of>> /\ x.val = y.span.id
        BY <3>1, <4>1, OpFields
      <4> QED
        BY <4>1, <4>2, OpPairs
    <3>2. CASE x # Op!Set(OpIdKey(y.span), y.span.id)
      <4>1. Op!Set(OpIdKey(y.span), y.span.id) \in OpDue'
        BY <2>3, <3>2 DEF OpWrites, OpDid
      <4> QED
        BY <4>1 DEF OpWrites
    <3> QED
      BY <3>1, <3>2
  <2> QED
    BY <1>3, <2>1, <2>2, <2>3 DEF OpReserved
<1>4. ASSUME NEW y \in OpDue', y.do = "set", y.key[1] \in OpNames
      PROVE  ~Op!Has(store', y.key)
  <2>1. y \in OpDue /\ ~Op!Has(store, y.key)
    BY <1>d, <1>4 DEF OpReserved
  <2>2. OpStep(y)
    BY <2>1 DEF OpShape
  <2>3. x.do = "set" => x.key # y.key
    <3>1. x.do = "set" /\ x.key = y.key => OpRank(x, OpKind) = OpRank(y, OpKind)
      BY <1>4 DEF OpRank
    <3>2. OpRank(y, OpKind) \in Nat
      BY DEF OpRank
    <3> QED
      BY <1>d, <3>1, <3>2
  <2>4. CASE x.do = "set"
    <3>1. store' = Op!Put(store, x.key, x.val)
      BY <2>4 DEF OpDid
    <3> QED
      BY <2>1, <2>3, <2>4, <3>1, OpPut
  <2>5. CASE x.do = "delete"
    <3>1. store' = Op!Drop(store, {x.key})
      BY <2>5 DEF OpDid
    <3> QED
      BY <2>1, <3>1, OpDrop
  <2> QED
    BY <2>1, <2>4, <2>5 DEF OpDid
<1> QED
  BY <1>2, <1>3, <1>4 DEF OpReserved

LEMMA OpMarkedDone ==
  ASSUME NEW x, OpShape, OpMarked, OpStep(x), OpDid(x)
  PROVE  OpMarked'
<1> SUFFICES ASSUME world'.crashes = 0
             PROVE  OpMarked'
  BY DEF OpMarked
<1>c. world.crashes = 0
  BY DEF OpDid
<1>d. \A y \in OpDue' : y \in OpDue /\ y # x /\ OpRank(x, OpKind) < OpRank(y, OpKind)
  BY DEF OpDid
<1>x. x \in OpDue
  BY DEF OpDid
<1>m. \A s : \E n : OpMark(s) = <<n, s.of>>
  BY DEF OpMark
<1>1. ASSUME NEW s, Op!Has(store, OpMark(s)) \/ OpWrites(OpMark(s), "1")
      PROVE  Op!Has(store', OpMark(s)) \/ OpWrites(OpMark(s), "1")'
  <2>1. PICK n : OpMark(s) = <<n, s.of>>
    BY <1>m
  <2>2. CASE Op!Has(store, OpMark(s))
    BY <2>1, <2>2, OpPairs
  <2>3. CASE x = Op!Set(OpMark(s), "1")
    <3>1. x.do = "set" /\ x.key = <<n, s.of>>
      BY <2>1, <2>3, OpFields
    <3> QED
      BY <2>1, <3>1, OpPairs
  <2>4. CASE OpWrites(OpMark(s), "1") /\ x # Op!Set(OpMark(s), "1")
    <3>1. Op!Set(OpMark(s), "1") \in OpDue'
      BY <2>4 DEF OpWrites, OpDid
    <3> QED
      BY <3>1 DEF OpWrites
  <2> QED
    BY <1>1, <2>2, <2>3, <2>4
<1>2. ASSUME NEW s, x.do = "send", OpWrites(OpMark(s), "1")
      PROVE  OpWrites(OpMark(s), "1")'
  <2>1. Op!Set(OpMark(s), "1") \in OpDue'
    BY <1>2, OpFields DEF OpWrites, OpDid
  <2> QED
    BY <2>1 DEF OpWrites
<1>3. ASSUME NEW i \in DOMAIN sent', sent'[i].what # "root"
      PROVE  Op!Has(store', OpMark(sent'[i])) \/ OpWrites(OpMark(sent[i]), "1")'
  <2>1. CASE i \in DOMAIN sent /\ sent'[i] = sent[i]
    <3>1. Op!Has(store, OpMark(sent[i])) \/ OpWrites(OpMark(sent[i]), "1")
      BY <1>c, <1>3, <2>1 DEF OpMarked
    <3> DEFINE s == sent[i]
    <3>2. \A t : t = s => Op!Has(store', OpMark(t)) \/ OpWrites(OpMark(t), "1")'
      BY <1>1, <3>1
    <3> HIDE DEF s
    <3>3. sent'[i] = s
      BY <2>1 DEF s
    <3> QED
      BY <3>2, <3>3
  <2>2. CASE x.do = "send" /\ sent'[i] = x.span
    <3>1. OpWrites(OpMark(x.span), "1")
      BY <1>c, <1>x, <1>3, <2>2 DEF OpMarked
    <3>2. OpWrites(OpMark(x.span), "1")'
      BY <1>2, <2>2, <3>1
    <3>3. \A t : t = x.span => OpWrites(OpMark(t), "1")'
      BY <3>2
    <3> QED
      BY <2>2, <3>3
  <2> QED
    BY <2>1, <2>2, OpSpansSent
<1>4. ASSUME NEW y \in OpDue', y.do = "send", y.span.what # "root"
      PROVE  OpWrites(OpMark(y.span), "1")'
  <2>1. OpWrites(OpMark(y.span), "1")
    BY <1>c, <1>d, <1>4 DEF OpMarked
  <2>2. \E n \in OpMarks : OpMark(y.span) = <<n, y.span.of>>
    BY DEF OpMark, OpMarks
  <2>3. OpRank(y, OpKind) = 5 /\ OpRank(Op!Set(OpMark(y.span), "1"), OpKind) = 7
    BY <1>4, <2>2, OpRanks DEF OpRank, OpMarks
  <2>4. OpRank(x, OpKind) < 5
    BY <1>d, <1>4, <2>3
  <2>5. Op!Set(OpMark(y.span), "1") # x
    BY <2>3, <2>4
  <2>6. Op!Set(OpMark(y.span), "1") \in OpDue'
    BY <2>1, <2>5 DEF OpWrites, OpDid
  <2> QED
    BY <2>6 DEF OpWrites
<1>5. ASSUME NEW y \in OpDue', y.do = "send", NEW i \in DOMAIN sent'
      PROVE  ~(sent'[i].what = y.span.what /\ sent'[i].of = y.span.of)
  <2>1. OpRank(y, OpKind) = 5 /\ OpRank(x, OpKind) < OpRank(y, OpKind)
    BY <1>d, <1>5 DEF OpRank
  <2>2. x.do # "send"
    BY <2>1 DEF OpRank
  <2>3. sent' = sent
    BY <2>2, OpSpansSent
  <2> QED
    BY <1>c, <1>d, <1>5, <2>3 DEF OpMarked
<1>6. ASSUME NEW i \in DOMAIN sent', NEW j \in DOMAIN sent', sent'[i].what = sent'[j].what, sent'[i].of = sent'[j].of
      PROVE  i = j
  <2>1. \A k \in DOMAIN sent' : k \notin DOMAIN sent => x.do = "send" /\ k = Len(sent) + 1 /\ sent'[k] = x.span
    BY OpSpansSent
  <2>2. CASE i \in DOMAIN sent /\ j \in DOMAIN sent
    BY <1>c, <1>6, <2>2, OpSpansSent DEF OpMarked
  <2>3. CASE i \notin DOMAIN sent /\ j \notin DOMAIN sent
    BY <2>1, <2>3
  <2>4. CASE i \in DOMAIN sent /\ j \notin DOMAIN sent
    BY <1>c, <1>x, <1>6, <2>1, <2>4, OpSpansSent DEF OpMarked
  <2>5. CASE i \notin DOMAIN sent /\ j \in DOMAIN sent
    BY <1>c, <1>x, <1>6, <2>1, <2>5, OpSpansSent DEF OpMarked
  <2> QED
    BY <2>2, <2>3, <2>4, <2>5
<1> QED
  BY <1>3, <1>4, <1>5, <1>6 DEF OpMarked

LEMMA OpPlacesDone ==
  ASSUME NEW x, OpShape, OpPlaces, OpStep(x), OpDid(x)
  PROVE  OpPlaces'
<1> SUFFICES ASSUME world'.crashes = 0
             PROVE  OpPlaces'
  BY DEF OpPlaces
<1>c. world.crashes = 0
  BY DEF OpDid
<1>d. (\A y \in OpDue' : y \in OpDue) /\ x \in OpDue
  BY DEF OpDid
<1>1. \A trace, t : OpInPlace(trace, t) => OpInPlace(trace, t)'
  BY OpReads DEF OpInPlace
<1>2. ASSUME NEW i \in DOMAIN sent', sent'[i].what # "root"
      PROVE  OpInPlace(sent[i].trace, sent[i].of.turn)'
  <2> DEFINE s == sent'[i]
  <2>1. OpInPlace(s.trace, s.of.turn)
    BY <1>c, <1>d, <1>2, OpSpansSent DEF OpPlaces
  <2>2. \A u : u = s => OpInPlace(u.trace, u.of.turn)'
    BY <1>1, <2>1
  <2> QED
    BY <2>2 DEF OpInPlace
<1>3. ASSUME NEW y \in OpDue', y.do = "send", y.span.what # "root"
      PROVE  OpInPlace(y.span.trace, y.span.of.turn)'
  BY <1>c, <1>d, <1>1, <1>3 DEF OpPlaces
<1>4. ASSUME NEW m \in Op!Messages, Op!Has(store', LinkKey(m))
      PROVE  OpInPlace(store[LinkKey(m)].trace, m.turn)'
  <2>1. CASE x.do = "set" /\ x.key = LinkKey(m)
    <3>1. store'[LinkKey(m)] = x.val
      BY <2>1, OpPairs
    <3>2. OpInPlace(x.val.trace, m.turn)'
      BY <1>c, <1>d, <1>1, <2>1 DEF OpPlaces
    <3> QED
      BY <3>1, <3>2 DEF OpInPlace
  <2>2. CASE ~(x.do = "set" /\ x.key = LinkKey(m))
    <3>1. Op!Has(store, LinkKey(m)) /\ store'[LinkKey(m)] = store[LinkKey(m)]
      BY <1>4, <2>2, OpPairs DEF LinkKey
    <3>2. OpInPlace(store[LinkKey(m)].trace, m.turn)
      BY <1>c, <3>1 DEF OpPlaces
    <3>3. \A l : l = store[LinkKey(m)] => OpInPlace(l.trace, m.turn)'
      BY <1>1, <3>2
    <3> QED
      BY <3>1, <3>3 DEF OpInPlace
  <2> QED
    BY <2>1, <2>2
<1>5. ASSUME NEW m \in Op!Messages, NEW y \in OpDue', y.do = "set", y.key = LinkKey(m)
      PROVE  OpInPlace(y.val.trace, m.turn)'
  BY <1>c, <1>d, <1>1, <1>5 DEF OpPlaces
<1> QED
  BY <1>2, <1>3, <1>4, <1>5 DEF OpPlaces

LEMMA OpLate ==
  ASSUME OpFinal, NEW x, x.do \in {"set", "delete"}, x.key = Op!PendingKey
  PROVE  OpRank(x, OpKind) = 13
BY OpKeys DEF OpRank, OpKind

LEMMA OpChildrenDone ==
  ASSUME NEW x, OpShape, OpChildren, OpStep(x), OpDid(x)
  PROVE  OpChildren' /\ \A m \in Tasks : OpCovered(m) => OpCovered(m)'
<1>d. /\ \A y : y \in OpDue' <=> y \in OpDue /\ y # x
      /\ \A y \in OpDue' : OpRank(x, OpKind) < OpRank(y, OpKind)
      /\ x \in OpDue /\ OpFinal' = OpFinal
  BY DEF OpDid
<1>s. /\ \A i \in DOMAIN sent : i \in DOMAIN sent' /\ sent'[i] = sent[i]
      /\ \A i \in DOMAIN sent' : i \in DOMAIN sent \/ (x.do = "send" /\ sent'[i] = x.span)
      /\ x.do = "send" => \E i \in DOMAIN sent' : sent'[i] = x.span
  BY OpSpansSent
<1>1. ASSUME NEW m
      PROVE  /\ OpAgent(m) => OpAgent(m)'
             /\ OpSends("agent", m) => OpSends("agent", m)' \/ OpAgent(m)'
  <2>1. OpAgent(m) => OpAgent(m)'
    BY <1>s DEF OpAgent
  <2>2. x.do = "send" /\ x.span.what = "agent" /\ x.span.of = m => OpAgent(m)'
    BY <1>s DEF OpAgent
  <2>3. OpSends("agent", m) => OpSends("agent", m)' \/ (x.do = "send" /\ x.span.what = "agent" /\ x.span.of = m)
    BY <1>d DEF OpSends
  <2> QED
    BY <2>1, <2>2, <2>3
<1>2. ASSUME NEW m, x.do # "send", OpRank(x, OpKind) > 5
      PROVE  ~OpSends("agent", m)
  <2>1. \A y : y.do = "send" => OpRank(y, OpKind) = 5
    BY DEF OpRank
  <2>2. OpRank(x, OpKind) \in Nat
    BY DEF OpRank
  <2> QED
    BY <1>2, <1>d, <2>1, <2>2 DEF OpSends
<1>p. x.do \in {"set", "delete"} /\ x.key = Op!PendingKey /\ OpFinal => OpRank(x, OpKind) > 5
  <2> SUFFICES ASSUME x.do \in {"set", "delete"}, x.key = Op!PendingKey, OpFinal
               PROVE  OpRank(x, OpKind) > 5
    OBVIOUS
  <2>1. OpRank(x, OpKind) = 13
    BY OpLate
  <2> QED
    BY <2>1
<1>q. x.do = "delete" /\ x.key = Op!PendingKey => OpRank(x, OpKind) > 5 /\ x = Op!Delete(Op!PendingKey)
  <2>1. x.do = "delete" => x = Op!Delete(x.key)
    BY OpKinds
  <2> QED
    BY <2>1, OpRanks
<1>3. ASSUME NEW m \in Tasks
      PROVE  OpKept(m) => OpKept(m)'
  <2>1. CASE x.do = "set" /\ x.key = Op!PendingKey
    <3>1. Op!Finalizers' = x.val
      BY <2>1, OpFinalizers
    <3>2. m \in Op!Finalizers => m \in x.val \/ OpAgent(m) \/ (OpSends("agent", m) /\ OpFinal)
      BY <1>d, <2>1 DEF OpChildren
    <3>3. OpFinal => ~OpSends("agent", m)
      BY <1>2, <1>p, <2>1
    <3> QED
      BY <1>1, <3>1, <3>2, <3>3 DEF OpKept
  <2>2. CASE x.do = "delete" /\ x.key = Op!PendingKey
    <3>1. ~OpSends("agent", m)
      BY <1>2, <1>q, <2>2
    <3>2. m \in Op!Finalizers => OpAgent(m)
      BY <1>d, <1>q, <2>2, <3>1 DEF OpChildren, OpDrops
    <3> QED
      BY <1>1, <3>2 DEF OpKept
  <2>3. CASE x.do = "send" \/ x.key # Op!PendingKey
    BY <1>1, <2>3, OpFinalizers DEF OpKept
  <2> QED
    BY <2>1, <2>2, <2>3, OpKinds
<1>4. ASSUME NEW m \in Tasks, OpCovered(m)
      PROVE  OpCovered(m)'
  <2>1. CASE OpKept(m)
    BY <1>3, <2>1 DEF OpCovered
  <2>2. CASE OpSends("agent", m)
    BY <1>1, <2>2 DEF OpCovered, OpKept
  <2>3. CASE \E y \in OpDue : y.do = "set" /\ y.key = Op!PendingKey /\ m \in y.val
    <3>1. PICK y \in OpDue : y.do = "set" /\ y.key = Op!PendingKey /\ m \in y.val
      BY <2>3
    <3>2. CASE y = x
      BY <3>1, <3>2, OpFinalizers DEF OpCovered, OpKept
    <3>3. CASE y # x
      <4>1. y \in OpDue'
        BY <1>d, <3>3
      <4> QED
        BY <3>1, <4>1 DEF OpCovered
    <3> QED
      BY <3>2, <3>3
  <2> QED
    BY <1>4, <2>1, <2>2, <2>3 DEF OpCovered
<1>5. ASSUME NEW m \in Tasks
      PROVE  /\ \A i \in DOMAIN sent' : sent'[i].what = "llm" /\ sent'[i].of = Op!Sub(m) => OpKept(m)'
             /\ OpSends("llm", Op!Sub(m))' => OpKept(m)'
  <2>1. \A i \in DOMAIN sent' : sent'[i].what = "llm" /\ sent'[i].of = Op!Sub(m) => OpKept(m)
    <3>1. \A i \in DOMAIN sent : sent[i].what = "llm" /\ sent[i].of = Op!Sub(m) => OpKept(m)
      BY DEF OpChildren
    <3>2. x.do = "send" /\ x.span.what = "llm" /\ x.span.of = Op!Sub(m) => OpKept(m)
      BY <1>d DEF OpChildren, OpSends
    <3> QED
      BY <1>s, <3>1, <3>2
  <2>2. OpSends("llm", Op!Sub(m))' => OpSends("llm", Op!Sub(m))
    BY <1>d DEF OpSends, Op!Sub
  <2> QED
    BY <1>3, <2>1, <2>2 DEF OpChildren
<1>6. ASSUME NEW m \in Tasks, NEW y \in OpDue', y.do = "set", y.key = Op!PendingKey, m \in Op!Finalizers'
      PROVE  m \in y.val \/ OpAgent(m)' \/ (OpSends("agent", m)' /\ OpFinal')
  <2>1. y \in OpDue /\ OpRank(x, OpKind) < OpRank(y, OpKind)
    BY <1>d
  <2>2. ~(x.do = "set" /\ x.key = Op!PendingKey)
    <3>1. x.do = "set" /\ x.key = Op!PendingKey => OpRank(x, OpKind) = OpRank(y, OpKind) /\ OpRank(x, OpKind) \in Nat
      BY <1>6 DEF OpRank
    <3> QED
      BY <2>1, <3>1
  <2>3. m \in Op!Finalizers
    BY <1>6, <2>2, OpFinalizers, OpKinds
  <2> QED
    BY <1>d, <1>1, <1>6, <2>1, <2>3 DEF OpChildren
<1>7. ASSUME NEW m \in Tasks
      PROVE  OpDrops(Op!PendingKey)' =>
               OpFinal' /\ (m \in Op!Finalizers' => OpAgent(m)' \/ OpSends("agent", m)')
  <2>1. OpDrops(Op!PendingKey)' => OpDrops(Op!PendingKey) /\ OpRank(x, OpKind) < 13
    BY <1>d, OpRanks DEF OpDrops
  <2>2. OpFinal /\ OpRank(x, OpKind) < 13 => ~(x.do = "set" /\ x.key = Op!PendingKey)
    <3> SUFFICES ASSUME OpFinal, x.do = "set", x.key = Op!PendingKey, OpRank(x, OpKind) < 13
                 PROVE  FALSE
      OBVIOUS
    <3>1. OpRank(x, OpKind) = 13
      BY OpLate
    <3> QED
      BY <3>1
  <2>3. OpRank(x, OpKind) < 13 => ~(x.do = "delete" /\ x.key = Op!PendingKey)
    BY OpRanks, OpKinds
  <2>4. ASSUME OpDrops(Op!PendingKey)'
        PROVE  OpFinal /\ Op!Finalizers' = Op!Finalizers
    <3>1. OpFinal
      BY <2>1, <2>4 DEF OpChildren
    <3> QED
      BY <2>1, <2>2, <2>3, <2>4, <3>1, OpFinalizers, OpKinds
  <2> QED
    BY <1>d, <1>1, <2>1, <2>4 DEF OpChildren
<1>8. ASSUME NEW m \in Tasks
      PROVE  /\ Op!Has(store', <<"emitted_agent", m>>) => OpAgent(m)'
             /\ OpWrites(<<"emitted_agent", m>>, "1")' => OpAgent(m)' \/ OpSends("agent", m)'
  <2>1. CASE x = Op!Set(<<"emitted_agent", m>>, "1")
    <3>1. OpRank(x, OpKind) = 7 /\ x.do = "set"
      BY <2>1, OpRanks, OpFields
    <3>2. ~OpSends("agent", m)
      BY <1>2, <3>1
    <3>3. OpAgent(m)
      BY <1>d, <2>1, <3>2 DEF OpChildren, OpWrites
    <3> QED
      BY <1>1, <3>3
  <2>2. CASE x # Op!Set(<<"emitted_agent", m>>, "1")
    <3>1. OpWrites(<<"emitted_agent", m>>, "1")' => OpWrites(<<"emitted_agent", m>>, "1")
      BY <1>d DEF OpWrites
    <3>2. Op!Has(store', <<"emitted_agent", m>>) => Op!Has(store, <<"emitted_agent", m>>)
      <4>1. CASE x.do = "set" /\ x.key = <<"emitted_agent", m>>
        <5>1. OpUpdate(x) /\ x = Op!Set(x.key, x.val)
          BY <4>1, OpKinds
        <5>2. x.val = "1"
          BY <4>1, <5>1, OpValues DEF OpMarks
        <5> QED
          BY <2>2, <4>1, <5>1, <5>2
      <4> QED
        BY <4>1, OpPairs
    <3> QED
      BY <1>1, <3>1, <3>2 DEF OpChildren
  <2> QED
    BY <2>1, <2>2
<1> QED
  BY <1>4, <1>5, <1>6, <1>7, <1>8 DEF OpChildren

-----------------------------------------------------------------------------
(* The hook inside *)

(* While no hook dies, a turn that a hook has seen stays open until it is  *)
(* closed.                                                                 *)
LEMMA OpSeenKept ==
  ASSUME NEW x, OpShape, OpCloses, OpTurn, OpStep(x), OpDid(x), world.crashes = 0,
         NEW t \in OpTurns, OpSeen(t)
  PROVE  OpSeen(t)'
<1>d. \A y \in OpDue : y = x \/ (y \in OpDue' /\ OpRank(x, OpKind) < OpRank(y, OpKind))
  BY DEF OpDid
<1>x. x \in OpDue
  BY DEF OpDid
<1>r. /\ \A u : OpRank(Op!Set(ClosedKey(u), "1"), OpKind) = 6
      /\ OpRank(Op!Delete(Op!UserKey), OpKind) = 9
      /\ \A u : OpRank(Op!Set(Op!UserKey, u), OpKind) = 10
  <2>1. \A u : OpRank(Op!Set(ClosedKey(u), "1"), OpKind) = 6
    BY OpPairRanks DEF ClosedKey
  <2> QED
    BY <2>1, OpRanks
<1>1. CASE OpClosed(t)
  BY <1>1, OpReads DEF OpSeen
<1>2. CASE OpUser = t
  <2>1. CASE x.do = "delete" /\ x.key = Op!UserKey
    <3>1. x = Op!Delete(Op!UserKey)
      BY <2>1, OpKinds
    <3>2. OpClosed(t) \/ OpWrites(ClosedKey(t), "1")
      BY <1>2, <1>x, <3>1 DEF OpCloses, OpDrops
    <3>3. ~OpWrites(ClosedKey(t), "1")
      BY <1>d, <1>r, <3>1, OpFields DEF OpWrites
    <3> QED
      BY <1>1, <3>2, <3>3
  <2>2. CASE x.do = "set" /\ x.key = Op!UserKey
    <3>1. x = Op!Set(Op!UserKey, x.val) /\ x.val \in OpTurns
      BY <2>2, OpKinds, OpValues
    <3>2. ~OpNoUser
      BY <1>x, <3>1 DEF OpNoUser, OpWrites
    <3>3. ~OpDrops(Op!UserKey)
      BY <1>d, <1>r, <3>1, OpFields DEF OpDrops
    <3>4. OpUser # None
      BY <1>2, HarnessesAssumption DEF Op!OpencodeAssumption, OpTurns
    <3> QED
      BY <3>2, <3>3, <3>4 DEF OpTurn
  <2>3. CASE x.do = "send" \/ x.key # Op!UserKey
    BY <1>2, <2>3, OpReads, OpKinds DEF OpSeen
  <2> QED
    BY <2>1, <2>2, <2>3, OpKinds
<1>3. CASE OpWrites(Op!UserKey, t)
  <2>1. CASE x = Op!Set(Op!UserKey, t)
    BY <2>1, OpReads, OpFields DEF OpSeen
  <2>2. CASE x # Op!Set(Op!UserKey, t)
    <3>1. Op!Set(Op!UserKey, t) \in OpDue'
      BY <1>3, <1>d, <2>2 DEF OpWrites
    <3> QED
      BY <3>1 DEF OpSeen, OpWrites
  <2> QED
    BY <2>1, <2>2
<1> QED
  BY <1>1, <1>2, <1>3 DEF OpSeen

(* What there is to do is what the hook inside has to do.                  *)
LEMMA OpDueOf ==
  ASSUME OpShape, NEW h \in OpHooks, hooks[h].at = "inside"
  PROVE  OpDue = Elems(hooks[h].steps) /\ OpFinal = (hooks[h].kind = "close")
<1>1. \A g \in OpHooks : g # h => hooks[g].at # "inside"
  BY DEF OpShape
<1>2. \A g \in OpHooks : g # h => hooks[g].steps = <<>>
  BY <1>1 DEF OpShape, OpHook
<1>3. Elems(<<>>) = {}
  BY DEF Elems
<1>4. \A g \in OpHooks : g # h => Elems(hooks[g].steps) = {}
  BY <1>2, <1>3
<1> QED
  BY <1>1, <1>4 DEF OpDue, OpFinal

LEMMA OpPops ==
  ASSUME OpShape, NEW h \in OpHooks, hooks[h].at = "inside", hooks[h].steps # <<>>, Op!Pops(h)
  PROVE  LET x == Op!NextStep(h) IN
         /\ x \in OpDue /\ OpStep(x) /\ OpDue' = OpDue \ {x} /\ OpFinal' = OpFinal
         /\ \A y \in OpDue' : OpRank(x, OpKind) < OpRank(y, OpKind)
         /\ DOMAIN hooks' = OpHooks /\ \A g \in OpHooks : OpHook(hooks'[g])
         /\ \A g \in OpHooks : /\ hooks'[g].at = hooks[g].at /\ hooks'[g].todo = hooks[g].todo
                               /\ hooks'[g].kind = hooks[g].kind
<1> DEFINE q == hooks[h].steps
           x == Op!NextStep(h)
<1>1. IsSeq(q) /\ OpOrdered(q, hooks[h].kind) /\ q # <<>>
  BY DEF OpShape, OpHook
<1>2. /\ IsSeq(Tail(q)) /\ Len(q) \in Nat \ {0} /\ DOMAIN q = 1 .. Len(q)
      /\ x = q[1] /\ 1 \in DOMAIN q
      /\ DOMAIN Tail(q) = 1 .. Len(q) - 1
      /\ \A i \in DOMAIN Tail(q) : Tail(q)[i] = q[i + 1] /\ i + 1 \in DOMAIN q
  BY <1>1, TailAny DEF Op!NextStep
<1>3. /\ DOMAIN hooks' = OpHooks
      /\ \A g \in OpHooks : g # h => hooks'[g] = hooks[g]
      /\ hooks'[h] = [hooks[h] EXCEPT !.steps = Tail(q)]
  BY DEF Op!Pops, OpShape
<1>4. /\ DOMAIN hooks'[h] = {"at", "kind", "snap", "steps", "todo", "final"}
      /\ hooks'[h].at = "inside" /\ hooks'[h].kind = hooks[h].kind /\ hooks'[h].snap = hooks[h].snap
      /\ hooks'[h].todo = hooks[h].todo /\ hooks'[h].steps = Tail(q)
  BY <1>3 DEF OpShape, OpHook
<1> HIDE DEF q, x
<1>5. OpOrdered(Tail(q), hooks[h].kind)
  <2> SUFFICES ASSUME NEW i \in DOMAIN Tail(q), NEW j \in DOMAIN Tail(q), i < j
               PROVE  OpRank(Tail(q)[i], hooks[h].kind) < OpRank(Tail(q)[j], hooks[h].kind)
    BY DEF OpOrdered
  <2>1. i + 1 \in DOMAIN q /\ j + 1 \in DOMAIN q /\ i + 1 < j + 1
    BY <1>2
  <2> QED
    BY <1>1, <1>2, <2>1 DEF OpOrdered
<1>6. \A g \in OpHooks : OpHook(hooks'[g])
  <2>1. OpHook(hooks[h]) /\ \A g \in OpHooks : OpHook(hooks[g])
    BY DEF OpShape
  <2>2. OpHook(hooks'[h])
    BY <1>2, <1>4, <1>5, <2>1 DEF OpHook
  <2> QED
    BY <1>3, <2>1, <2>2
<1>7. /\ \A g \in OpHooks : g # h => hooks'[g].at # "inside"
      /\ OpDue = Elems(q) /\ OpFinal = (hooks[h].kind = "close")
  BY <1>3, OpDueOf DEF OpShape, q
<1>8. OpDue' = Elems(Tail(q)) /\ OpFinal' = (hooks[h].kind = "close")
  <2>1. \A g \in OpHooks : g # h => hooks'[g].steps = <<>>
    BY <1>6, <1>7 DEF OpHook
  <2>2. Elems(<<>>) = {}
    BY DEF Elems
  <2>3. \A g \in OpHooks : g # h => Elems(hooks'[g].steps) = {}
    BY <2>1, <2>2
  <2>4. OpDue' = Elems(hooks'[h].steps)
    BY <2>3 DEF OpDue, Elems
  <2>5. OpFinal' = (hooks'[h].kind = "close")
    BY <1>4, <1>7 DEF OpFinal
  <2> QED
    BY <1>4, <2>4, <2>5
<1>9. \A y : OpRank(y, OpKind) = OpRank(y, hooks[h].kind)
  BY <1>7 DEF OpKind, OpRank
<1>10. \A y \in OpDue' : OpRank(x, OpKind) < OpRank(y, OpKind)
  <2> TAKE y \in OpDue'
  <2>1. PICK i \in DOMAIN Tail(q) : y = Tail(q)[i]
    BY <1>8 DEF Elems
  <2>2. y = q[i + 1] /\ i + 1 \in DOMAIN q /\ 1 < i + 1
    BY <1>2, <2>1
  <2>3. OpRank(x, hooks[h].kind) < OpRank(y, hooks[h].kind)
    BY <1>1, <1>2, <2>2 DEF OpOrdered
  <2> QED
    BY <1>9, <2>3
<1>11. x \in OpDue
  BY <1>2, <1>7 DEF Elems
<1>12. OpDue' = OpDue \ {x}
  <2>1. ASSUME NEW y \in OpDue'
        PROVE  y \in OpDue /\ y # x
    <3>1. y \in OpDue
      BY <1>2, <1>7, <1>8 DEF Elems
    <3>2. OpRank(x, OpKind) \in Nat
      BY DEF OpRank
    <3> QED
      BY <1>10, <3>1, <3>2
  <2>2. ASSUME NEW y \in OpDue, y # x
        PROVE  y \in OpDue'
    <3>1. PICK i \in DOMAIN q : y = q[i]
      BY <1>7 DEF Elems
    <3>2. i # 1 /\ i - 1 \in DOMAIN Tail(q) /\ (i - 1) + 1 = i
      BY <1>2, <2>2, <3>1
    <3>3. y = Tail(q)[i - 1]
      BY <1>2, <3>1, <3>2
    <3> QED
      BY <1>8, <3>2, <3>3 DEF Elems
  <2> QED
    BY <2>1, <2>2
<1>13. OpStep(x)
  BY <1>11 DEF OpShape
<1> QED
  BY <1>3, <1>4, <1>6, <1>7, <1>8, <1>10, <1>11, <1>12, <1>13 DEF x

(* What is true of the items that a hook will come to stays so.            *)
LEMMA OpItemsKept ==
  ASSUME OpItems,
         \A h \in OpHooks : /\ hooks'[h].todo = hooks[h].todo
                            /\ hooks[h].todo # <<>> => hooks'[h].kind = hooks[h].kind,
         world'.crashes = 0 => world.crashes = 0 /\ \A t \in OpTurns : OpSeen(t) => OpSeen(t)',
         \A trace, t : OpInPlace(trace, t) => OpInPlace(trace, t)',
         \A m \in Tasks : OpCovered(m) => OpCovered(m)'
  PROVE  OpItems'
<1> SUFFICES ASSUME NEW h \in OpHooks, NEW p \in DOMAIN hooks'[h].todo
             PROVE  LET i == hooks'[h].todo[p] IN
                    /\ OpItem(i)
                    /\ i.do \in {"vanished", "children", "pending"} => hooks'[h].kind = "close"
                    /\ world'.crashes = 0 /\ i.do \in {"llm", "tool"} =>
                         IF i.under = None
                         THEN OpSeen(hooks[h].todo[p].of.turn)' \/ OpToCome(hooks'[h].todo, p, i.of.turn)
                         ELSE OpInPlace(hooks[h].todo[p].under.trace, hooks[h].todo[p].of.turn)'
                    /\ \A m \in Tasks : i.do = "llm" /\ i.of = Op!Sub(m) => OpCovered(m)'
  BY DEF OpItems, OpTodo, OpToCome, OpItem, Op!Sub
<1> DEFINE q == hooks[h].todo
           i == q[p]
<1>1. hooks'[h].todo = q /\ hooks'[h].kind = hooks[h].kind /\ p \in DOMAIN q
  <2>1. hooks'[h].todo # <<>>
    OBVIOUS
  <2> QED
    BY <2>1
<1>2. /\ OpItem(i)
      /\ i.do \in {"vanished", "children", "pending"} => hooks[h].kind = "close"
      /\ world.crashes = 0 /\ i.do \in {"llm", "tool"} =>
           IF i.under = None THEN OpSeen(i.of.turn) \/ OpToCome(q, p, i.of.turn)
           ELSE OpInPlace(i.under.trace, i.of.turn)
      /\ \A m \in Tasks : i.do = "llm" /\ i.of = Op!Sub(m) => OpCovered(m)
  BY <1>1 DEF OpItems, OpTodo
<1>3. i.do \in {"llm", "tool"} => i.of.turn \in OpTurns
  BY <1>2 DEF OpItem, Op!Messages, OpTurns
<1> HIDE DEF i, q
<1>4. \A t \in OpTurns : t = i.of.turn /\ world'.crashes = 0 /\ OpSeen(t) => OpSeen(t)'
  OBVIOUS
<1>5. hooks'[h].todo[p] = i
  BY <1>1 DEF i
<1>6. \A t : t = i.of.turn => (OpSeen(t)' => OpSeen(hooks[h].todo[p].of.turn)')
  BY <1>5 DEF OpSeen
<1>7. \A d, t : d = i.under.trace /\ t = i.of.turn =>
        (OpInPlace(d, t)' => OpInPlace(hooks[h].todo[p].under.trace, hooks[h].todo[p].of.turn)')
  BY <1>5 DEF OpInPlace
<1> QED
  BY <1>1, <1>2, <1>3, <1>4, <1>5, <1>6, <1>7

LEMMA OpPopKeeps ==
  ASSUME OpInv, NEW h \in OpHooks, Op!SetKey(h) \/ Op!DeleteKey(h) \/ Op!SendSpan(h)
  PROVE  OpInv'
<1> DEFINE x == Op!NextStep(h)
<1>1. /\ OpShape /\ OpStored /\ OpReserved /\ OpMarked /\ OpCloses /\ OpOpens /\ OpTurn /\ OpPlaces
      /\ OpChildren /\ OpItems
  BY DEF OpInv
<1>2. /\ hooks[h].at = "inside" /\ hooks[h].steps # <<>> /\ Op!Pops(h) /\ world' = world
      /\ \/ x.do = "set" /\ store' = Op!Put(store, x.key, x.val) /\ sent' = sent
         \/ x.do = "delete" /\ store' = Op!Drop(store, {x.key}) /\ sent' = sent
         \/ x.do = "send" /\ store' = store /\ sent' = Append(sent, x.span)
  BY DEF Op!SetKey, Op!DeleteKey, Op!SendSpan, Op!ComesTo
<1> HIDE DEF x
<1>3. /\ x \in OpDue /\ OpStep(x) /\ OpDue' = OpDue \ {x} /\ OpFinal' = OpFinal
      /\ \A y \in OpDue' : OpRank(x, OpKind) < OpRank(y, OpKind)
      /\ DOMAIN hooks' = OpHooks /\ \A g \in OpHooks : OpHook(hooks'[g])
      /\ \A g \in OpHooks : /\ hooks'[g].at = hooks[g].at /\ hooks'[g].todo = hooks[g].todo
                            /\ hooks'[g].kind = hooks[g].kind
  BY <1>1, <1>2, OpPops DEF x
<1>4. OpDid(x)
  BY <1>2, <1>3 DEF OpDid
<1>5. OpShape'
  <2>1. \A y \in OpDue' : OpStep(y)
    BY <1>1, <1>3 DEF OpShape
  <2>2. \A i \in DOMAIN sent' : OpSpanOf(sent'[i])
    <3>1. \A i \in DOMAIN sent' : (i \in DOMAIN sent /\ sent'[i] = sent[i]) \/ (x.do = "send" /\ sent'[i] = x.span)
      BY <1>1, <1>4, OpSpansSent
    <3>2. x.do = "send" => OpSpanOf(x.span)
      BY <1>3, OpKinds
    <3> QED
      BY <1>1, <3>1, <3>2 DEF OpShape
  <2>3. IsSeq(sent')
    BY <1>1, <1>4, OpSpansSent
  <2>4. \A g, k \in OpHooks : hooks'[g].at = "inside" /\ hooks'[k].at = "inside" => g = k
    BY <1>1, <1>3 DEF OpShape
  <2>5. (\A y \in OpDue : OpStep(y))' /\ (\A i \in DOMAIN sent : OpSpanOf(sent[i]))' /\ IsSeq(sent)'
    BY <2>1, <2>2, <2>3 DEF OpStep, OpUpdate, OpSpanOf, IsSeq
  <2>6. (\A g \in OpHooks : OpHook(hooks[g]))'
    BY <1>3 DEF OpHook, OpLog, OpOrdered, OpRank
  <2>7. OpLog(world.log)'
    BY <1>1, <1>2 DEF OpShape, OpLog
  <2> QED
    BY <1>1, <1>2, <1>3, <2>4, <2>5, <2>6, <2>7 DEF OpShape
<1>6. OpChildren' /\ \A m \in Tasks : OpCovered(m) => OpCovered(m)'
  BY <1>1, <1>3, <1>4, OpChildrenDone
<1>7. OpItems'
  <2>1. \A trace, t : OpInPlace(trace, t) => OpInPlace(trace, t)'
    BY <1>3, <1>4, OpReads DEF OpInPlace
  <2>2. world'.crashes = 0 => world.crashes = 0 /\ \A t \in OpTurns : OpSeen(t) => OpSeen(t)'
    BY <1>1, <1>2, <1>3, <1>4, OpSeenKept
  <2> QED
    BY <1>1, <1>3, <1>6, <2>1, <2>2, OpItemsKept
<1> QED
  BY <1>1, <1>3, <1>4, <1>5, <1>6, <1>7, OpStoredDone, OpReservedDone, OpMarkedDone, OpTurnDone, OpPlacesDone DEF OpInv
-----------------------------------------------------------------------------
(* What a hook has to do about an item *)

LEMMA OpListTwo ==
  ASSUME NEW x, NEW y, NEW kind, NEW lo \in Int, NEW hi \in Int,
         OpRank(x, kind) \in lo .. hi, OpRank(y, kind) \in lo .. hi, OpRank(x, kind) < OpRank(y, kind)
  PROVE  OpList(<<x, y>>, {x, y}, kind, lo, hi)
<1> DEFINE r == OpRank(x, kind)
           s == OpRank(y, kind)
<1>1. r \in Int /\ s \in Int /\ lo <= r /\ r < s /\ s <= hi /\ r \in lo .. r /\ s \in s .. hi
  OBVIOUS
<1>2. OpList(<<x>>, {x}, kind, lo, r)
  BY <1>1, OpListOne
<1>3. OpList(<<y>>, {y}, kind, s, hi)
  BY <1>1, OpListOne
<1> HIDE DEF r, s
<1>4. OpList(<<x>> \o <<y>>, {x} \cup {y}, kind, lo, hi)
  BY <1>1, <1>2, <1>3, OpListCat
<1>5. <<x>> \o <<y>> = <<x, y>> /\ {x} \cup {y} = {x, y}
  BY Tuples
<1> QED
  BY <1>4, <1>5

LEMMA OpListThree ==
  ASSUME NEW x, NEW y, NEW z, NEW kind, NEW lo \in Int, NEW hi \in Int,
         OpRank(x, kind) \in lo .. hi, OpRank(y, kind) \in lo .. hi, OpRank(z, kind) \in lo .. hi,
         OpRank(x, kind) < OpRank(y, kind), OpRank(y, kind) < OpRank(z, kind)
  PROVE  OpList(<<x, y, z>>, {x, y, z}, kind, lo, hi)
<1> DEFINE r == OpRank(y, kind)
           s == OpRank(z, kind)
<1>1. r \in Int /\ s \in Int /\ lo <= r /\ r < s /\ s <= hi /\ s \in s .. hi
  OBVIOUS
<1>2. OpList(<<x, y>>, {x, y}, kind, lo, r)
  <2>1. OpRank(x, kind) \in lo .. r /\ OpRank(y, kind) \in lo .. r
    OBVIOUS
  <2> QED
    BY <1>1, <2>1, OpListTwo
<1>3. OpList(<<z>>, {z}, kind, s, hi)
  BY <1>1, OpListOne
<1> HIDE DEF r, s
<1>4. OpList(<<x, y>> \o <<z>>, {x, y} \cup {z}, kind, lo, hi)
  BY <1>1, <1>2, <1>3, OpListCat
<1>5. <<x, y>> \o <<z>> = <<x, y, z>> /\ {x, y} \cup {z} = {x, y, z}
  BY Tuples
<1> QED
  BY <1>4, <1>5

LEMMA OpSendRank == \A s, kind : OpRank(Op!Send(s), kind) \in 5 .. 5
BY OpFields DEF OpRank

(* The steps about an item, as sets.                                       *)
OpRoot(out) ==
  [what |-> "root", of |-> OpUser, id |-> OpSpan, trace |-> OpTrace, parent |-> None, out |-> out]

OpCloseSet(out) ==
  IF OpOpen
  THEN {Op!Send(OpRoot(out))}
       \cup (IF OpUser # None THEN {Op!Set(ClosedKey(OpUser), "1")} ELSE {})
       \cup {Op!Delete(Op!TraceKey), Op!Delete(Op!SpanKey), Op!Delete(Op!UserKey)}
  ELSE {}

OpUserSet(h, u) ==
  IF ~OpClosed(u) /\ OpUser # u
  THEN (IF OpTrace # None THEN OpCloseSet(None) ELSE {})
       \cup {Op!Set(Op!UserKey, u), Op!Set(Op!TraceKey, Op!Id(h, <<"trace", u>>)),
             Op!Set(Op!SpanKey, Op!Id(h, <<"turn", u>>))}
  ELSE {}

OpReserveSet(h, k) == IF ~Op!Has(store, k) THEN {Op!Set(k, Op!Id(h, k))} ELSE {}

OpLlm(h, m, under) ==
  [what |-> "llm", of |-> m, id |-> Op!SpanId(h, <<"span_msg", m>>), trace |-> under.trace,
   parent |-> under.span, out |-> m]

OpLlmSet(h, m, under) ==
  IF ~Op!Has(store, <<"emitted_msg", m>>) /\ under.trace # None /\ under.span # None
  THEN OpReserveSet(h, <<"span_msg", m>>)
       \cup {Op!Send(OpLlm(h, m, under)), Op!Set(<<"emitted_msg", m>>, "1")}
  ELSE {}

OpTool(h, m, under) ==
  [what |-> "tool", of |-> m, id |-> Op!SpanId(h, <<"span_tool", m>>), trace |-> under.trace, out |-> m,
   parent |-> IF Op!Has(store, <<"emitted_msg", m>>) THEN Op!SpanId(h, <<"span_msg", m>>) ELSE under.span]

OpToolSet(h, m, under) ==
  IF ~Op!Has(store, <<"emitted_tool", m>>) /\ under.trace # None /\ under.span # None
  THEN (IF Op!Has(store, <<"emitted_msg", m>>) THEN OpReserveSet(h, <<"span_msg", m>>) ELSE {})
       \cup OpReserveSet(h, <<"span_tool", m>>)
       \cup {Op!Send(OpTool(h, m, under)), Op!Set(LinkKey(m), under), Op!Set(<<"emitted_tool", m>>, "1")}
  ELSE {}

OpAgentSpan(h, m, snap) ==
  [what |-> "agent", of |-> m, id |-> Op!SpanId(h, <<"span_agent", m>>), trace |-> Op!ChildLink(m).trace,
   parent |-> Op!SpanId(h, <<"span_tool", m>>),
   out |-> IF Op!Sub(m) \in snap.done THEN Op!Sub(m) ELSE None]

OpForgetSet(m) ==
  IF m \in Op!Finalizers
  THEN {IF Op!Finalizers = {m} THEN Op!Delete(Op!PendingKey) ELSE Op!Set(Op!PendingKey, Op!Finalizers \ {m})}
  ELSE {}

OpNew(m) == ~Op!Has(store, <<"emitted_agent", m>>)

OpChildSet(h, m, snap, final) ==
  IF Op!ChildLink(m) # None
  THEN (IF ~final /\ OpNew(m) THEN {Op!Set(Op!PendingKey, Op!Finalizers \cup {m})} ELSE {})
       \cup OpReserveSet(h, <<"span_agent", m>>)
       \cup (IF final /\ OpNew(m)
             THEN OpReserveSet(h, <<"span_tool", m>>)
                  \cup {Op!Send(OpAgentSpan(h, m, snap)), Op!Set(<<"emitted_agent", m>>, "1")}
             ELSE {})
       \cup (IF final THEN OpForgetSet(m) ELSE {})
  ELSE {}

LEMMA OpCloseList ==
  ASSUME NEW out, NEW kind
  PROVE  OpList(Op!CloseTurn(out), OpCloseSet(out), kind, 5, 9)
<1> DEFINE a == <<Op!Send(OpRoot(out))>>
           b == Op!If(OpUser # None, <<Op!Set(ClosedKey(OpUser), "1")>>)
           c == <<Op!Delete(Op!TraceKey), Op!Delete(Op!SpanKey), Op!Delete(Op!UserKey)>>
           A == {Op!Send(OpRoot(out))}
           B == IF OpUser # None THEN {Op!Set(ClosedKey(OpUser), "1")} ELSE {}
           C == {Op!Delete(Op!TraceKey), Op!Delete(Op!SpanKey), Op!Delete(Op!UserKey)}
<1>1. OpList(a, A, kind, 5, 5)
  <2>1. OpRank(Op!Send(OpRoot(out)), kind) \in 5 .. 5
    BY OpSendRank
  <2> QED
    BY <2>1, OpListOne
<1>2. OpList(b, B, kind, 6, 6)
  <2>1. OpRank(Op!Set(ClosedKey(OpUser), "1"), kind) \in 6 .. 6
    BY OpRanks DEF ClosedKey
  <2>2. OpList(<<Op!Set(ClosedKey(OpUser), "1")>>, {Op!Set(ClosedKey(OpUser), "1")}, kind, 6, 6)
    BY <2>1, OpListOne
  <2> QED
    BY <2>2, OpListIf
<1>3. OpList(c, C, kind, 7, 9)
  <2>1. /\ OpRank(Op!Delete(Op!TraceKey), kind) \in 7 .. 7
        /\ OpRank(Op!Delete(Op!SpanKey), kind) \in 8 .. 8
        /\ OpRank(Op!Delete(Op!UserKey), kind) \in 9 .. 9
    BY OpRanks
  <2> HIDE DEF c
  <2>2. OpList(<<Op!Delete(Op!TraceKey), Op!Delete(Op!SpanKey), Op!Delete(Op!UserKey)>>, C, kind, 7, 9)
    BY <2>1, OpListThree
  <2> QED
    BY <2>2 DEF c
<1> HIDE DEF a, b, c, A, B, C
<1>4. OpList(a \o b, A \cup B, kind, 5, 6)
  BY <1>1, <1>2, OpListCat
<1>5. OpList((a \o b) \o c, (A \cup B) \cup C, kind, 5, 9)
  BY <1>3, <1>4, OpListCat
<1>6. OpList(Op!If(OpOpen, (a \o b) \o c), IF OpOpen THEN (A \cup B) \cup C ELSE {}, kind, 5, 9)
  <2>1. OpOpen \in BOOLEAN
    BY DEF OpOpen
  <2> QED
    BY <1>5, <2>1, OpListIf
<1>7. Op!CloseTurn(out) = Op!If(OpOpen, (a \o b) \o c)
  BY DEF Op!CloseTurn, Op!OpenTurn, OpOpen, OpUser, OpTrace, OpSpan, OpRoot, ClosedKey, a, b, c
<1>8. OpCloseSet(out) = IF OpOpen THEN (A \cup B) \cup C ELSE {}
  BY DEF OpCloseSet, A, B, C
<1> QED
  BY <1>6, <1>7, <1>8

LEMMA OpUserList ==
  ASSUME NEW h, NEW u, NEW kind
  PROVE  OpList(Op!OpenTurnIfNew(h, u), OpUserSet(h, u), kind, 5, 12)
<1> DEFINE a == Op!If(OpTrace # None, Op!CloseTurn(None))
           A == IF OpTrace # None THEN OpCloseSet(None) ELSE {}
           x == Op!Set(Op!UserKey, u)
           y == Op!Set(Op!TraceKey, Op!Id(h, <<"trace", u>>))
           z == Op!Set(Op!SpanKey, Op!Id(h, <<"turn", u>>))
           new == ~OpClosed(u) /\ OpUser # u
<1>1. OpList(a, A, kind, 5, 9)
  BY OpCloseList, OpListIf
<1>2. OpRank(x, kind) \in 10 .. 10 /\ OpRank(y, kind) \in 11 .. 11 /\ OpRank(z, kind) \in 12 .. 12
  BY OpRanks
<1> HIDE DEF a, A, x, y, z
<1>3. OpList(<<x, y, z>>, {x, y, z}, kind, 10, 12)
  BY <1>2, OpListThree
<1>4. OpList(a \o <<x, y, z>>, A \cup {x, y, z}, kind, 5, 12)
  BY <1>1, <1>3, OpListCat
<1>5. OpList(Op!If(new, a \o <<x, y, z>>), IF new THEN A \cup {x, y, z} ELSE {}, kind, 5, 12)
  BY <1>4, OpListIf
<1>6. Op!OpenTurnIfNew(h, u) = Op!If(new, a \o <<x, y, z>>)
  BY DEF Op!OpenTurnIfNew, Op!OpenTurn, OpClosed, OpUser, OpTrace, ClosedKey, a, x, y, z
<1>7. OpUserSet(h, u) = IF new THEN A \cup {x, y, z} ELSE {}
  BY DEF OpUserSet, A, x, y, z
<1> QED
  BY <1>5, <1>6, <1>7

LEMMA OpReserveList ==
  ASSUME NEW h, NEW k, NEW kind, NEW lo \in Int, NEW hi \in Int, OpRank(Op!Set(k, Op!Id(h, k)), kind) \in lo .. hi
  PROVE  OpList(Op!Reserve(h, k), OpReserveSet(h, k), kind, lo, hi)
<1>1. OpList(<<Op!Set(k, Op!Id(h, k))>>, {Op!Set(k, Op!Id(h, k))}, kind, lo, hi)
  BY OpListOne
<1>2. (~Op!Has(store, k)) \in BOOLEAN
  OBVIOUS
<1> QED
  BY <1>1, <1>2, OpListIf DEF Op!Reserve, OpReserveSet

LEMMA OpLlmList ==
  ASSUME NEW h, NEW m, NEW under, NEW kind
  PROVE  OpList(Op!EmitLlm(h, m, under), OpLlmSet(h, m, under), kind, 1, 7)
<1> DEFINE a == Op!Reserve(h, <<"span_msg", m>>)
           A == OpReserveSet(h, <<"span_msg", m>>)
           x == Op!Send(OpLlm(h, m, under))
           y == Op!Set(<<"emitted_msg", m>>, "1")
           due == ~Op!Has(store, <<"emitted_msg", m>>) /\ under.trace # None /\ under.span # None
<1>1. OpList(a, A, kind, 1, 1)
  <2>1. OpRank(Op!Set(<<"span_msg", m>>, Op!Id(h, <<"span_msg", m>>)), kind) \in 1 .. 1
    BY OpPairRanks
  <2> QED
    BY <2>1, OpReserveList
<1>2. OpRank(x, kind) \in 5 .. 5 /\ OpRank(y, kind) \in 6 .. 7
  BY OpRanks
<1> HIDE DEF a, A, x, y
<1>3. OpList(<<x, y>>, {x, y}, kind, 5, 7)
  BY <1>2, OpListTwo
<1>4. OpList(a \o <<x, y>>, A \cup {x, y}, kind, 1, 7)
  BY <1>1, <1>3, OpListCat
<1>5. OpList(Op!If(due, a \o <<x, y>>), IF due THEN A \cup {x, y} ELSE {}, kind, 1, 7)
  BY <1>4, OpListIf
<1>6. Op!EmitLlm(h, m, under) = Op!If(due, a \o <<x, y>>)
  BY DEF Op!EmitLlm, OpLlm, a, x, y
<1>7. OpLlmSet(h, m, under) = IF due THEN A \cup {x, y} ELSE {}
  BY DEF OpLlmSet, A, x, y
<1> QED
  BY <1>5, <1>6, <1>7

LEMMA OpToolList ==
  ASSUME NEW h, NEW m, NEW under, NEW kind
  PROVE  OpList(Op!EmitTool(h, m, under), OpToolSet(h, m, under), kind, 1, 7)
<1> DEFINE linked == Op!Has(store, <<"emitted_msg", m>>)
           a == Op!If(linked, Op!Reserve(h, <<"span_msg", m>>))
           A == IF linked THEN OpReserveSet(h, <<"span_msg", m>>) ELSE {}
           b == Op!Reserve(h, <<"span_tool", m>>)
           B == OpReserveSet(h, <<"span_tool", m>>)
           x == Op!Send(OpTool(h, m, under))
           y == Op!Set(LinkKey(m), under)
           z == Op!Set(<<"emitted_tool", m>>, "1")
           due == ~Op!Has(store, <<"emitted_tool", m>>) /\ under.trace # None /\ under.span # None
<1>1. OpList(a, A, kind, 1, 1)
  <2>1. OpRank(Op!Set(<<"span_msg", m>>, Op!Id(h, <<"span_msg", m>>)), kind) \in 1 .. 1
    BY OpPairRanks
  <2>2. linked \in BOOLEAN
    BY DEF Op!Has
  <2>3. OpList(Op!Reserve(h, <<"span_msg", m>>), OpReserveSet(h, <<"span_msg", m>>), kind, 1, 1)
    BY <2>1, OpReserveList
  <2> QED
    BY <2>2, <2>3, OpListIf
<1>2. OpList(b, B, kind, 2, 2)
  <2>1. OpRank(Op!Set(<<"span_tool", m>>, Op!Id(h, <<"span_tool", m>>)), kind) \in 2 .. 2
    BY OpPairRanks
  <2> QED
    BY <2>1, OpReserveList
<1>3. OpRank(x, kind) \in 5 .. 5 /\ OpRank(y, kind) \in 6 .. 6 /\ OpRank(z, kind) \in 7 .. 7
  BY OpRanks DEF LinkKey
<1> HIDE DEF a, A, b, B, x, y, z
<1>4. OpList(<<x, y, z>>, {x, y, z}, kind, 5, 7)
  BY <1>3, OpListThree
<1>5. OpList(a \o b, A \cup B, kind, 1, 2)
  BY <1>1, <1>2, OpListCat
<1>6. OpList((a \o b) \o <<x, y, z>>, (A \cup B) \cup {x, y, z}, kind, 1, 7)
  BY <1>4, <1>5, OpListCat
<1>7. OpList(Op!If(due, (a \o b) \o <<x, y, z>>), IF due THEN (A \cup B) \cup {x, y, z} ELSE {}, kind, 1, 7)
  BY <1>6, OpListIf
<1>8. Op!EmitTool(h, m, under) = Op!If(due, (a \o b) \o <<x, y, z>>)
  BY DEF Op!EmitTool, OpTool, LinkKey, a, b, x, y, z
<1>9. OpToolSet(h, m, under) = IF due THEN (A \cup B) \cup {x, y, z} ELSE {}
  BY DEF OpToolSet, A, B, x, y, z
<1> QED
  BY <1>7, <1>8, <1>9

LEMMA OpChildList ==
  ASSUME NEW h, NEW m, NEW snap, NEW final \in BOOLEAN, NEW kind, final <=> kind = "close"
  PROVE  OpList(Op!EmitChild(h, m, snap, final), OpChildSet(h, m, snap, final), kind, 0, 13)
<1> DEFINE new == OpNew(m)
           a == Op!If(~final /\ new, Op!Remember(m))
           A == IF ~final /\ new THEN {Op!Set(Op!PendingKey, Op!Finalizers \cup {m})} ELSE {}
           b == Op!Reserve(h, <<"span_agent", m>>)
           B == OpReserveSet(h, <<"span_agent", m>>)
           c == Op!Reserve(h, <<"span_tool", m>>)
           C == OpReserveSet(h, <<"span_tool", m>>)
           x == Op!Send(OpAgentSpan(h, m, snap))
           y == Op!Set(<<"emitted_agent", m>>, "1")
           d == Op!If(final /\ new, c \o <<x, y>>)
           D == IF final /\ new THEN C \cup {x, y} ELSE {}
           e == Op!If(final, Op!Forget(m))
           E == IF final THEN OpForgetSet(m) ELSE {}
           due == Op!ChildLink(m) # None
<1>n. new \in BOOLEAN
  BY DEF OpNew
<1>1. OpList(a, A, kind, 0, 0)
  <2>1. ~final => OpRank(Op!Set(Op!PendingKey, Op!Finalizers \cup {m}), kind) \in 0 .. 0
    BY OpRanks
  <2>2. ~final => OpList(Op!Remember(m), {Op!Set(Op!PendingKey, Op!Finalizers \cup {m})}, kind, 0, 0)
    BY <2>1, OpListOne DEF Op!Remember
  <2> QED
    BY <1>n, <2>2, OpListIf
<1>2. OpList(b, B, kind, 1, 1)
  <2>1. OpRank(Op!Set(<<"span_agent", m>>, Op!Id(h, <<"span_agent", m>>)), kind) \in 1 .. 1
    BY OpPairRanks
  <2> QED
    BY <2>1, OpReserveList
<1>3. OpList(c, C, kind, 2, 2)
  <2>1. OpRank(Op!Set(<<"span_tool", m>>, Op!Id(h, <<"span_tool", m>>)), kind) \in 2 .. 2
    BY OpPairRanks
  <2> QED
    BY <2>1, OpReserveList
<1>4. OpRank(x, kind) \in 5 .. 5 /\ OpRank(y, kind) \in 6 .. 7
  BY OpRanks
<1>5. OpList(e, E, kind, 13, 13)
  <2>1. final => /\ OpRank(Op!Delete(Op!PendingKey), kind) \in 13 .. 13
                 /\ OpRank(Op!Set(Op!PendingKey, Op!Finalizers \ {m}), kind) \in 13 .. 13
    BY OpRanks
  <2> DEFINE w == IF Op!Finalizers = {m} THEN Op!Delete(Op!PendingKey)
                  ELSE Op!Set(Op!PendingKey, Op!Finalizers \ {m})
  <2>2. final => OpRank(w, kind) \in 13 .. 13
    BY <2>1
  <2> HIDE DEF w
  <2>3. final => OpList(<<w>>, {w}, kind, 13, 13)
    BY <2>2, OpListOne
  <2> DEFINE there == m \in Op!Finalizers
  <2> HIDE DEF there
  <2>6. there \in BOOLEAN
    BY DEF there
  <2>4. final => OpList(Op!If(there, <<w>>), IF there THEN {w} ELSE {}, kind, 13, 13)
    BY <2>3, <2>6, OpListIf
  <2>5. final => OpList(Op!Forget(m), OpForgetSet(m), kind, 13, 13)
    BY <2>4 DEF Op!Forget, OpForgetSet, w, there
  <2> QED
    BY <2>5, OpListIf
<1> HIDE DEF a, A, b, B, c, C, x, y, e, E, new
<1>6. OpList(<<x, y>>, {x, y}, kind, 5, 7)
  BY <1>4, OpListTwo
<1>7. OpList(c \o <<x, y>>, C \cup {x, y}, kind, 2, 7)
  BY <1>3, <1>6, OpListCat
<1>8. OpList(d, D, kind, 2, 7)
  BY <1>n, <1>7, OpListIf
<1> HIDE DEF d, D
<1>9. OpList(a \o b, A \cup B, kind, 0, 1)
  BY <1>1, <1>2, OpListCat
<1>10. OpList((a \o b) \o d, (A \cup B) \cup D, kind, 0, 7)
  BY <1>8, <1>9, OpListCat
<1>11. OpList(((a \o b) \o d) \o e, ((A \cup B) \cup D) \cup E, kind, 0, 13)
  BY <1>5, <1>10, OpListCat
<1>12. OpList(Op!If(due, ((a \o b) \o d) \o e), IF due THEN ((A \cup B) \cup D) \cup E ELSE {}, kind, 0, 13)
  BY <1>11, OpListIf
<1>13. Op!EmitChild(h, m, snap, final) = Op!If(due, ((a \o b) \o d) \o e)
  BY DEF Op!EmitChild, OpAgentSpan, OpNew, new, a, b, c, d, e, x, y
<1>14. OpChildSet(h, m, snap, final) = IF due THEN ((A \cup B) \cup D) \cup E ELSE {}
  BY DEF OpChildSet, OpNew, new, A, B, C, D, E, x, y
<1> QED
  BY <1>12, <1>13, <1>14

-----------------------------------------------------------------------------
(* A hook comes to an item *)

LEMMA OpCameKeeps ==
  ASSUME NEW E, OpCame(E)
  PROVE  /\ OpUser' = OpUser /\ OpTrace' = OpTrace /\ OpSpan' = OpSpan /\ (OpOpen' <=> OpOpen)
         /\ \A u : (OpClosed(u)' <=> OpClosed(u)) /\ (OpRooted(u)' <=> OpRooted(u))
         /\ Op!Finalizers' = Op!Finalizers
         /\ \A m : (OpAgent(m)' <=> OpAgent(m)) /\ (OpKept(m)' <=> OpKept(m))
         /\ \A d, t : OpInPlace(d, t)' <=> OpInPlace(d, t)
         /\ \A k, v : (OpWrites(k, v)' <=> Op!Set(k, v) \in E) /\ ~OpWrites(k, v)
         /\ \A k : (OpDrops(k)' <=> Op!Delete(k) \in E) /\ ~OpDrops(k)
         /\ \A w, m : ~OpSends(w, m)
         /\ \A w, m : OpSends(w, m)' <=> \E x \in E : x.do = "send" /\ x.span.what = w /\ x.span.of = m
<1>1. store' = store /\ sent' = sent /\ OpDue' = E /\ OpDue = {}
  BY DEF OpCame
<1>2. OpUser' = OpUser /\ OpTrace' = OpTrace /\ OpSpan' = OpSpan /\ Op!Finalizers' = Op!Finalizers
  BY <1>1 DEF OpUser, OpTrace, OpSpan, Op!Finalizers
<1>3. OpOpen' <=> OpOpen
  BY <1>2 DEF OpOpen
<1>4. \A u : (OpClosed(u)' <=> OpClosed(u)) /\ (OpRooted(u)' <=> OpRooted(u))
  BY <1>1 DEF OpClosed, OpRooted
<1>5. \A m : (OpAgent(m)' <=> OpAgent(m)) /\ (OpKept(m)' <=> OpKept(m))
  BY <1>1, <1>2 DEF OpAgent, OpKept
<1>6. \A d, t : OpInPlace(d, t)' <=> OpInPlace(d, t)
  BY <1>4 DEF OpInPlace
<1>7. /\ \A k, v : (OpWrites(k, v)' <=> Op!Set(k, v) \in E) /\ ~OpWrites(k, v)
      /\ \A k : (OpDrops(k)' <=> Op!Delete(k) \in E) /\ ~OpDrops(k)
  BY <1>1 DEF OpWrites, OpDrops
<1>8. /\ \A w, m : ~OpSends(w, m)
      /\ \A w, m : OpSends(w, m)' <=> \E x \in E : x.do = "send" /\ x.span.what = w /\ x.span.of = m
  BY <1>1 DEF OpSends
<1> QED
  BY <1>2, <1>3, <1>4, <1>5, <1>6, <1>7, <1>8

LEMMA OpStoredCame ==
  ASSUME NEW E, OpStored, OpCame(E)
  PROVE  OpStored'
<1>1. store' = store
  BY DEF OpCame
<1> QED
  BY <1>1, OpCameKeeps DEF OpStored

(* What it will send is not sent yet, and gets its id and its mark.        *)
LEMMA OpSpansCame ==
  ASSUME NEW E, OpInv, OpCame(E),
         \A x \in E : x.do = "send" /\ x.span.what # "root" =>
           /\ \/ Op!Has(store, OpIdKey(x.span)) /\ store[OpIdKey(x.span)] = x.span.id
              \/ Op!Set(OpIdKey(x.span), x.span.id) \in E
           /\ Op!Set(OpMark(x.span), "1") \in E /\ ~Op!Has(store, OpMark(x.span))
           /\ world.crashes = 0 => OpInPlace(x.span.trace, x.span.of.turn),
         \A x \in E : x.do = "send" /\ x.span.what = "root" => (world.crashes = 0 => ~OpRooted(x.span.of)),
         \A x \in E : x.do = "set" /\ x.key[1] \in OpNames => ~Op!Has(store, x.key),
         \A m \in Op!Messages : \A x \in E : x.do = "set" /\ x.key = LinkKey(m) =>
           (world.crashes = 0 => OpInPlace(x.val.trace, m.turn))
  PROVE  OpReserved' /\ OpMarked' /\ OpPlaces'
<1>1. store' = store /\ sent' = sent /\ OpDue' = E /\ OpDue = {} /\ world'.crashes = world.crashes
  BY DEF OpCame
<1>2. /\ \A k, v : (OpWrites(k, v)' <=> Op!Set(k, v) \in E) /\ ~OpWrites(k, v)
      /\ \A d, t : OpInPlace(d, t)' <=> OpInPlace(d, t)
  BY OpCameKeeps
<1>3. OpReserved /\ OpMarked /\ OpPlaces
  BY DEF OpInv
<1>4. OpReserved'
  <2>1. \A x \in E : x.do = "send" /\ x.span.what # "root" =>
           \/ Op!Has(store', OpIdKey(x.span)) /\ store'[OpIdKey(x.span)] = x.span.id
           \/ OpWrites(OpIdKey(x.span), x.span.id)'
    BY <1>1, <1>2
  <2>2. \A i \in DOMAIN sent : sent[i].what # "root" =>
          Op!Has(store, OpIdKey(sent[i])) /\ store[OpIdKey(sent[i])] = sent[i].id
    BY <1>3 DEF OpReserved
  <2>3. \A i \in DOMAIN sent' : sent'[i].what # "root" =>
          Op!Has(store', OpIdKey(sent'[i])) /\ store'[OpIdKey(sent'[i])] = sent'[i].id
    BY <1>1, <2>2
  <2>4. \A x \in E : x.do = "set" /\ x.key[1] \in OpNames => ~Op!Has(store', x.key)
    BY <1>1
  <2> QED
    BY <1>1, <2>1, <2>3, <2>4 DEF OpReserved, OpIdKey
<1>5. OpMarked'
  <2> SUFFICES ASSUME world'.crashes = 0
               PROVE  OpMarked'
    BY DEF OpMarked
  <2>c. world.crashes = 0
    BY <1>1
  <2>1. \A i \in DOMAIN sent : sent[i].what # "root" => Op!Has(store, OpMark(sent[i]))
    BY <1>2, <1>3, <2>c DEF OpMarked
  <2>2. \A i \in DOMAIN sent' : sent'[i].what # "root" => Op!Has(store', OpMark(sent'[i]))
    BY <1>1, <2>1
  <2>3. \A x \in E : x.do = "send" /\ x.span.what # "root" => OpWrites(OpMark(x.span), "1")'
    BY <1>2
  <2>4. ASSUME NEW x \in E, x.do = "send", NEW i \in DOMAIN sent, sent[i].what = x.span.what, sent[i].of = x.span.of
        PROVE  FALSE
    <3>1. CASE x.span.what = "root"
      BY <2>c, <2>4, <3>1 DEF OpRooted
    <3>2. CASE x.span.what # "root"
      <4>1. OpMark(sent[i]) = OpMark(x.span)
        BY <2>4 DEF OpMark
      <4> QED
        BY <2>1, <2>4, <3>2, <4>1
    <3> QED
      BY <3>1, <3>2
  <2>5. \A i, j \in DOMAIN sent' : sent'[i].what = sent'[j].what /\ sent'[i].of = sent'[j].of => i = j
    BY <1>1, <1>3, <2>c DEF OpMarked
  <2>6. \A x \in OpDue' : x.do = "send" =>
          \A i \in DOMAIN sent' : ~(sent'[i].what = x.span.what /\ sent'[i].of = x.span.of)
    BY <1>1, <2>4
  <2> QED
    BY <1>1, <2>2, <2>3, <2>5, <2>6 DEF OpMarked, OpMark
<1>6. OpPlaces'
  <2> SUFFICES ASSUME world'.crashes = 0
               PROVE  OpPlaces'
    BY DEF OpPlaces
  <2>c. world.crashes = 0
    BY <1>1
  <2>1. \A i \in DOMAIN sent : sent[i].what # "root" => OpInPlace(sent[i].trace, sent[i].of.turn)
    BY <1>3, <2>c DEF OpPlaces
  <2>2. \A m \in Op!Messages : Op!Has(store, LinkKey(m)) => OpInPlace(store[LinkKey(m)].trace, m.turn)
    BY <1>3, <2>c DEF OpPlaces
  <2>3. \A u : OpClosed(u)' <=> OpClosed(u)
    BY OpCameKeeps
  <2> QED
    BY <1>1, <2>c, <2>1, <2>2, <2>3 DEF OpPlaces, OpInPlace
<1> QED
  BY <1>4, <1>5, <1>6

(* What it does not do about a turn, or about a child.                     *)
LEMMA OpTurnCame ==
  ASSUME NEW E, OpInv, OpCame(E), \A x \in E : OpStep(x) /\ OpAside(x)
  PROVE  OpCloses' /\ OpOpens' /\ OpTurn'
<1>1. sent' = sent /\ OpDue' = E /\ world'.crashes = world.crashes
  BY DEF OpCame
<1>2. /\ OpUser' = OpUser /\ OpTrace' = OpTrace /\ OpSpan' = OpSpan /\ (OpOpen' <=> OpOpen)
      /\ \A u : OpClosed(u)' <=> OpClosed(u)
      /\ \A k, v : (OpWrites(k, v)' <=> Op!Set(k, v) \in E) /\ ~OpWrites(k, v)
      /\ \A k : (OpDrops(k)' <=> Op!Delete(k) \in E) /\ ~OpDrops(k)
  BY OpCameKeeps
<1>3. /\ \A u, v : Op!Set(ClosedKey(u), v) \notin E
      /\ \A v : /\ Op!Set(Op!UserKey, v) \notin E /\ Op!Set(Op!TraceKey, v) \notin E
                /\ Op!Set(Op!SpanKey, v) \notin E
      /\ Op!Delete(Op!UserKey) \notin E /\ Op!Delete(Op!TraceKey) \notin E /\ Op!Delete(Op!SpanKey) \notin E
      /\ \A x \in E : ~(x.do = "send" /\ x.span.what = "root")
  BY OpFields DEF OpAside
<1>4. OpTurn
  BY DEF OpInv
<1>5. OpCloses'
  BY <1>1, <1>2, <1>3 DEF OpCloses
<1>6. OpOpens'
  BY <1>2, <1>3 DEF OpOpens
<1>7. OpTurn'
  BY <1>1, <1>2, <1>3, <1>4 DEF OpTurn, OpNoUser
<1> QED
  BY <1>5, <1>6, <1>7

LEMMA OpChildrenCame ==
  ASSUME NEW E, OpInv, OpCame(E),
         \A x \in E : x.do \in {"set", "delete"} => x.key # Op!PendingKey,
         \A m \in Tasks : Op!Set(<<"emitted_agent", m>>, "1") \notin E,
         \A m \in Tasks : \A x \in E : x.do = "send" /\ x.span.what = "llm" /\ x.span.of = Op!Sub(m) => OpKept(m)
  PROVE  OpChildren' /\ \A m \in Tasks : OpCovered(m) => OpCovered(m)'
<1>1. store' = store /\ sent' = sent /\ OpDue' = E /\ OpDue = {}
  BY DEF OpCame
<1>2. /\ \A k, v : (OpWrites(k, v)' <=> Op!Set(k, v) \in E) /\ ~OpWrites(k, v)
      /\ \A k : (OpDrops(k)' <=> Op!Delete(k) \in E) /\ ~OpDrops(k)
      /\ \A w, m : ~OpSends(w, m)
      /\ \A w, m : OpSends(w, m)' <=> \E x \in E : x.do = "send" /\ x.span.what = w /\ x.span.of = m
      /\ \A m : (OpAgent(m)' <=> OpAgent(m)) /\ (OpKept(m)' <=> OpKept(m))
  BY OpCameKeeps
<1>3. OpChildren
  BY DEF OpInv
<1>4. \A m \in Tasks : OpSends("llm", Op!Sub(m))' => OpKept(m)'
  BY <1>2 DEF Op!Sub
<1>5. ~OpDrops(Op!PendingKey)'
  BY <1>2, OpFields
<1>6. OpChildren'
  BY <1>1, <1>2, <1>3, <1>4, <1>5 DEF OpChildren, Op!Sub
<1>7. \A m \in Tasks : OpCovered(m) => OpCovered(m)'
  BY <1>1, <1>2 DEF OpCovered
<1> QED
  BY <1>6, <1>7

(* It closes the turn that is open.                                        *)
LEMMA OpCloseSteps ==
  ASSUME NEW out, OpInv, NEW x \in OpCloseSet(out)
  PROVE  /\ OpStep(x) /\ OpOpen
         /\ \/ x = Op!Send(OpRoot(out)) /\ x.span = OpRoot(out) /\ x.do = "send"
            \/ OpUser # None /\ x = Op!Set(ClosedKey(OpUser), "1")
            \/ x \in {Op!Delete(Op!TraceKey), Op!Delete(Op!SpanKey), Op!Delete(Op!UserKey)}
<1>1. OpOpen /\ \/ x = Op!Send(OpRoot(out))
                \/ OpUser # None /\ x = Op!Set(ClosedKey(OpUser), "1")
                \/ x \in {Op!Delete(Op!TraceKey), Op!Delete(Op!SpanKey), Op!Delete(Op!UserKey)}
  BY DEF OpCloseSet
<1>2. OpUser # None /\ OpUser \in OpTurns
  BY <1>1 DEF OpInv, OpTurn, OpStored, OpOpen
<1>3. CASE x = Op!Send(OpRoot(out))
  <2>1. x.do = "send" /\ x.span = OpRoot(out)
    BY <1>3, OpFields
  <2>2. OpSpanOf(OpRoot(out))
    BY <1>2 DEF OpRoot, OpSpanOf
  <2> QED
    BY <1>1, <1>3, <2>1, <2>2 DEF OpStep
<1>4. CASE OpUser # None /\ x = Op!Set(ClosedKey(OpUser), "1")
  BY <1>1, <1>2, <1>4 DEF OpStep, OpUpdate
<1>5. CASE x \in {Op!Delete(Op!TraceKey), Op!Delete(Op!SpanKey), Op!Delete(Op!UserKey)}
  BY <1>1, <1>5 DEF OpStep
<1> QED
  BY <1>1, <1>3, <1>4, <1>5

LEMMA OpCloseCame ==
  ASSUME NEW out, NEW N, OpInv, OpCame(OpCloseSet(out) \cup N),
         \A x \in N : x.do = "set" /\ x.key \in {Op!UserKey, Op!TraceKey, Op!SpanKey}
  PROVE  /\ OpCloses' /\ (OpOpen => OpDrops(Op!UserKey)')
         /\ \A k, v : k \in {Op!UserKey, Op!TraceKey, Op!SpanKey} => (OpWrites(k, v)' <=> Op!Set(k, v) \in N)
         /\ \A x \in OpCloseSet(out) : x.do = "send" /\ x.span.what = "root" =>
              (world.crashes = 0 => ~OpRooted(x.span.of))
<1> DEFINE B == OpCloseSet(out)
           E == B \cup N
<1>1. sent' = sent /\ OpDue' = E /\ world'.crashes = world.crashes
  BY DEF OpCame
<1>2. /\ OpUser' = OpUser /\ OpTrace' = OpTrace /\ OpSpan' = OpSpan /\ (OpOpen' <=> OpOpen)
      /\ \A u : OpClosed(u)' <=> OpClosed(u)
      /\ \A k, v : (OpWrites(k, v)' <=> Op!Set(k, v) \in E) /\ ~OpWrites(k, v)
      /\ \A k : (OpDrops(k)' <=> Op!Delete(k) \in E) /\ ~OpDrops(k)
  BY OpCameKeeps
<1>3. \A x \in B : /\ OpStep(x) /\ OpOpen
                   /\ \/ x = Op!Send(OpRoot(out)) /\ x.span = OpRoot(out) /\ x.do = "send"
                      \/ OpUser # None /\ x = Op!Set(ClosedKey(OpUser), "1")
                      \/ x \in {Op!Delete(Op!TraceKey), Op!Delete(Op!SpanKey), Op!Delete(Op!UserKey)}
  BY OpCloseSteps
<1>4. OpOpen => /\ OpUser # None /\ OpUser \in OpTurns
                /\ Op!Set(ClosedKey(OpUser), "1") \in B
                /\ Op!Delete(Op!TraceKey) \in B /\ Op!Delete(Op!SpanKey) \in B /\ Op!Delete(Op!UserKey) \in B
  <2>1. OpOpen => OpUser # None /\ OpUser \in OpTurns
    BY DEF OpInv, OpTurn, OpStored, OpOpen
  <2> QED
    BY <2>1 DEF OpCloseSet
<1>f. /\ \A k, v, l : Op!Set(k, v) # Op!Delete(l)
      /\ \A k, v, s : Op!Set(k, v) # Op!Send(s)
      /\ \A k, l, v, w : Op!Set(k, v) = Op!Set(l, w) => k = l /\ v = w
      /\ \A k, l : Op!Delete(k) = Op!Delete(l) => k = l
      /\ \A k, s : Op!Delete(k) # Op!Send(s)
      /\ \A k, v : Op!Set(k, v).do = "set" /\ Op!Set(k, v).key = k
      /\ \A k : Op!Delete(k).do = "delete"
  BY OpFields
<1>k. \A u : ClosedKey(u) \notin {Op!UserKey, Op!TraceKey, Op!SpanKey}
  BY OpKeys DEF ClosedKey
<1> HIDE DEF B
<1>5. \A k : Op!Delete(k) \in E => OpOpen
  BY <1>3, <1>f
<1>6. \A u : Op!Set(ClosedKey(u), "1") \in E => u = OpUser /\ OpOpen
  <2> SUFFICES ASSUME NEW u, Op!Set(ClosedKey(u), "1") \in E
               PROVE  u = OpUser /\ OpOpen
    OBVIOUS
  <2>1. Op!Set(ClosedKey(u), "1") \in B
    BY <1>f, <1>k
  <2>2. ClosedKey(u) = ClosedKey(OpUser)
    BY <1>3, <1>f, <2>1
  <2>3. ClosedKey(u)[2] = u /\ ClosedKey(OpUser)[2] = OpUser
    BY DEF ClosedKey
  <2> QED
    BY <1>3, <2>1, <2>2, <2>3
<1>7. \A x \in E : x.do = "send" => x \in B /\ x.span = OpRoot(out) /\ OpOpen
  BY <1>3, <1>f
<1>8. OpCloses'
  <2>1. \A x \in E : x.do = "send" /\ x.span.what = "root" =>
          /\ x.span.of = OpUser /\ x.span.id = OpSpan /\ x.span.trace = OpTrace /\ OpOpen
          /\ Op!Set(ClosedKey(OpUser), "1") \in E
    BY <1>4, <1>7 DEF OpRoot
  <2>2. \A x \in E : x.do = "send" /\ x.span.what = "root" => OpWrites(ClosedKey(OpUser), "1")'
    BY <1>1, <1>2, <2>1 DEF OpWrites
  <2>3. \A u \in OpTurns : OpWrites(ClosedKey(u), "1")' => OpUser' = u /\ OpOpen' /\ OpDrops(Op!TraceKey)'
    BY <1>2, <1>4, <1>6
  <2>4. /\ OpDrops(Op!TraceKey)' => OpDrops(Op!SpanKey)'
        /\ OpDrops(Op!SpanKey)' => OpDrops(Op!UserKey)'
    BY <1>2, <1>4, <1>5
  <2>5. OpDrops(Op!UserKey)' => /\ OpUser # None /\ Op!Set(ClosedKey(OpUser), "1") \in E
                                /\ OpDrops(Op!TraceKey)'
    BY <1>2, <1>4, <1>5
  <2>6. OpDrops(Op!UserKey)' => OpWrites(ClosedKey(OpUser), "1")'
    BY <1>1, <1>2, <2>5 DEF OpWrites
  <2> QED
    BY <1>1, <1>2, <2>1, <2>2, <2>3, <2>4, <2>5, <2>6 DEF OpCloses
<1>9. \A k, v : k \in {Op!UserKey, Op!TraceKey, Op!SpanKey} => (OpWrites(k, v)' <=> Op!Set(k, v) \in N)
  BY <1>2, <1>3, <1>f, <1>k
<1>10. \A x \in B : x.do = "send" /\ x.span.what = "root" => (world.crashes = 0 => ~OpRooted(x.span.of))
  <2> SUFFICES ASSUME NEW x \in B, x.do = "send", world.crashes = 0, OpRooted(x.span.of)
               PROVE  FALSE
    OBVIOUS
  <2>1. x.span.of = OpUser /\ OpOpen
    BY <1>7 DEF OpRoot
  <2>2. OpTurn
    BY DEF OpInv
  <2>3. OpClosed(OpUser)
    BY <1>2, <2>1, <2>2 DEF OpTurn, OpRooted
  <2> QED
    BY <1>2, <2>1, <2>2, <2>3 DEF OpTurn
<1> QED
  BY <1>2, <1>4, <1>8, <1>9, <1>10 DEF B

LEMMA OpRootCame ==
  ASSUME NEW out, OpInv, OpCame(OpCloseSet(out))
  PROVE  /\ \A x \in OpCloseSet(out) : OpStep(x)
         /\ OpReserved' /\ OpMarked' /\ OpPlaces' /\ OpCloses' /\ OpOpens' /\ OpTurn' /\ OpChildren'
         /\ \A m \in Tasks : OpCovered(m) => OpCovered(m)'
<1> DEFINE B == OpCloseSet(out)
<1>1. sent' = sent /\ OpDue' = B /\ world'.crashes = world.crashes
  BY DEF OpCame
<1>2. /\ OpUser' = OpUser /\ OpTrace' = OpTrace /\ OpSpan' = OpSpan /\ (OpOpen' <=> OpOpen)
      /\ \A u : OpClosed(u)' <=> OpClosed(u)
      /\ \A k, v : ~OpWrites(k, v)
      /\ \A k : ~OpDrops(k)
  BY OpCameKeeps
<1>3. \A x \in B : /\ OpStep(x) /\ OpOpen
                   /\ \/ x = Op!Send(OpRoot(out)) /\ x.span = OpRoot(out) /\ x.do = "send"
                      \/ OpUser # None /\ x = Op!Set(ClosedKey(OpUser), "1")
                      \/ x \in {Op!Delete(Op!TraceKey), Op!Delete(Op!SpanKey), Op!Delete(Op!UserKey)}
  BY OpCloseSteps
<1>4. /\ OpCloses' /\ (OpOpen => OpDrops(Op!UserKey)')
      /\ \A k, v : k \in {Op!UserKey, Op!TraceKey, Op!SpanKey} => ~OpWrites(k, v)'
      /\ \A x \in B : x.do = "send" /\ x.span.what = "root" => (world.crashes = 0 => ~OpRooted(x.span.of))
  <2> DEFINE N == {}
  <2>1. OpCame(OpCloseSet(out) \cup N)
    BY DEF OpCame
  <2>2. \A x \in N : x.do = "set" /\ x.key \in {Op!UserKey, Op!TraceKey, Op!SpanKey}
    OBVIOUS
  <2>3. \A k, v : Op!Set(k, v) \notin N
    OBVIOUS
  <2> HIDE DEF N
  <2>4. /\ OpCloses' /\ (OpOpen => OpDrops(Op!UserKey)')
        /\ \A k, v : k \in {Op!UserKey, Op!TraceKey, Op!SpanKey} => (OpWrites(k, v)' <=> Op!Set(k, v) \in N)
        /\ \A x \in OpCloseSet(out) : x.do = "send" /\ x.span.what = "root" =>
             (world.crashes = 0 => ~OpRooted(x.span.of))
    BY <2>1, <2>2, OpCloseCame
  <2> QED
    BY <2>3, <2>4
<1> HIDE DEF B
<1>5. OpTurn
  BY DEF OpInv
<1>6. OpOpens'
  BY <1>4 DEF OpOpens
<1>7. OpTurn'
  BY <1>1, <1>2, <1>4, <1>5 DEF OpTurn, OpNoUser
<1>8. \A x \in B : /\ x.do = "send" => x.span.what = "root"
                   /\ x.do = "set" => x.key = ClosedKey(OpUser)
                   /\ x.do = "delete" => x.key # Op!PendingKey
  <2>1. OpRoot(out).what = "root"
    BY DEF OpRoot
  <2> QED
    BY <1>3, <2>1, OpFields, OpKeys
<1>9. ClosedKey(OpUser) # Op!PendingKey /\ ClosedKey(OpUser)[1] = "closed_user"
  BY OpKeys DEF ClosedKey
<1>10. "closed_user" \notin OpNames /\ \A m : LinkKey(m)[1] = "tool_link"
  BY DEF OpNames, LinkKey
<1>11. OpReserved' /\ OpMarked' /\ OpPlaces'
  <2>1. /\ \A x \in B : ~(x.do = "send" /\ x.span.what # "root")
        /\ \A x \in B : ~(x.do = "set" /\ x.key[1] \in OpNames)
        /\ \A m \in Op!Messages : \A x \in B : ~(x.do = "set" /\ x.key = LinkKey(m))
    BY <1>8, <1>9, <1>10
  <2>2. OpCame(B)
    BY DEF B
  <2> QED
    BY <1>4, <2>1, <2>2, OpSpansCame
<1>12. OpChildren' /\ \A m \in Tasks : OpCovered(m) => OpCovered(m)'
  <2>1. /\ \A x \in B : x.do \in {"set", "delete"} => x.key # Op!PendingKey
        /\ \A m \in Tasks : Op!Set(<<"emitted_agent", m>>, "1") \notin B
        /\ \A x \in B : ~(x.do = "send" /\ x.span.what = "llm")
    BY <1>8, <1>9, OpFields
  <2>2. OpCame(B)
    BY DEF B
  <2> QED
    BY <2>1, <2>2, OpChildrenCame
<1> QED
  BY <1>3, <1>4, <1>6, <1>7, <1>11, <1>12 DEF B

LEMMA OpUserCame ==
  ASSUME OpInv, NEW h \in OpHooks, NEW u \in OpTurns, OpCame(OpUserSet(h, u))
  PROVE  /\ \A x \in OpUserSet(h, u) : OpStep(x)
         /\ OpReserved' /\ OpMarked' /\ OpPlaces' /\ OpCloses' /\ OpOpens' /\ OpTurn' /\ OpChildren'
         /\ \A m \in Tasks : OpCovered(m) => OpCovered(m)'
         /\ OpSeen(u)'
<1> DEFINE d == Op!Id(h, <<"trace", u>>)
           e == Op!Id(h, <<"turn", u>>)
           N == {Op!Set(Op!UserKey, u), Op!Set(Op!TraceKey, d), Op!Set(Op!SpanKey, e)}
           B == OpCloseSet(None)
<1>s. \A x \in B : /\ OpStep(x) /\ OpOpen
                   /\ \/ x = Op!Send(OpRoot(None)) /\ x.span = OpRoot(None) /\ x.do = "send"
                      \/ OpUser # None /\ x = Op!Set(ClosedKey(OpUser), "1")
                      \/ x \in {Op!Delete(Op!TraceKey), Op!Delete(Op!SpanKey), Op!Delete(Op!UserKey)}
  BY OpCloseSteps
<1>e. OpUserSet(h, u) = IF ~OpClosed(u) /\ OpUser # u THEN B \cup N ELSE {}
  <2>1. OpTrace = None => B = {}
    BY DEF OpCloseSet, OpOpen
  <2> QED
    BY <2>1 DEF OpUserSet
<1>i. d \in Op!Drawn /\ e \in Op!Drawn /\ d.of[2] = u
  <2>1. <<"trace", u>> \in {"trace", "turn"} \X (1 .. MaxTurns) /\ <<"turn", u>> \in {"trace", "turn"} \X (1 .. MaxTurns)
    BY DEF OpTurns
  <2> QED
    BY <2>1 DEF Op!Id, Op!Drawn, OpHooks
<1> HIDE DEF B, d, e
<1>2. /\ OpUser' = OpUser /\ OpTrace' = OpTrace /\ OpSpan' = OpSpan /\ (OpOpen' <=> OpOpen)
      /\ \A v : OpClosed(v)' <=> OpClosed(v)
      /\ \A v : OpRooted(v)' <=> OpRooted(v)
      /\ \A k, v : ~OpWrites(k, v)
      /\ \A k : ~OpDrops(k)
  BY OpCameKeeps
<1>3. CASE ~(~OpClosed(u) /\ OpUser # u)
  <2>1. OpUserSet(h, u) = {} /\ OpCame({})
    BY <1>e, <1>3
  <2>2. OpReserved' /\ OpMarked' /\ OpPlaces'
    BY <2>1, OpSpansCame
  <2>3. OpCloses' /\ OpOpens' /\ OpTurn'
    BY <2>1, OpTurnCame
  <2>4. OpChildren' /\ \A m \in Tasks : OpCovered(m) => OpCovered(m)'
    BY <2>1, OpChildrenCame
  <2>5. OpSeen(u)'
    BY <1>2, <1>3 DEF OpSeen
  <2> QED
    BY <2>1, <2>2, <2>3, <2>4, <2>5
<1>4. CASE ~OpClosed(u) /\ OpUser # u
  <2> DEFINE E == B \cup N
  <2>1. OpUserSet(h, u) = E /\ OpCame(E)
    BY <1>e, <1>4
  <2>f. /\ \A k, l, v, w : Op!Set(k, v) = Op!Set(l, w) => k = l /\ v = w
        /\ \A k, v : Op!Set(k, v).do = "set" /\ Op!Set(k, v).key = k
        /\ \A k : Op!Delete(k).do = "delete" /\ Op!Delete(k).key = k
    BY OpFields
  <2>n. \A x \in N : x.do = "set" /\ x.key \in {Op!UserKey, Op!TraceKey, Op!SpanKey}
    BY <2>f
  <2>k. /\ \A v : Op!Set(Op!UserKey, v) \in N <=> v = u
        /\ \A v : Op!Set(Op!TraceKey, v) \in N <=> v = d
        /\ \A v : Op!Set(Op!SpanKey, v) \in N <=> v = e
    BY <2>f, OpKeys
  <2>3. \A x \in N : OpStep(x)
    BY <1>i DEF OpStep, OpUpdate
  <2> HIDE DEF N
  <2>4. /\ OpCloses' /\ (OpOpen => OpDrops(Op!UserKey)')
        /\ \A k, v : k \in {Op!UserKey, Op!TraceKey, Op!SpanKey} => (OpWrites(k, v)' <=> Op!Set(k, v) \in N)
        /\ \A x \in B : x.do = "send" /\ x.span.what = "root" => (world.crashes = 0 => ~OpRooted(x.span.of))
    BY <2>1, <2>n, OpCloseCame DEF B
  <2>5. /\ \A v : OpWrites(Op!UserKey, v)' <=> v = u
        /\ \A v : OpWrites(Op!TraceKey, v)' <=> v = d
        /\ \A v : OpWrites(Op!SpanKey, v)' <=> v = e
    BY <2>4, <2>k
  <2>6. OpTurn
    BY DEF OpInv
  <2>7. ~OpRooted(u)
    BY <1>4, <2>6 DEF OpTurn, OpRooted
  <2>8. OpOpens'
    BY <1>2, <1>4, <1>i, <2>4, <2>5, <2>7 DEF OpOpens, OpNoUser
  <2>9. OpTurn'
    <3>1. sent' = sent /\ world'.crashes = world.crashes
      BY DEF OpCame
    <3> QED
      BY <1>2, <2>4, <2>6, <3>1 DEF OpTurn, OpNoUser
  <2>10. \A x \in E : /\ x.do = "send" => x.span.what = "root" /\ x \in B
                      /\ x.do = "set" => x.key \in {Op!UserKey, Op!TraceKey, Op!SpanKey, ClosedKey(OpUser)}
                      /\ x.do = "delete" => x.key # Op!PendingKey
    <3>1. OpRoot(None).what = "root"
      BY DEF OpRoot
    <3> QED
      BY <1>s, <2>f, <2>n, <3>1, OpKeys
  <2>11. /\ \A k \in {Op!UserKey, Op!TraceKey, Op!SpanKey, ClosedKey(OpUser)} :
              /\ k # Op!PendingKey
              /\ \A n, m : n \in OpNames \cup {"tool_link", "emitted_agent"} => k # <<n, m>>
         /\ Op!UserKey[1] \notin OpNames /\ Op!TraceKey[1] \notin OpNames /\ Op!SpanKey[1] \notin OpNames
         /\ ClosedKey(OpUser)[1] \notin OpNames
    <3>1. /\ \A n, m : n \in OpNames \cup {"tool_link", "emitted_agent"} =>
               <<n, m>>[1] # "closed_user"
          /\ ClosedKey(OpUser)[1] = "closed_user"
      BY DEF OpNames, ClosedKey
    <3>2. ClosedKey(OpUser) # Op!PendingKey
      BY OpKeys DEF ClosedKey
    <3>3. ClosedKey(OpUser)[1] \notin OpNames
      BY DEF OpNames, ClosedKey
    <3>4. Op!UserKey[1] \notin OpNames /\ Op!TraceKey[1] \notin OpNames /\ Op!SpanKey[1] \notin OpNames
      BY DEF OpNames, Op!UserKey, Op!TraceKey, Op!SpanKey
    <3> QED
      BY <3>1, <3>2, <3>3, <3>4, OpKeys
  <2>12. OpReserved' /\ OpMarked' /\ OpPlaces'
    <3>1. /\ \A x \in E : ~(x.do = "send" /\ x.span.what # "root")
          /\ \A x \in E : ~(x.do = "set" /\ x.key[1] \in OpNames)
          /\ \A m \in Op!Messages : \A x \in E : ~(x.do = "set" /\ x.key = LinkKey(m))
          /\ \A x \in E : x.do = "send" /\ x.span.what = "root" => (world.crashes = 0 => ~OpRooted(x.span.of))
      BY <2>4, <2>10, <2>11 DEF LinkKey
    <3> HIDE DEF E
    <3> QED
      BY <2>1, <3>1, OpSpansCame
  <2>13. OpChildren' /\ \A m \in Tasks : OpCovered(m) => OpCovered(m)'
    <3>1. /\ \A x \in E : x.do \in {"set", "delete"} => x.key # Op!PendingKey
          /\ \A m \in Tasks : Op!Set(<<"emitted_agent", m>>, "1") \notin E
          /\ \A x \in E : ~(x.do = "send" /\ x.span.what = "llm")
      BY <2>f, <2>10, <2>11
    <3> HIDE DEF E
    <3> QED
      BY <2>1, <3>1, OpChildrenCame
  <2>14. OpSeen(u)'
    BY <2>5 DEF OpSeen
  <2> QED
    BY <1>s, <2>1, <2>3, <2>4, <2>8, <2>9, <2>12, <2>13, <2>14
<1> QED
  BY <1>3, <1>4

(* It sends the span of an answer, of a call, of a subagent.               *)
LEMMA OpReserveSteps ==
  ASSUME NEW h \in OpHooks, NEW n \in OpNames, NEW m \in Op!Messages, NEW x \in OpReserveSet(h, <<n, m>>)
  PROVE  /\ x = Op!Set(<<n, m>>, Op!Id(h, <<n, m>>)) /\ ~Op!Has(store, <<n, m>>)
         /\ OpStep(x) /\ OpAside(x)
<1>1. x = Op!Set(<<n, m>>, Op!Id(h, <<n, m>>)) /\ ~Op!Has(store, <<n, m>>)
  BY DEF OpReserveSet
<1>2. Op!Id(h, <<n, m>>) \in Op!Drawn
  BY DEF Op!Id, Op!Drawn, OpHooks, OpNames
<1>3. <<n, m>> \notin {Op!TraceKey, Op!SpanKey, Op!UserKey, Op!PendingKey} /\ \A u : <<n, m>> # ClosedKey(u)
  <2>1. \A u : <<n, m>>[1] # ClosedKey(u)[1]
    BY DEF OpNames, ClosedKey
  <2> QED
    BY <2>1, OpKeys
<1>4. OpAside(x)
  BY <1>1, <1>3, OpFields DEF OpAside
<1>5. OpStep(x)
  BY <1>1, <1>2 DEF OpStep, OpUpdate
<1> QED
  BY <1>1, <1>4, <1>5

LEMMA OpMarkSteps ==
  ASSUME NEW n \in OpMarks, NEW m \in Op!Messages
  PROVE  OpStep(Op!Set(<<n, m>>, "1")) /\ OpAside(Op!Set(<<n, m>>, "1"))
<1>1. <<n, m>> \notin {Op!TraceKey, Op!SpanKey, Op!UserKey, Op!PendingKey} /\ \A u : <<n, m>> # ClosedKey(u)
  <2>1. \A u : <<n, m>>[1] # ClosedKey(u)[1]
    BY DEF OpMarks, ClosedKey
  <2> QED
    BY <2>1, OpKeys
<1>2. OpAside(Op!Set(<<n, m>>, "1"))
  BY <1>1, OpFields DEF OpAside
<1>3. OpStep(Op!Set(<<n, m>>, "1"))
  BY DEF OpStep, OpUpdate
<1> QED
  BY <1>2, <1>3

LEMMA OpSendSteps ==
  ASSUME NEW s, s.what \in OpSpans, s.of \in Op!Messages
  PROVE  OpStep(Op!Send(s)) /\ OpAside(Op!Send(s))
<1>1. OpSpanOf(s) /\ s.what # "root"
  BY DEF OpSpanOf, OpSpans
<1>2. Op!Send(s).do = "send" /\ Op!Send(s).span = s
  BY OpFields
<1> QED
  BY <1>1, <1>2 DEF OpStep, OpAside

(* The id of a span is reserved, or will be.                               *)
LEMMA OpSpanIds ==
  ASSUME NEW h, NEW k
  PROVE  \/ Op!Has(store, k) /\ store[k] = Op!SpanId(h, k)
         \/ Op!Set(k, Op!SpanId(h, k)) \in OpReserveSet(h, k)
BY DEF Op!SpanId, OpReserveSet

LEMMA OpLlmCame ==
  ASSUME OpInv, NEW h \in OpHooks, NEW m \in Op!Messages, NEW under, OpCame(OpLlmSet(h, m, under)),
         world.crashes = 0 /\ under.trace # None /\ under.span # None => OpInPlace(under.trace, m.turn),
         \A n \in Tasks : m = Op!Sub(n) => OpKept(n)
  PROVE  /\ \A x \in OpLlmSet(h, m, under) : OpStep(x)
         /\ OpReserved' /\ OpMarked' /\ OpPlaces' /\ OpCloses' /\ OpOpens' /\ OpTurn' /\ OpChildren'
         /\ \A n \in Tasks : OpCovered(n) => OpCovered(n)'
<1> DEFINE E == OpLlmSet(h, m, under)
           s == OpLlm(h, m, under)
           k == <<"span_msg", m>>
           R == OpReserveSet(h, k)
           due == ~Op!Has(store, <<"emitted_msg", m>>) /\ under.trace # None /\ under.span # None
           mark == Op!Set(<<"emitted_msg", m>>, "1")
<1>1. \A x \in E : due /\ (x \in R \/ x = Op!Send(s) \/ x = mark)
  BY DEF OpLlmSet
<1>2. due => R \subseteq E /\ mark \in E
  BY DEF OpLlmSet
<1>3. \A x \in R : x = Op!Set(k, Op!Id(h, k)) /\ ~Op!Has(store, k) /\ OpStep(x) /\ OpAside(x)
  BY OpReserveSteps DEF OpNames
<1>4. OpStep(mark) /\ OpAside(mark)
  BY OpMarkSteps DEF OpMarks
<1>5. s.what = "llm" /\ s.of = m /\ s.trace = under.trace /\ s.id = Op!SpanId(h, k)
  BY DEF OpLlm
<1>6. OpStep(Op!Send(s)) /\ OpAside(Op!Send(s))
  BY <1>5, OpSendSteps DEF OpSpans
<1>7. OpIdKey(s) = k /\ OpMark(s) = <<"emitted_msg", m>>
  BY <1>5 DEF OpIdKey, OpMark
<1>8. \/ Op!Has(store, k) /\ store[k] = s.id
      \/ Op!Set(k, s.id) \in R
  BY <1>5, OpSpanIds
<1>k. /\ \A n : <<"emitted_msg", m>> # LinkKey(n) /\ <<"emitted_msg", m>> # <<"emitted_agent", n>>
      /\ \A n : k # LinkKey(n) /\ k # <<"emitted_agent", n>>
      /\ <<"emitted_msg", m>>[1] \notin OpNames /\ <<"emitted_msg", m>> # Op!PendingKey /\ k # Op!PendingKey
  <2>1. \A n : /\ <<"emitted_msg", m>>[1] # LinkKey(n)[1] /\ <<"emitted_msg", m>>[1] # <<"emitted_agent", n>>[1]
               /\ k[1] # LinkKey(n)[1] /\ k[1] # <<"emitted_agent", n>>[1]
    BY DEF LinkKey
  <2>2. <<"emitted_msg", m>>[1] \notin OpNames
    BY DEF OpNames
  <2> QED
    BY <2>1, <2>2, OpKeys
<1> HIDE DEF E, s, k, R, mark
<1>9. \A x \in E : /\ OpStep(x) /\ OpAside(x) /\ due
                   /\ x.do = "send" => x.span = s
                   /\ x.do = "delete" => FALSE
                   /\ x.do = "set" => \/ x.key = k /\ ~Op!Has(store, k)
                                      \/ x.key = <<"emitted_msg", m>>
  BY <1>1, <1>3, <1>4, <1>6, OpFields DEF mark
<1>c. OpCame(E)
  BY DEF E
<1>10. OpReserved' /\ OpMarked' /\ OpPlaces'
  <2>1. \A x \in E : x.do = "send" /\ x.span.what # "root" =>
           /\ \/ Op!Has(store, OpIdKey(x.span)) /\ store[OpIdKey(x.span)] = x.span.id
              \/ Op!Set(OpIdKey(x.span), x.span.id) \in E
           /\ Op!Set(OpMark(x.span), "1") \in E /\ ~Op!Has(store, OpMark(x.span))
           /\ world.crashes = 0 => OpInPlace(x.span.trace, x.span.of.turn)
    <3> SUFFICES ASSUME NEW x \in E, x.do = "send"
                 PROVE  /\ \/ Op!Has(store, OpIdKey(x.span)) /\ store[OpIdKey(x.span)] = x.span.id
                           \/ Op!Set(OpIdKey(x.span), x.span.id) \in E
                        /\ Op!Set(OpMark(x.span), "1") \in E /\ ~Op!Has(store, OpMark(x.span))
                        /\ world.crashes = 0 => OpInPlace(x.span.trace, x.span.of.turn)
      OBVIOUS
    <3>1. x.span = s /\ due
      BY <1>9
    <3> QED
      BY <1>2, <1>5, <1>7, <1>8, <3>1 DEF mark
  <2>2. \A x \in E : ~(x.do = "send" /\ x.span.what = "root")
    BY <1>5, <1>9
  <2>3. \A x \in E : x.do = "set" /\ x.key[1] \in OpNames => ~Op!Has(store, x.key)
    BY <1>9, <1>k
  <2>4. \A n \in Op!Messages : \A x \in E : ~(x.do = "set" /\ x.key = LinkKey(n))
    BY <1>9, <1>k
  <2> QED
    BY <1>c, <2>1, <2>2, <2>3, <2>4, OpSpansCame
<1>11. OpCloses' /\ OpOpens' /\ OpTurn'
  BY <1>9, <1>c, OpTurnCame
<1>12. OpChildren' /\ \A n \in Tasks : OpCovered(n) => OpCovered(n)'
  <2>1. \A x \in E : x.do \in {"set", "delete"} => x.key # Op!PendingKey
    BY <1>9, <1>k
  <2>2. \A n \in Tasks : Op!Set(<<"emitted_agent", n>>, "1") \notin E
    BY <1>9, <1>k, OpFields
  <2>3. \A n \in Tasks : \A x \in E : x.do = "send" /\ x.span.what = "llm" /\ x.span.of = Op!Sub(n) => OpKept(n)
    BY <1>5, <1>9
  <2> QED
    BY <1>c, <2>1, <2>2, <2>3, OpChildrenCame
<1> QED
  BY <1>9, <1>10, <1>11, <1>12 DEF E

LEMMA OpToolCame ==
  ASSUME OpInv, NEW h \in OpHooks, NEW m \in Op!Messages, NEW under, OpCame(OpToolSet(h, m, under)),
         under.trace # None /\ under.span # None => under \in OpLinks,
         world.crashes = 0 /\ under.trace # None /\ under.span # None => OpInPlace(under.trace, m.turn)
  PROVE  /\ \A x \in OpToolSet(h, m, under) : OpStep(x)
         /\ OpReserved' /\ OpMarked' /\ OpPlaces' /\ OpCloses' /\ OpOpens' /\ OpTurn' /\ OpChildren'
         /\ \A n \in Tasks : OpCovered(n) => OpCovered(n)'
<1> DEFINE E == OpToolSet(h, m, under)
           s == OpTool(h, m, under)
           j == <<"span_msg", m>>
           k == <<"span_tool", m>>
           Q == OpReserveSet(h, j)
           R == OpReserveSet(h, k)
           due == ~Op!Has(store, <<"emitted_tool", m>>) /\ under.trace # None /\ under.span # None
           link == Op!Set(LinkKey(m), under)
           mark == Op!Set(<<"emitted_tool", m>>, "1")
<1>1. \A x \in E : due /\ (x \in Q \/ x \in R \/ x = Op!Send(s) \/ x = link \/ x = mark)
  BY DEF OpToolSet
<1>2. due => R \subseteq E /\ mark \in E
  BY DEF OpToolSet
<1>3. /\ \A x \in Q : x = Op!Set(j, Op!Id(h, j)) /\ ~Op!Has(store, j) /\ OpStep(x) /\ OpAside(x)
      /\ \A x \in R : x = Op!Set(k, Op!Id(h, k)) /\ ~Op!Has(store, k) /\ OpStep(x) /\ OpAside(x)
  BY OpReserveSteps DEF OpNames
<1>4. OpStep(mark) /\ OpAside(mark)
  BY OpMarkSteps DEF OpMarks
<1>5. s.what = "tool" /\ s.of = m /\ s.trace = under.trace /\ s.id = Op!SpanId(h, k)
  BY DEF OpTool
<1>6. OpStep(Op!Send(s)) /\ OpAside(Op!Send(s))
  BY <1>5, OpSendSteps DEF OpSpans
<1>7. OpIdKey(s) = k /\ OpMark(s) = <<"emitted_tool", m>>
  BY <1>5 DEF OpIdKey, OpMark
<1>8. \/ Op!Has(store, k) /\ store[k] = s.id
      \/ Op!Set(k, s.id) \in R
  BY <1>5, OpSpanIds
<1>k. /\ \A n : <<"emitted_tool", m>> # LinkKey(n) /\ <<"emitted_tool", m>> # <<"emitted_agent", n>>
      /\ \A n : j # LinkKey(n) /\ j # <<"emitted_agent", n>> /\ k # LinkKey(n) /\ k # <<"emitted_agent", n>>
      /\ \A n : LinkKey(m) # <<"emitted_agent", n>> /\ LinkKey(m) # ClosedKey(n)
      /\ \A n : LinkKey(m) = LinkKey(n) => m = n
      /\ <<"emitted_tool", m>>[1] \notin OpNames /\ LinkKey(m)[1] \notin OpNames
      /\ Op!PendingKey \notin {<<"emitted_tool", m>>, j, k, LinkKey(m)}
      /\ LinkKey(m) \notin {Op!UserKey, Op!TraceKey, Op!SpanKey}
  <2>1. \A n : /\ <<"emitted_tool", m>>[1] # LinkKey(n)[1] /\ <<"emitted_tool", m>>[1] # <<"emitted_agent", n>>[1]
               /\ j[1] # LinkKey(n)[1] /\ j[1] # <<"emitted_agent", n>>[1]
               /\ k[1] # LinkKey(n)[1] /\ k[1] # <<"emitted_agent", n>>[1]
               /\ LinkKey(m)[1] # <<"emitted_agent", n>>[1] /\ LinkKey(m)[1] # ClosedKey(n)[1]
               /\ LinkKey(n)[2] = n
    BY DEF LinkKey, ClosedKey
  <2>2. <<"emitted_tool", m>>[1] \notin OpNames /\ LinkKey(m)[1] \notin OpNames
    BY DEF OpNames, LinkKey
  <2>3. /\ Op!PendingKey \notin {<<"emitted_tool", m>>, j, k, LinkKey(m)}
        /\ LinkKey(m) \notin {Op!UserKey, Op!TraceKey, Op!SpanKey}
    BY OpKeys DEF LinkKey
  <2> QED
    BY <2>1, <2>2, <2>3
<1>l. due => OpStep(link) /\ OpAside(link)
  <2>1. OpAside(link)
    BY <1>k, OpFields DEF OpAside
  <2> QED
    BY <2>1 DEF OpStep, OpUpdate
<1> HIDE DEF E, s, j, k, Q, R, mark, link
<1>9. \A x \in E : /\ OpStep(x) /\ OpAside(x) /\ due
                   /\ x.do = "send" => x.span = s
                   /\ x.do = "delete" => FALSE
                   /\ x.do = "set" => \/ x.key \in {j, k} /\ ~Op!Has(store, x.key)
                                      \/ x.key = <<"emitted_tool", m>>
                                      \/ x.key = LinkKey(m) /\ x.val = under
  BY <1>1, <1>3, <1>4, <1>6, <1>l, OpFields DEF mark, link
<1>c. OpCame(E)
  BY DEF E
<1>10. OpReserved' /\ OpMarked' /\ OpPlaces'
  <2>1. \A x \in E : x.do = "send" /\ x.span.what # "root" =>
           /\ \/ Op!Has(store, OpIdKey(x.span)) /\ store[OpIdKey(x.span)] = x.span.id
              \/ Op!Set(OpIdKey(x.span), x.span.id) \in E
           /\ Op!Set(OpMark(x.span), "1") \in E /\ ~Op!Has(store, OpMark(x.span))
           /\ world.crashes = 0 => OpInPlace(x.span.trace, x.span.of.turn)
    <3> SUFFICES ASSUME NEW x \in E, x.do = "send"
                 PROVE  /\ \/ Op!Has(store, OpIdKey(x.span)) /\ store[OpIdKey(x.span)] = x.span.id
                           \/ Op!Set(OpIdKey(x.span), x.span.id) \in E
                        /\ Op!Set(OpMark(x.span), "1") \in E /\ ~Op!Has(store, OpMark(x.span))
                        /\ world.crashes = 0 => OpInPlace(x.span.trace, x.span.of.turn)
      OBVIOUS
    <3>1. x.span = s /\ due
      BY <1>9
    <3> QED
      BY <1>2, <1>5, <1>7, <1>8, <3>1 DEF mark
  <2>2. \A x \in E : ~(x.do = "send" /\ x.span.what = "root")
    BY <1>5, <1>9
  <2>3. \A x \in E : x.do = "set" /\ x.key[1] \in OpNames => ~Op!Has(store, x.key)
    BY <1>9, <1>k
  <2>4. \A n \in Op!Messages : \A x \in E : x.do = "set" /\ x.key = LinkKey(n) =>
          (world.crashes = 0 => OpInPlace(x.val.trace, n.turn))
    <3> SUFFICES ASSUME NEW n \in Op!Messages, NEW x \in E, x.do = "set", x.key = LinkKey(n), world.crashes = 0
                 PROVE  OpInPlace(x.val.trace, n.turn)
      OBVIOUS
    <3>1. x.key = LinkKey(m) /\ x.val = under /\ due
      BY <1>9, <1>k
    <3>2. m = n
      BY <1>k, <3>1
    <3> QED
      BY <3>1, <3>2
  <2> QED
    BY <1>c, <2>1, <2>2, <2>3, <2>4, OpSpansCame
<1>11. OpCloses' /\ OpOpens' /\ OpTurn'
  BY <1>9, <1>c, OpTurnCame
<1>12. OpChildren' /\ \A n \in Tasks : OpCovered(n) => OpCovered(n)'
  <2>1. \A x \in E : x.do \in {"set", "delete"} => x.key # Op!PendingKey
    BY <1>9, <1>k
  <2>2. \A n \in Tasks : Op!Set(<<"emitted_agent", n>>, "1") \notin E
    BY <1>9, <1>k, OpFields
  <2>3. \A x \in E : ~(x.do = "send" /\ x.span.what = "llm")
    BY <1>5, <1>9
  <2> QED
    BY <1>c, <2>1, <2>2, <2>3, OpChildrenCame
<1> QED
  BY <1>9, <1>10, <1>11, <1>12 DEF E

(* A child session: its agent span is sent by a close.                     *)
LEMMA OpLinkOf ==
  ASSUME OpInv, NEW m \in Tasks, Op!ChildLink(m) # None
  PROVE  /\ m \in Op!Messages /\ Op!ChildLink(m) \in OpLinks
         /\ world.crashes = 0 => OpInPlace(Op!ChildLink(m).trace, m.turn)
<1>1. Tasks \subseteq Op!Messages
  BY HarnessesAssumption DEF Op!OpencodeAssumption
<1>2. Op!Has(store, LinkKey(m)) /\ Op!ChildLink(m) = store[LinkKey(m)]
  BY DEF Op!ChildLink, Op!Get, Op!Has, LinkKey
<1>3. OpStored /\ OpPlaces
  BY DEF OpInv
<1>4. m \in Op!Messages
  BY <1>1
<1> QED
  BY <1>2, <1>3, <1>4 DEF OpStored, OpPlaces

LEMMA OpChildCame ==
  ASSUME OpInv, NEW h \in OpHooks, NEW m \in Tasks, NEW snap, NEW final \in BOOLEAN, final <=> OpFinal,
         OpCame(OpChildSet(h, m, snap, final))
  PROVE  /\ \A x \in OpChildSet(h, m, snap, final) : OpStep(x)
         /\ OpReserved' /\ OpMarked' /\ OpPlaces' /\ OpCloses' /\ OpOpens' /\ OpTurn' /\ OpChildren'
         /\ \A n \in Tasks : OpCovered(n) => OpCovered(n)'
         /\ Op!ChildLink(m) # None => OpCovered(m)'
<1> DEFINE E == OpChildSet(h, m, snap, final)
           s == OpAgentSpan(h, m, snap)
           j == <<"span_agent", m>>
           k == <<"span_tool", m>>
           Q == OpReserveSet(h, j)
           R == OpReserveSet(h, k)
           due == Op!ChildLink(m) # None
           new == OpNew(m)
           add == Op!Set(Op!PendingKey, Op!Finalizers \cup {m})
           mark == Op!Set(<<"emitted_agent", m>>, "1")
           F == OpForgetSet(m)
<1>1. \A x \in E : /\ due
                   /\ \/ x = add /\ ~final /\ new
                      \/ x \in Q
                      \/ final /\ new /\ (x \in R \/ x = Op!Send(s) \/ x = mark)
                      \/ final /\ x \in F
  BY DEF OpChildSet
<1>2. due => /\ Q \subseteq E
             /\ final /\ new => R \subseteq E /\ mark \in E /\ Op!Send(s) \in E
             /\ ~final /\ new => add \in E
  BY DEF OpChildSet
<1>m. m \in Op!Messages
  BY HarnessesAssumption DEF Op!OpencodeAssumption
<1>3. /\ \A x \in Q : x = Op!Set(j, Op!Id(h, j)) /\ ~Op!Has(store, j) /\ OpStep(x) /\ OpAside(x)
      /\ \A x \in R : x = Op!Set(k, Op!Id(h, k)) /\ ~Op!Has(store, k) /\ OpStep(x) /\ OpAside(x)
  BY <1>m, OpReserveSteps DEF OpNames
<1>4. OpStep(mark) /\ OpAside(mark)
  BY <1>m, OpMarkSteps DEF OpMarks
<1>5. s.what = "agent" /\ s.of = m /\ s.trace = Op!ChildLink(m).trace /\ s.id = Op!SpanId(h, j)
  BY DEF OpAgentSpan
<1>6. OpStep(Op!Send(s)) /\ OpAside(Op!Send(s))
  BY <1>m, <1>5, OpSendSteps DEF OpSpans
<1>7. OpIdKey(s) = j /\ OpMark(s) = <<"emitted_agent", m>>
  BY <1>5 DEF OpIdKey, OpMark
<1>8. \/ Op!Has(store, j) /\ store[j] = s.id
      \/ Op!Set(j, s.id) \in Q
  BY <1>5, OpSpanIds
<1>p. due /\ world.crashes = 0 => OpInPlace(s.trace, m.turn)
  BY <1>5, OpLinkOf
<1>f. Op!Finalizers \subseteq Tasks
  BY DEF OpInv, OpStored
<1>g. \A x \in F : /\ m \in Op!Finalizers
                   /\ \/ x = Op!Delete(Op!PendingKey) /\ Op!Finalizers = {m}
                      \/ x = Op!Set(Op!PendingKey, Op!Finalizers \ {m})
  BY DEF OpForgetSet
<1>h. \A v \in SUBSET Tasks : OpStep(Op!Set(Op!PendingKey, v))
  BY DEF OpStep, OpUpdate
<1>d. OpStep(Op!Delete(Op!PendingKey))
  BY DEF OpStep
<1>k. /\ \A n : /\ <<"emitted_agent", m>> # LinkKey(n) /\ j # LinkKey(n) /\ k # LinkKey(n)
                /\ Op!PendingKey # LinkKey(n) /\ Op!PendingKey # ClosedKey(n)
                /\ j # <<"emitted_agent", n>> /\ k # <<"emitted_agent", n>> /\ Op!PendingKey # <<"emitted_agent", n>>
                /\ <<"emitted_agent", m>> = <<"emitted_agent", n>> => m = n
      /\ <<"emitted_agent", m>>[1] \notin OpNames /\ Op!PendingKey[1] \notin OpNames
      /\ Op!PendingKey \notin {<<"emitted_agent", m>>, j, k, Op!UserKey, Op!TraceKey, Op!SpanKey}
  <2>1. \A n : /\ <<"emitted_agent", m>>[1] # LinkKey(n)[1]
               /\ j[1] # LinkKey(n)[1] /\ j[1] # <<"emitted_agent", n>>[1]
               /\ k[1] # LinkKey(n)[1] /\ k[1] # <<"emitted_agent", n>>[1]
               /\ <<"emitted_agent", n>>[2] = n
    BY DEF LinkKey
  <2>2. <<"emitted_agent", m>>[1] \notin OpNames /\ Op!PendingKey[1] \notin OpNames
    BY DEF OpNames, Op!PendingKey
  <2>3. /\ Op!PendingKey \notin {<<"emitted_agent", m>>, j, k, Op!UserKey, Op!TraceKey, Op!SpanKey}
        /\ \A n : Op!PendingKey # LinkKey(n) /\ Op!PendingKey # ClosedKey(n) /\ Op!PendingKey # <<"emitted_agent", n>>
    BY OpKeys DEF LinkKey, ClosedKey
  <2> QED
    BY <2>1, <2>2, <2>3
<1>a. \A x : x.do \in {"set", "delete"} /\ x.key = Op!PendingKey => OpAside(x)
  BY <1>k DEF OpAside
<1>n. new <=> ~Op!Has(store, <<"emitted_agent", m>>)
  BY DEF OpNew
<1> HIDE DEF E, s, j, k, Q, R, mark, add, F, new
<1>9. \A x \in E : /\ due
                   /\ x.do = "send" => x = Op!Send(s) /\ x.span = s /\ final /\ new
                   /\ x.do = "delete" => x = Op!Delete(Op!PendingKey) /\ x.key = Op!PendingKey /\ Op!Finalizers = {m} /\ final
                   /\ x.do = "set" => \/ x.key \in {j, k} /\ ~Op!Has(store, x.key)
                                      \/ x.key = <<"emitted_agent", m>> /\ final /\ new
                                      \/ x.key = Op!PendingKey /\ ~final /\ x.val = Op!Finalizers \cup {m}
                                      \/ x.key = Op!PendingKey /\ final /\ x.val = Op!Finalizers \ {m}
  BY <1>1, <1>3, <1>g, OpFields DEF mark, add
<1>10. \A x \in E : OpStep(x) /\ OpAside(x)
  <2>1. \A x \in F : OpStep(x) /\ OpAside(x)
    <3>1. OpAside(Op!Delete(Op!PendingKey)) /\ \A v : OpAside(Op!Set(Op!PendingKey, v))
      BY <1>a, OpFields
    <3>2. Op!Finalizers \ {m} \in SUBSET Tasks
      BY <1>f
    <3> QED
      BY <1>d, <1>g, <1>h, <3>1, <3>2
  <2>2. OpStep(add) /\ OpAside(add)
    <3>1. Op!Finalizers \cup {m} \in SUBSET Tasks
      BY <1>f
    <3> QED
      BY <1>a, <1>h, <3>1, OpFields DEF add
  <2> QED
    BY <1>1, <1>3, <1>4, <1>6, <2>1, <2>2
<1>c. OpCame(E)
  BY DEF E
<1>11. OpReserved' /\ OpMarked' /\ OpPlaces'
  <2>1. \A x \in E : x.do = "send" /\ x.span.what # "root" =>
           /\ \/ Op!Has(store, OpIdKey(x.span)) /\ store[OpIdKey(x.span)] = x.span.id
              \/ Op!Set(OpIdKey(x.span), x.span.id) \in E
           /\ Op!Set(OpMark(x.span), "1") \in E /\ ~Op!Has(store, OpMark(x.span))
           /\ world.crashes = 0 => OpInPlace(x.span.trace, x.span.of.turn)
    <3> SUFFICES ASSUME NEW x \in E, x.do = "send"
                 PROVE  /\ \/ Op!Has(store, OpIdKey(x.span)) /\ store[OpIdKey(x.span)] = x.span.id
                           \/ Op!Set(OpIdKey(x.span), x.span.id) \in E
                        /\ Op!Set(OpMark(x.span), "1") \in E /\ ~Op!Has(store, OpMark(x.span))
                        /\ world.crashes = 0 => OpInPlace(x.span.trace, x.span.of.turn)
      OBVIOUS
    <3>1. x.span = s /\ due /\ final /\ new
      BY <1>9
    <3> QED
      BY <1>2, <1>5, <1>7, <1>8, <1>n, <1>p, <3>1 DEF mark
  <2>2. \A x \in E : ~(x.do = "send" /\ x.span.what = "root")
    BY <1>5, <1>9
  <2>3. \A x \in E : x.do = "set" /\ x.key[1] \in OpNames => ~Op!Has(store, x.key)
    BY <1>9, <1>k
  <2>4. \A n \in Op!Messages : \A x \in E : ~(x.do = "set" /\ x.key = LinkKey(n))
    BY <1>9, <1>k
  <2> QED
    BY <1>c, <2>1, <2>2, <2>3, <2>4, OpSpansCame
<1>12. OpCloses' /\ OpOpens' /\ OpTurn'
  BY <1>10, <1>c, OpTurnCame
<1>13. /\ store' = store /\ sent' = sent /\ OpDue' = E /\ OpDue = {} /\ OpFinal' = OpFinal
       /\ Op!Finalizers' = Op!Finalizers
       /\ \A v, w : (OpWrites(v, w)' <=> Op!Set(v, w) \in E)
       /\ \A v : (OpDrops(v)' <=> Op!Delete(v) \in E)
       /\ \A w, n : ~OpSends(w, n)
       /\ \A w, n : OpSends(w, n)' <=> \E x \in E : x.do = "send" /\ x.span.what = w /\ x.span.of = n
       /\ \A n : (OpAgent(n)' <=> OpAgent(n)) /\ (OpKept(n)' <=> OpKept(n))
  BY <1>c, OpCameKeeps DEF OpCame
<1>14. OpChildren
  BY DEF OpInv
<1>15. due => IF final /\ new THEN OpSends("agent", m)' ELSE final => OpAgent(m)
  <2>1. due /\ final /\ new => OpSends("agent", m)'
    BY <1>2, <1>5, <1>13, OpFields
  <2>2. ~new => OpAgent(m)
    BY <1>14, <1>n DEF OpChildren
  <2> QED
    BY <2>1, <2>2
<1>16. OpChildren'
  <2> SUFFICES ASSUME NEW n \in Tasks
               PROVE  /\ \A i \in DOMAIN sent' : sent'[i].what = "llm" /\ sent'[i].of = Op!Sub(n) => OpKept(n)'
                      /\ OpSends("llm", Op!Sub(n))' => OpKept(n)'
                      /\ \A x \in OpDue' : x.do = "set" /\ x.key = Op!PendingKey /\ n \in Op!Finalizers' =>
                           n \in x.val \/ OpAgent(n)' \/ (OpSends("agent", n)' /\ OpFinal')
                      /\ OpDrops(Op!PendingKey)' =>
                           OpFinal' /\ (n \in Op!Finalizers' => OpAgent(n)' \/ OpSends("agent", n)')
                      /\ Op!Has(store', <<"emitted_agent", n>>) => OpAgent(n)'
                      /\ OpWrites(<<"emitted_agent", n>>, "1")' => OpAgent(n)' \/ OpSends("agent", n)'
    BY DEF OpChildren, Op!Sub
  <2>1. \A i \in DOMAIN sent' : sent'[i].what = "llm" /\ sent'[i].of = Op!Sub(n) => OpKept(n)'
    BY <1>13, <1>14 DEF OpChildren
  <2>2. ~OpSends("llm", Op!Sub(n))'
    <3>1. \A w : ~OpSends("llm", w)'
      BY <1>5, <1>9, <1>13
    <3> QED
      BY <3>1 DEF Op!Sub
  <2>3. ASSUME NEW x \in E, x.do = "set", x.key = Op!PendingKey, n \in Op!Finalizers
        PROVE  n \in x.val \/ OpAgent(n)' \/ (OpSends("agent", n)' /\ OpFinal')
    <3>1. due /\ (x.val = Op!Finalizers \cup {m} \/ (final /\ x.val = Op!Finalizers \ {m}))
      BY <1>9, <1>k, <2>3
    <3>2. CASE n = m /\ final
      BY <1>13, <1>15, <3>1, <3>2
    <3> QED
      BY <2>3, <3>1, <3>2
  <2>4. OpDrops(Op!PendingKey)' =>
          OpFinal' /\ (n \in Op!Finalizers' => OpAgent(n)' \/ OpSends("agent", n)')
    <3> SUFFICES ASSUME Op!Delete(Op!PendingKey) \in E
                 PROVE  OpFinal' /\ (n \in Op!Finalizers => OpAgent(n)' \/ OpSends("agent", n)')
      BY <1>13
    <3>1. due /\ Op!Finalizers = {m} /\ final
      BY <1>9, OpFields
    <3> QED
      BY <1>13, <1>15, <3>1
  <2>5. Op!Has(store', <<"emitted_agent", n>>) => OpAgent(n)'
    BY <1>13, <1>14 DEF OpChildren
  <2>6. OpWrites(<<"emitted_agent", n>>, "1")' => OpAgent(n)' \/ OpSends("agent", n)'
    <3> SUFFICES ASSUME Op!Set(<<"emitted_agent", n>>, "1") \in E
                 PROVE  OpAgent(n)' \/ OpSends("agent", n)'
      BY <1>13
    <3>1. due /\ final /\ new /\ n = m
      BY <1>9, <1>k, OpFields
    <3> QED
      BY <1>15, <3>1
  <2> QED
    BY <1>13, <2>1, <2>2, <2>3, <2>4, <2>5, <2>6
<1>17. \A n \in Tasks : OpCovered(n) => OpCovered(n)'
  BY <1>13 DEF OpCovered
<1>18. due => OpCovered(m)'
  <2>1. CASE final
    BY <1>13, <1>15, <2>1 DEF OpCovered, OpKept
  <2>2. CASE ~final /\ new
    <3>1. due => add \in E /\ add.do = "set" /\ add.key = Op!PendingKey /\ m \in add.val
      BY <1>2, <2>2, OpFields DEF add
    <3> QED
      BY <1>13, <3>1 DEF OpCovered
  <2>3. CASE ~new
    BY <1>13, <1>14, <1>n, <2>3 DEF OpChildren, OpCovered, OpKept
  <2> QED
    BY <2>1, <2>2, <2>3
<1> QED
  BY <1>10, <1>11, <1>12, <1>16, <1>17, <1>18 DEF E

-----------------------------------------------------------------------------
(* A hook walks the items of its snapshot *)

OpUnder(i) == IF i.under = None THEN Op!OpenTurn ELSE i.under

OpStepSet(h, i) ==
  IF i.do = "user" THEN OpUserSet(h, i.of)
  ELSE IF i.do = "llm" THEN OpLlmSet(h, i.of, OpUnder(i))
  ELSE IF i.do = "tool" THEN OpToolSet(h, i.of, OpUnder(i))
  ELSE IF i.do = "child" THEN OpChildSet(h, i.of, hooks[h].snap, hooks[h].kind = "close")
  ELSE IF i.do = "vanished" THEN OpChildSet(h, i.of, Op!NoSnap, TRUE)
  ELSE IF i.do = "root" THEN OpCloseSet(hooks[h].final)
  ELSE {}

LEMMA OpStepsList ==
  ASSUME NEW h, NEW i, i.do = "vanished" => hooks[h].kind = "close", OpItem(i)
  PROVE  /\ IsSeq(Op!StepsOf(h, i)) /\ Elems(Op!StepsOf(h, i)) = OpStepSet(h, i)
         /\ OpOrdered(Op!StepsOf(h, i), hooks[h].kind)
<1> DEFINE q == Op!StepsOf(h, i)
           k == hooks[h].kind
<1>1. i.do = "user" => q = Op!OpenTurnIfNew(h, i.of)
  BY DEF Op!StepsOf
<1>2. i.do = "llm" => q = Op!EmitLlm(h, i.of, OpUnder(i))
  BY DEF Op!StepsOf, OpUnder
<1>3. i.do = "tool" => q = Op!EmitTool(h, i.of, OpUnder(i))
  BY DEF Op!StepsOf, OpUnder
<1>4. i.do = "child" => q = Op!EmitChild(h, i.of, hooks[h].snap, hooks[h].kind = "close")
  BY DEF Op!StepsOf
<1>5. i.do = "vanished" => q = Op!EmitChild(h, i.of, Op!NoSnap, TRUE)
  BY DEF Op!StepsOf
<1>6. i.do = "root" => q = Op!CloseTurn(hooks[h].final)
  BY DEF Op!StepsOf
<1>7. i.do \in {"children", "pending"} => q = <<>>
  BY DEF Op!StepsOf
<1>8. \E lo, hi : OpList(q, OpStepSet(h, i), k, lo, hi)
  <2>1. CASE i.do = "user"
    BY <1>1, <2>1, OpUserList DEF OpStepSet
  <2>2. CASE i.do = "llm"
    BY <1>2, <2>2, OpLlmList DEF OpStepSet
  <2>3. CASE i.do = "tool"
    BY <1>3, <2>3, OpToolList DEF OpStepSet
  <2>4. CASE i.do = "child"
    <3> DEFINE final == hooks[h].kind = "close"
    <3>1. final \in BOOLEAN /\ (final <=> k = "close")
      OBVIOUS
    <3> HIDE DEF final
    <3>2. OpList(Op!EmitChild(h, i.of, hooks[h].snap, final), OpChildSet(h, i.of, hooks[h].snap, final), k, 0, 13)
      BY <3>1, OpChildList
    <3>3. OpStepSet(h, i) = OpChildSet(h, i.of, hooks[h].snap, final)
      BY <2>4 DEF OpStepSet, final
    <3>4. q = Op!EmitChild(h, i.of, hooks[h].snap, final)
      BY <1>4, <2>4 DEF final
    <3> QED
      BY <3>2, <3>3, <3>4
  <2>5. CASE i.do = "vanished"
    <3>1. OpList(Op!EmitChild(h, i.of, Op!NoSnap, TRUE), OpChildSet(h, i.of, Op!NoSnap, TRUE), k, 0, 13)
      BY <2>5, OpChildList
    <3> QED
      BY <1>5, <2>5, <3>1 DEF OpStepSet
  <2>6. CASE i.do = "root"
    BY <1>6, <2>6, OpCloseList DEF OpStepSet
  <2>7. CASE i.do \in {"children", "pending"}
    BY <1>7, <2>7, OpListEmpty DEF OpStepSet
  <2> QED
    BY <2>1, <2>2, <2>3, <2>4, <2>5, <2>6, <2>7 DEF OpItem
<1> QED
  BY <1>8 DEF OpList

(* Nobody else is inside, and nothing was left to do.                      *)
LEMMA OpQuiet ==
  ASSUME OpShape, NEW h \in OpHooks, hooks[h].at = "inside", hooks[h].steps = <<>>
  PROVE  OpDue = {} /\ (OpFinal <=> hooks[h].kind = "close")
<1>1. Elems(<<>>) = {}
  BY DEF Elems
<1> QED
  BY <1>1, OpDueOf

LEMMA OpItemCame ==
  ASSUME OpInv, NEW h \in OpHooks, hooks[h].at = "inside", hooks[h].steps = <<>>, hooks[h].todo # <<>>,
         NEW i, i = hooks[h].todo[1], OpCame(OpStepSet(h, i))
  PROVE  /\ \A x \in OpStepSet(h, i) : OpStep(x)
         /\ OpReserved' /\ OpMarked' /\ OpPlaces' /\ OpCloses' /\ OpOpens' /\ OpTurn' /\ OpChildren'
         /\ \A n \in Tasks : OpCovered(n) => OpCovered(n)'
         /\ i.do = "user" => OpSeen(i.of)'
         /\ i.do \in {"child", "vanished"} /\ Op!ChildLink(i.of) # None => OpCovered(i.of)'
<1> DEFINE q == hooks[h].todo
           under == OpUnder(i)
<1>1. OpShape /\ OpTurn /\ OpStored /\ OpItems
  BY DEF OpInv
<1>2. 1 \in DOMAIN q
  BY <1>1, TailAny DEF OpShape, OpHook
<1>3. /\ OpItem(i)
      /\ i.do \in {"vanished", "children", "pending"} => hooks[h].kind = "close"
      /\ world.crashes = 0 /\ i.do \in {"llm", "tool"} =>
           IF i.under = None THEN OpSeen(i.of.turn) \/ OpToCome(q, 1, i.of.turn)
           ELSE OpInPlace(i.under.trace, i.of.turn)
      /\ \A m \in Tasks : i.do = "llm" /\ i.of = Op!Sub(m) => OpCovered(m)
  BY <1>1, <1>2 DEF OpItems, OpTodo
<1>4. ~OpToCome(q, 1, i.of.turn)
  <2>1. DOMAIN q = 1 .. Len(q) /\ Len(q) \in Nat
    BY <1>1, TailAny DEF OpShape, OpHook
  <2> QED
    BY <2>1 DEF OpToCome
<1>5. OpDue = {} /\ (OpFinal <=> hooks[h].kind = "close")
  BY <1>1, OpQuiet
<1> HIDE DEF q
<1>6. i.do \in {"llm", "tool"} /\ world.crashes = 0 /\ under.trace # None /\ under.span # None =>
        OpInPlace(under.trace, i.of.turn)
  <2> SUFFICES ASSUME i.do \in {"llm", "tool"}, world.crashes = 0, under.trace # None, under.span # None
               PROVE  OpInPlace(under.trace, i.of.turn)
    OBVIOUS
  <2>1. CASE i.under # None
    BY <1>3, <2>1 DEF OpUnder
  <2>2. CASE i.under = None
    <3>1. under.trace = OpTrace /\ OpOpen
      BY <2>2 DEF OpUnder, Op!OpenTurn, OpTrace, OpSpan, OpOpen
    <3>2. OpClosed(i.of.turn) \/ OpUser = i.of.turn
      BY <1>3, <1>4, <1>5, <2>2 DEF OpSeen, OpWrites
    <3>3. OpTrace.of[2] = OpUser
      BY <1>1, <3>1 DEF OpTurn
    <3> QED
      BY <3>1, <3>2, <3>3 DEF OpInPlace
  <2> QED
    BY <2>1, <2>2
<1>7. i.do \in {"llm", "tool"} /\ under.trace # None /\ under.span # None => under \in OpLinks
  <2>1. CASE i.under # None
    BY <1>3, <2>1 DEF OpUnder, OpItem
  <2>2. CASE i.under = None
    <3>1. under = [trace |-> OpTrace, span |-> OpSpan]
      BY <2>2 DEF OpUnder, Op!OpenTurn, OpTrace, OpSpan
    <3>2. under.trace # None => OpTrace \in Op!Drawn
      BY <1>1, <3>1 DEF OpStored
    <3>3. under.span # None => OpSpan \in Op!Drawn
      BY <1>1, <3>1 DEF OpStored
    <3> QED
      BY <3>1, <3>2, <3>3 DEF OpLinks
  <2> QED
    BY <2>1, <2>2
<1>8. \A m \in Tasks : i.do = "llm" /\ i.of = Op!Sub(m) => OpKept(m)
  BY <1>3, <1>5 DEF OpCovered, OpSends
<1> HIDE DEF under
<1>9. CASE i.do = "user"
  <2>1. OpStepSet(h, i) = OpUserSet(h, i.of) /\ i.of \in OpTurns
    BY <1>3, <1>9 DEF OpStepSet, OpItem
  <2> QED
    BY <1>9, <2>1, OpUserCame
<1>10. CASE i.do = "llm"
  <2>1. OpStepSet(h, i) = OpLlmSet(h, i.of, under) /\ i.of \in Op!Messages
    BY <1>3, <1>10 DEF OpStepSet, OpItem, under
  <2> QED
    BY <1>6, <1>8, <1>10, <2>1, OpLlmCame
<1>11. CASE i.do = "tool"
  <2>1. OpStepSet(h, i) = OpToolSet(h, i.of, under) /\ i.of \in Op!Messages
    BY <1>3, <1>11 DEF OpStepSet, OpItem, under
  <2> QED
    BY <1>6, <1>7, <1>11, <2>1, OpToolCame
<1>12. CASE i.do \in {"child", "vanished"}
  <2> DEFINE final == IF i.do = "child" THEN hooks[h].kind = "close" ELSE TRUE
             snap == IF i.do = "child" THEN hooks[h].snap ELSE Op!NoSnap
  <2>1. OpStepSet(h, i) = OpChildSet(h, i.of, snap, final) /\ i.of \in Tasks
    BY <1>3, <1>12 DEF OpStepSet, OpItem
  <2>2. final \in BOOLEAN /\ (final <=> OpFinal)
    BY <1>3, <1>5, <1>12
  <2>3. OpCame(OpChildSet(h, i.of, snap, final))
    BY <2>1
  <2>4. i.do # "user"
    BY <1>12
  <2> HIDE DEF final, snap
  <2>5. /\ \A x \in OpChildSet(h, i.of, snap, final) : OpStep(x)
        /\ OpReserved' /\ OpMarked' /\ OpPlaces' /\ OpCloses' /\ OpOpens' /\ OpTurn' /\ OpChildren'
        /\ \A n \in Tasks : OpCovered(n) => OpCovered(n)'
        /\ Op!ChildLink(i.of) # None => OpCovered(i.of)'
    BY <2>1, <2>2, <2>3, OpChildCame
  <2>6. \A x \in OpStepSet(h, i) : OpStep(x)
    BY <2>1, <2>5
  <2> QED
    BY <2>4, <2>5, <2>6
<1>13. CASE i.do = "root"
  <2>1. OpStepSet(h, i) = OpCloseSet(hooks[h].final)
    BY <1>13 DEF OpStepSet
  <2> QED
    BY <1>13, <2>1, OpRootCame
<1>14. CASE i.do \in {"children", "pending"}
  <2>1. OpStepSet(h, i) = {} /\ OpCame({})
    BY <1>14 DEF OpStepSet
  <2>2. OpReserved' /\ OpMarked' /\ OpPlaces'
    BY <2>1, OpSpansCame
  <2>3. OpCloses' /\ OpOpens' /\ OpTurn'
    BY <2>1, OpTurnCame
  <2>4. OpChildren' /\ \A m \in Tasks : OpCovered(m) => OpCovered(m)'
    BY <2>1, OpChildrenCame
  <2> QED
    BY <1>14, <2>1, <2>2, <2>3, <2>4
<1> QED
  BY <1>3, <1>9, <1>10, <1>11, <1>12, <1>13, <1>14 DEF OpItem

(* The items that it comes to by an item.                                  *)
LEMMA OpIfItem ==
  ASSUME NEW c \in BOOLEAN, NEW x
  PROVE  IsSeq(Op!If(c, <<x>>)) /\ \A y \in Elems(Op!If(c, <<x>>)) : c /\ y = x
<1>1. IsSeq(<<>>) /\ Elems(<<>>) = {}
  <2>1. <<>> \in Seq({}) /\ DOMAIN <<>> = {}
    OBVIOUS
  <2> QED
    BY <2>1 DEF IsSeq, Elems
<1>2. IsSeq(<<x>>) /\ Elems(<<x>>) = {x}
  <2> DEFINE q == <<x>>
  <2>1. DOMAIN q = {1} /\ q[1] = x /\ q \in Seq({x})
    OBVIOUS
  <2> HIDE DEF q
  <2>2. Elems(q) = {x} /\ IsSeq(q)
    BY <2>1 DEF Elems, IsSeq
  <2> QED
    BY <2>2 DEF q
<1>3. CASE c
  BY <1>2, <1>3 DEF Op!If
<1>4. CASE ~c
  BY <1>1, <1>4 DEF Op!If
<1> QED
  BY <1>3, <1>4

LEMMA OpParts ==
  ASSUME NEW m, NEW snap, NEW under
  PROVE  /\ IsSeq(Op!Parts(m, snap, under))
         /\ \A x \in Elems(Op!Parts(m, snap, under)) : x.do \in {"llm", "tool"} /\ x.of = m /\ x.under = under
<1> DEFINE c == m \in snap.done
           d == m \in snap.ran
           a == Op!If(c, <<Op!Item("llm", m, under)>>)
           b == Op!If(d, <<Op!Item("tool", m, under)>>)
<1>c. c \in BOOLEAN /\ d \in BOOLEAN
  OBVIOUS
<1> HIDE DEF c, d
<1>4. IsSeq(a) /\ \A y \in Elems(a) : y = Op!Item("llm", m, under)
  BY <1>c, OpIfItem
<1>5. IsSeq(b) /\ \A y \in Elems(b) : y = Op!Item("tool", m, under)
  BY <1>c, OpIfItem
<1> HIDE DEF a, b
<1>2. IsSeq(a \o b) /\ Elems(a \o b) = Elems(a) \cup Elems(b)
  BY <1>4, <1>5, ConcatAny
<1>3. Op!Parts(m, snap, under) = a \o b
  BY DEF Op!Parts, a, b, c, d
<1> QED
  BY <1>2, <1>3, <1>4, <1>5 DEF Op!Item

LEMMA OpPartsItems ==
  ASSUME NEW m, NEW snap, NEW under
  PROVE  \A x \in Elems(Op!Parts(m, snap, under)) : x \in {Op!Item("llm", m, under), Op!Item("tool", m, under)}
<1> DEFINE c == m \in snap.done
           d == m \in snap.ran
           a == Op!If(c, <<Op!Item("llm", m, under)>>)
           b == Op!If(d, <<Op!Item("tool", m, under)>>)
<1>1. c \in BOOLEAN /\ d \in BOOLEAN
  OBVIOUS
<1> HIDE DEF c, d
<1>2. IsSeq(a) /\ \A y \in Elems(a) : y = Op!Item("llm", m, under)
  BY <1>1, OpIfItem
<1>3. IsSeq(b) /\ \A y \in Elems(b) : y = Op!Item("tool", m, under)
  BY <1>1, OpIfItem
<1> HIDE DEF a, b
<1>4. Elems(a \o b) = Elems(a) \cup Elems(b)
  BY <1>2, <1>3, ConcatAny
<1>5. Op!Parts(m, snap, under) = a \o b
  BY DEF Op!Parts, a, b, c, d
<1> QED
  BY <1>2, <1>3, <1>4, <1>5

LEMMA OpChildItems ==
  ASSUME NEW h, NEW m, NEW snap
  PROVE  /\ IsSeq(Op!ChildItems(h, m, snap))
         /\ \A x \in Elems(Op!ChildItems(h, m, snap)) :
              /\ Op!ChildLink(m) # None
              /\ x.do \in {"llm", "tool"} /\ x.of = Op!Sub(m)
              /\ x.under = [trace |-> Op!ChildLink(m).trace, span |-> Op!SpanId(h, <<"span_agent", m>>)]
<1> DEFINE u == [trace |-> Op!ChildLink(m).trace, span |-> Op!SpanId(h, <<"span_agent", m>>)]
           q == Op!Parts(Op!Sub(m), snap, u)
<1>1. IsSeq(q) /\ \A x \in Elems(q) : x.do \in {"llm", "tool"} /\ x.of = Op!Sub(m) /\ x.under = u
  BY OpParts
<1>2. Op!ChildItems(h, m, snap) = Op!If(Op!ChildLink(m) # None, q)
  BY DEF Op!ChildItems
<1> HIDE DEF q
<1>3. IsSeq(<<>>) /\ Elems(<<>>) = {}
  <2>1. <<>> \in Seq({}) /\ DOMAIN <<>> = {}
    OBVIOUS
  <2> QED
    BY <2>1 DEF IsSeq, Elems
<1> QED
  BY <1>1, <1>2, <1>3 DEF Op!If

(* They follow from what it does about the item.                           *)
OpAdded(x, kind) ==
  /\ OpItem(x)
  /\ x.do \in {"vanished", "children", "pending"} => kind = "close"
  /\ x.do \in {"llm", "tool"} => x.under # None

LEMMA OpMore ==
  ASSUME OpInv, NEW h \in OpHooks, NEW i, OpItem(i),
         i.do \in {"vanished", "children", "pending"} => hooks[h].kind = "close",
         NEW more \in Op!MoreItems(h, i)
  PROVE  /\ IsSeq(more) /\ \A x \in Elems(more) : OpAdded(x, hooks[h].kind)
         /\ \A x \in Elems(more) : x.do \in {"llm", "tool"} =>
              /\ i.do \in {"child", "vanished"} /\ i.of \in Tasks /\ Op!ChildLink(i.of) # None
              /\ x.of = Op!Sub(i.of) /\ x.under.trace = Op!ChildLink(i.of).trace
<1> DEFINE k == hooks[h].kind
<1>0. IsSeq(<<>>) /\ Elems(<<>>) = {}
  <2>1. <<>> \in Seq({}) /\ DOMAIN <<>> = {}
    OBVIOUS
  <2> QED
    BY <2>1 DEF IsSeq, Elems
<1>n. None \notin OpLinks
  BY HarnessesAssumption DEF Op!OpencodeAssumption, OpLinks
<1>1. CASE i.do \in {"child", "vanished"}
  <2>1. i.of \in Tasks
    BY <1>1 DEF OpItem
  <2>2. PICK snap : more = Op!ChildItems(h, i.of, snap)
    BY <1>1 DEF Op!MoreItems
  <2>3. /\ IsSeq(more)
        /\ \A x \in Elems(more) :
              /\ Op!ChildLink(i.of) # None
              /\ x.do \in {"llm", "tool"} /\ x.of = Op!Sub(i.of)
              /\ x.under = [trace |-> Op!ChildLink(i.of).trace, span |-> Op!SpanId(h, <<"span_agent", i.of>>)]
    BY <2>2, OpChildItems
  <2>4. ASSUME NEW x \in Elems(more)
        PROVE  OpAdded(x, k) /\ x.under.trace = Op!ChildLink(i.of).trace
    <3>1. i.of \in Op!Messages /\ Op!ChildLink(i.of) \in OpLinks
      BY <2>1, <2>3, <2>4, OpLinkOf
    <3>2. Op!Sub(i.of) \in Op!Messages
      BY <3>1 DEF Op!Sub, Op!Messages
    <3>3. Op!SpanId(h, <<"span_agent", i.of>>) \in Op!Drawn
      <4>1. Op!Id(h, <<"span_agent", i.of>>) \in Op!Drawn
        BY <3>1 DEF Op!Id, Op!Drawn, OpHooks
      <4>2. Op!Has(store, <<"span_agent", i.of>>) => store[<<"span_agent", i.of>>] \in Op!Drawn
        BY <3>1 DEF OpInv, OpStored, OpNames
      <4> QED
        BY <4>1, <4>2 DEF Op!SpanId
    <3>4. x.under \in OpLinks
      BY <2>3, <2>4, <3>1, <3>3 DEF OpLinks
    <3>5. x.do \in {"llm", "tool"} /\ x.of \in Op!Messages
      BY <2>3, <2>4, <3>2
    <3> QED
      BY <1>n, <2>3, <2>4, <3>4, <3>5 DEF OpAdded, OpItem
  <2> QED
    BY <1>1, <2>1, <2>3, <2>4
<1>2. CASE i.do = "pending"
  <2> DEFINE y == Op!Item("children", Op!Finalizers, None)
  <2>1. more = <<y>>
    BY <1>2 DEF Op!MoreItems
  <2>2. y.do = "children" /\ y.of \subseteq Tasks
    BY DEF Op!Item, OpInv, OpStored
  <2> HIDE DEF y
  <2>3. IsSeq(more) /\ Elems(more) = {y}
    <3> DEFINE q == <<y>>
    <3>1. DOMAIN q = {1} /\ q[1] = y /\ q \in Seq({y})
      OBVIOUS
    <3> HIDE DEF q
    <3>2. Elems(q) = {y} /\ IsSeq(q)
      BY <3>1 DEF Elems, IsSeq
    <3> QED
      BY <2>1, <3>2 DEF q
  <2> QED
    BY <1>2, <2>2, <2>3 DEF OpAdded, OpItem
<1>3. CASE i.do = "children" /\ i.of # {}
  <2>1. PICK m \in i.of : more = <<Op!Item("vanished", m, None), Op!Item("children", i.of \ {m}, None)>>
    BY <1>3 DEF Op!MoreItems
  <2> DEFINE y == Op!Item("vanished", m, None)
             z == Op!Item("children", i.of \ {m}, None)
  <2>2. y.do = "vanished" /\ y.of \in Tasks /\ z.do = "children" /\ z.of \subseteq Tasks
    BY <1>3 DEF OpItem, Op!Item
  <2> HIDE DEF y, z
  <2>3. IsSeq(more) /\ Elems(more) = {y, z}
    <3> DEFINE q == <<y, z>>
    <3>1. DOMAIN q = {1, 2} /\ q[1] = y /\ q[2] = z /\ q \in Seq({y, z})
      OBVIOUS
    <3> HIDE DEF q
    <3>2. Elems(q) = {y, z}
      BY <3>1 DEF Elems
    <3>3. IsSeq(q)
      BY <3>1, <3>2 DEF Elems, IsSeq
    <3> QED
      BY <2>1, <3>2, <3>3 DEF q, y, z
  <2> QED
    BY <1>3, <2>2, <2>3 DEF OpAdded, OpItem
<1>4. CASE i.do \notin {"child", "vanished", "pending"} /\ ~(i.do = "children" /\ i.of # {})
  <2>1. more = <<>>
    BY <1>4 DEF Op!MoreItems
  <2> QED
    BY <1>0, <2>1
<1> QED
  BY <1>1, <1>2, <1>3, <1>4

LEMMA OpWalkKeeps ==
  ASSUME OpInv, NEW h \in OpHooks, Op!Walk(h)
  PROVE  OpInv'
<1> DEFINE q == hooks[h].todo
<1>1. OpShape /\ OpStored /\ OpItems
  BY DEF OpInv
<1>2. hooks[h].at = "inside" /\ hooks[h].steps = <<>> /\ q # <<>> /\ store' = store /\ world' = world /\ sent' = sent
  BY DEF Op!Walk
<1>3. /\ IsSeq(q) /\ IsSeq(Tail(q)) /\ Len(q) \in Nat \ {0} /\ DOMAIN q = 1 .. Len(q)
      /\ Head(q) = q[1] /\ 1 \in DOMAIN q
      /\ DOMAIN Tail(q) = 1 .. Len(q) - 1
      /\ \A n \in DOMAIN Tail(q) : Tail(q)[n] = q[n + 1] /\ n + 1 \in DOMAIN q
  <2>1. IsSeq(q)
    BY <1>1 DEF OpShape, OpHook
  <2> HIDE DEF q
  <2> QED
    BY <1>2, <2>1, TailAny
<1>4. PICK i : i = q[1]
  OBVIOUS
<1>5. PICK more \in Op!MoreItems(h, i) :
        hooks' = [hooks EXCEPT ![h].steps = Op!StepsOf(h, i), ![h].todo = more \o Tail(@),
                               ![h].final = Op!FinalAfter(h, i)]
  BY <1>3, <1>4 DEF Op!Walk
<1>6. /\ OpItem(i)
      /\ i.do \in {"vanished", "children", "pending"} => hooks[h].kind = "close"
  BY <1>1, <1>3, <1>4 DEF OpItems, OpTodo
<1> DEFINE r == more \o Tail(q)
<1>7. /\ DOMAIN hooks' = OpHooks
      /\ \A g \in OpHooks : g # h => hooks'[g] = hooks[g]
      /\ DOMAIN hooks'[h] = {"at", "kind", "snap", "steps", "todo", "final"}
      /\ hooks'[h].at = "inside" /\ hooks'[h].kind = hooks[h].kind /\ hooks'[h].snap = hooks[h].snap
      /\ hooks'[h].todo = r /\ hooks'[h].steps = Op!StepsOf(h, i)
  <2>1. OpHook(hooks[h]) /\ DOMAIN hooks = OpHooks
    BY <1>1 DEF OpShape
  <2> QED
    BY <1>2, <1>5, <2>1 DEF OpHook
<1>8. /\ IsSeq(hooks'[h].steps) /\ Elems(hooks'[h].steps) = OpStepSet(h, i)
      /\ OpOrdered(hooks'[h].steps, hooks'[h].kind)
  BY <1>6, <1>7, OpStepsList
<1>9. /\ IsSeq(more) /\ \A x \in Elems(more) : OpAdded(x, hooks[h].kind)
      /\ \A x \in Elems(more) : x.do \in {"llm", "tool"} =>
           /\ i.do \in {"child", "vanished"} /\ i.of \in Tasks /\ Op!ChildLink(i.of) # None
           /\ x.of = Op!Sub(i.of) /\ x.under.trace = Op!ChildLink(i.of).trace
  BY <1>6, OpMore
<1> HIDE DEF q
<1>10. /\ IsSeq(r) /\ DOMAIN r = 1 .. Len(more) + Len(Tail(q)) /\ Len(more) \in Nat /\ Len(Tail(q)) \in Nat
       /\ DOMAIN more = 1 .. Len(more) /\ DOMAIN Tail(q) = 1 .. Len(Tail(q))
       /\ \A n \in DOMAIN more : r[n] = more[n]
       /\ \A n \in DOMAIN Tail(q) : r[Len(more) + n] = Tail(q)[n]
       /\ \A n \in 1 .. Len(more) + Len(Tail(q)) : n \in DOMAIN more \/ (n > Len(more) /\ n - Len(more) \in DOMAIN Tail(q))
  <2> DEFINE t == Tail(q)
             a == more
  <2>1. IsSeq(a)
    BY <1>9
  <2>3. IsSeq(t)
    BY <1>3
  <2> HIDE DEF t, a
  <2>2. /\ IsSeq(a \o t) /\ Elems(a \o t) = Elems(a) \cup Elems(t)
        /\ Len(a) \in Nat /\ Len(t) \in Nat /\ DOMAIN a = 1 .. Len(a) /\ DOMAIN t = 1 .. Len(t)
        /\ Len(a \o t) = Len(a) + Len(t) /\ DOMAIN (a \o t) = 1 .. Len(a) + Len(t)
        /\ \A n \in DOMAIN a : (a \o t)[n] = a[n]
        /\ \A n \in DOMAIN t : (a \o t)[Len(a) + n] = t[n]
        /\ \A n \in 1 .. Len(a) + Len(t) : n \in DOMAIN a \/ (n > Len(a) /\ n - Len(a) \in DOMAIN t)
    BY <2>1, <2>3, ConcatAny, ZenonT(60)
  <2> QED
    BY <2>2 DEF t, a
<1> HIDE DEF r
<1>11. \A g \in OpHooks : g # h => hooks[g].at # "inside" /\ hooks[g].steps = <<>> /\ hooks[g].todo = <<>>
  BY <1>1, <1>2 DEF OpShape, OpHook
<1>12. OpDue' = OpStepSet(h, i) /\ (OpFinal' <=> OpFinal)
  <2>1. Elems(<<>>) = {}
    BY DEF Elems
  <2>2. \A g \in OpHooks : g # h => Elems(hooks'[g].steps) = {}
    BY <1>7, <1>11, <2>1
  <2>3. OpDue' = Elems(hooks'[h].steps)
    BY <2>2 DEF OpDue, Elems
  <2>4. OpFinal' <=> hooks'[h].kind = "close"
    BY <1>7, <1>11 DEF OpFinal
  <2>5. OpFinal <=> hooks[h].kind = "close"
    BY <1>1, <1>2, OpQuiet
  <2> QED
    BY <1>7, <1>8, <2>3, <2>4, <2>5
<1>13. OpDue = {}
  BY <1>1, <1>2, OpQuiet
<1>14. OpCame(OpStepSet(h, i))
  <2>1. OpFinal' = OpFinal
    BY <1>12 DEF OpFinal
  <2> QED
    BY <1>2, <1>12, <1>13, <2>1 DEF OpCame
<1>15. /\ \A x \in OpStepSet(h, i) : OpStep(x)
       /\ OpReserved' /\ OpMarked' /\ OpPlaces' /\ OpCloses' /\ OpOpens' /\ OpTurn' /\ OpChildren'
       /\ \A n \in Tasks : OpCovered(n) => OpCovered(n)'
       /\ i.do = "user" => OpSeen(i.of)'
       /\ i.do \in {"child", "vanished"} /\ Op!ChildLink(i.of) # None => OpCovered(i.of)'
  BY <1>2, <1>4, <1>14, OpItemCame DEF q
<1>16. OpStored'
  BY <1>1, <1>14, OpStoredCame
<1>17. OpShape'
  <2>1. \A g \in OpHooks : OpHook(hooks'[g])
    <3>1. OpHook(hooks[h]) /\ \A g \in OpHooks : OpHook(hooks[g])
      BY <1>1 DEF OpShape
    <3>2. OpHook(hooks'[h])
      BY <1>2, <1>7, <1>8, <1>10, <3>1 DEF OpHook
    <3> QED
      BY <1>7, <3>1, <3>2
  <2>2. (\A g \in OpHooks : OpHook(hooks[g]))'
    BY <2>1 DEF OpHook, OpLog, OpOrdered, OpRank
  <2>3. \A g, k \in OpHooks : hooks'[g].at = "inside" /\ hooks'[k].at = "inside" => g = k
    BY <1>7, <1>11
  <2>4. (\A x \in OpDue : OpStep(x))'
    BY <1>12, <1>15 DEF OpStep, OpUpdate, OpSpanOf
  <2>5. (\A n \in DOMAIN sent : OpSpanOf(sent[n]))' /\ IsSeq(sent)'
    BY <1>1, <1>2 DEF OpShape, OpSpanOf, IsSeq
  <2>6. OpLog(world.log)'
    BY <1>1, <1>2 DEF OpShape, OpLog
  <2> QED
    BY <1>1, <1>2, <1>7, <2>2, <2>3, <2>4, <2>5, <2>6 DEF OpShape
<1>18. /\ \A u : OpClosed(u)' <=> OpClosed(u)
       /\ OpUser' = OpUser
       /\ \A u : ~OpWrites(Op!UserKey, u)
       /\ \A d, t : OpInPlace(d, t)' <=> OpInPlace(d, t)
  BY <1>14, OpCameKeeps
<1>19. \A t : OpSeen(t) => OpSeen(t)'
  BY <1>18 DEF OpSeen
<1>20. ASSUME NEW p \in DOMAIN r
       PROVE  /\ OpItem(r[p])
              /\ r[p].do \in {"vanished", "children", "pending"} => hooks[h].kind = "close"
              /\ world.crashes = 0 /\ r[p].do \in {"llm", "tool"} =>
                   \A t, d : t = r[p].of.turn /\ d = r[p].under.trace =>
                     IF r[p].under = None
                     THEN OpSeen(t)' \/ OpToCome(r, p, t)
                     ELSE OpInPlace(d, t)
              /\ \A m \in Tasks : r[p].do = "llm" /\ r[p].of = Op!Sub(m) => OpCovered(m)'
  <2>1. CASE p \in DOMAIN more
    <3>1. r[p] = more[p] /\ more[p] \in Elems(more)
      BY <1>10, <2>1 DEF Elems
    <3> DEFINE x == more[p]
    <3>2. OpAdded(x, hooks[h].kind)
      BY <1>9, <3>1
    <3>3. x.do \in {"llm", "tool"} =>
           /\ i.do \in {"child", "vanished"} /\ i.of \in Tasks /\ Op!ChildLink(i.of) # None
           /\ x.of = Op!Sub(i.of) /\ x.under.trace = Op!ChildLink(i.of).trace
      BY <1>9, <3>1
    <3> HIDE DEF x
    <3>4. r[p] = x
      BY <3>1 DEF x
    <3>5. x.do \in {"llm", "tool"} => /\ i.of \in Op!Messages
                                      /\ world.crashes = 0 => OpInPlace(Op!ChildLink(i.of).trace, i.of.turn)
      BY <3>3, OpLinkOf
    <3>6. x.do \in {"llm", "tool"} => x.of.turn = i.of.turn
      BY <3>3, <3>5 DEF Op!Sub, Op!Messages
    <3>7. ASSUME NEW m \in Tasks, x.do = "llm", x.of = Op!Sub(m)
          PROVE  OpCovered(m)'
      <4>1. Op!Sub(i.of) = Op!Sub(m) /\ i.of \in Tasks /\ OpCovered(i.of)'
        BY <1>15, <3>3, <3>7
      <4>2. i.of = m
        <5>1. \A n \in Tasks : n \in Op!Messages /\ n.sub = FALSE
          BY HarnessesAssumption DEF Op!OpencodeAssumption, Op!Messages
        <5>2. \A n \in Op!Messages : /\ n = [turn |-> n.turn, step |-> n.step, sub |-> n.sub]
                                     /\ Op!Sub(n).turn = n.turn /\ Op!Sub(n).step = n.step
          BY DEF Op!Sub, Op!Messages
        <5> QED
          BY <4>1, <5>1, <5>2
      <4>3. \A n : n = i.of => (OpCovered(n)' => OpCovered(m)')
        BY <4>2
      <4> QED
        BY <1>15, <3>3, <3>7, <4>2
    <3> QED
      BY <3>2, <3>3, <3>4, <3>5, <3>6, <3>7 DEF OpAdded
  <2>2. CASE p > Len(more) /\ p - Len(more) \in DOMAIN Tail(q)
    <3> DEFINE n == p - Len(more)
               x == q[n + 1]
    <3>1. n \in Nat /\ n + 1 \in DOMAIN q /\ Len(more) + n = p /\ p \in Nat /\ n \in DOMAIN Tail(q)
      BY <1>3, <1>10, <2>2
    <3>2. r[p] = x
      BY <1>3, <1>10, <3>1
    <3> HIDE DEF n
    <3>3. /\ OpItem(x)
          /\ x.do \in {"vanished", "children", "pending"} => hooks[h].kind = "close"
          /\ world.crashes = 0 /\ x.do \in {"llm", "tool"} =>
               IF x.under = None
               THEN OpSeen(x.of.turn) \/ OpToCome(q, n + 1, x.of.turn)
               ELSE OpInPlace(x.under.trace, x.of.turn)
          /\ \A m \in Tasks : x.do = "llm" /\ x.of = Op!Sub(m) => OpCovered(m)
      BY <1>1, <3>1 DEF OpItems, OpTodo, q
    <3>4. ASSUME NEW t, OpToCome(q, n + 1, t)
          PROVE  OpSeen(t)' \/ OpToCome(r, p, t)
      <4>1. PICK k \in DOMAIN q : k < n + 1 /\ q[k].do = "user" /\ q[k].of = t
        BY <3>4 DEF OpToCome
      <4>2. CASE k = 1
        <5>1. i.do = "user" /\ i.of = t
          BY <1>4, <4>1, <4>2
        <5> QED
          BY <1>15, <5>1
      <4>3. CASE k # 1
        <5> DEFINE j == Len(more) + (k - 1)
        <5>1. k - 1 \in DOMAIN Tail(q) /\ (k - 1) + 1 = k /\ k - 1 < n
          BY <1>3, <3>1, <4>1, <4>3
        <5>2. j \in DOMAIN r /\ j < p /\ r[j] = q[k]
          <6>1. Tail(q)[k - 1] = q[k]
            BY <1>3, <5>1
          <6>2. r[j] = Tail(q)[k - 1]
            BY <1>10, <5>1
          <6>3. j \in 1 .. Len(more) + Len(Tail(q)) /\ j < p
            BY <1>10, <3>1, <5>1
          <6> QED
            BY <1>10, <6>1, <6>2, <6>3
        <5> HIDE DEF j
        <5> QED
          BY <4>1, <5>2 DEF OpToCome
      <4> QED
        BY <4>2, <4>3
    <3> HIDE DEF x
    <3>5. \A m \in Tasks : x.do = "llm" /\ x.of = Op!Sub(m) => OpCovered(m)'
      BY <1>15, <3>3
    <3>6. world.crashes = 0 /\ x.do \in {"llm", "tool"} =>
            \A t, d : t = x.of.turn /\ d = x.under.trace =>
              IF x.under = None
              THEN OpSeen(t)' \/ OpToCome(r, p, t)
              ELSE OpInPlace(d, t)
      BY <1>19, <3>3, <3>4
    <3> QED
      BY <3>2, <3>3, <3>5, <3>6
  <2> QED
    BY <1>10, <2>1, <2>2
<1>21. OpItems'
  <2> SUFFICES ASSUME NEW g \in OpHooks, NEW p \in DOMAIN hooks'[g].todo
               PROVE  LET j == hooks'[g].todo[p] IN
                      /\ OpItem(j)
                      /\ j.do \in {"vanished", "children", "pending"} => hooks'[g].kind = "close"
                      /\ world'.crashes = 0 /\ j.do \in {"llm", "tool"} =>
                           IF j.under = None
                           THEN OpSeen(hooks[g].todo[p].of.turn)' \/ OpToCome(hooks'[g].todo, p, j.of.turn)
                           ELSE OpInPlace(hooks[g].todo[p].under.trace, hooks[g].todo[p].of.turn)'
                      /\ \A m \in Tasks : j.do = "llm" /\ j.of = Op!Sub(m) => OpCovered(m)'
    BY DEF OpItems, OpTodo, OpToCome, OpItem, Op!Sub
  <2>1. g = h /\ hooks'[g].todo = r
    <3>1. g # h => hooks'[g].todo = <<>>
      BY <1>7, <1>11
    <3> QED
      BY <1>7, <3>1
  <2>2. p \in DOMAIN r /\ hooks'[g].todo[p] = r[p]
    BY <2>1
  <2> DEFINE j == r[p]
  <2>3. /\ OpItem(j)
        /\ j.do \in {"vanished", "children", "pending"} => hooks[h].kind = "close"
        /\ world.crashes = 0 /\ j.do \in {"llm", "tool"} =>
             \A t, d : t = j.of.turn /\ d = j.under.trace =>
               IF j.under = None THEN OpSeen(t)' \/ OpToCome(r, p, t) ELSE OpInPlace(d, t)
        /\ \A m \in Tasks : j.do = "llm" /\ j.of = Op!Sub(m) => OpCovered(m)'
    BY <1>20, <2>2
  <2> HIDE DEF j
  <2>4. hooks'[g].todo[p] = j
    BY <2>2 DEF j
  <2>5. \A t : t = j.of.turn => (OpSeen(t)' => OpSeen(hooks[g].todo[p].of.turn)')
    BY <2>4 DEF OpSeen
  <2>6. \A d, t : d = j.under.trace /\ t = j.of.turn =>
          (OpInPlace(d, t) => OpInPlace(hooks[g].todo[p].under.trace, hooks[g].todo[p].of.turn)')
    BY <1>18, <2>4 DEF OpInPlace
  <2> QED
    BY <1>2, <1>7, <2>1, <2>3, <2>4, <2>5, <2>6
<1> QED
  BY <1>15, <1>16, <1>17, <1>21 DEF OpInv

-----------------------------------------------------------------------------
(* A hook takes the lock: the items of its snapshot *)

OpWalkItems == {Op!Item(do, of, None) : do \in {"user", "llm", "tool"}, of \in OpTurns \cup Op!Messages}

LEMMA OpItemsOf ==
  ASSUME NEW snap, NEW m \in Op!Messages, ~m.sub
  PROVE  LET q == Op!ItemsOf(snap, m) IN
         /\ q \in Seq(OpWalkItems) /\ IsSeq(q)
         /\ m.step = 0 => q = <<Op!Item("user", m.turn, None)>>
         /\ m.step # 0 => \A x \in Elems(q) : x.do \in {"llm", "tool"} /\ x.of = m /\ x.under = None
<1> DEFINE q == Op!ItemsOf(snap, m)
<1>1. CASE m.step = 0
  <2> DEFINE y == Op!Item("user", m.turn, None)
  <2>1. q = <<y>>
    BY <1>1 DEF Op!ItemsOf
  <2>2. y \in OpWalkItems
    BY DEF OpWalkItems, Op!Messages, OpTurns
  <2> HIDE DEF y
  <2>3. <<y>> \in Seq(OpWalkItems) /\ DOMAIN <<y>> = {1} /\ <<y>>[1] = y /\ <<y>> \in Seq({y})
    BY <2>2
  <2>4. IsSeq(<<y>>)
    <3> DEFINE r == <<y>>
    <3>1. DOMAIN r = {1} /\ r[1] = y /\ r \in Seq({y})
      OBVIOUS
    <3> HIDE DEF r
    <3>2. IsSeq(r)
      BY <3>1 DEF IsSeq
    <3> QED
      BY <3>2 DEF r
  <2> QED
    BY <1>1, <2>1, <2>3, <2>4 DEF y
<1>2. CASE m.step # 0
  <2>1. q = Op!Parts(m, snap, None)
    BY <1>2 DEF Op!ItemsOf
  <2>2. IsSeq(q) /\ \A x \in Elems(q) : x.do \in {"llm", "tool"} /\ x.of = m /\ x.under = None
    BY <2>1, OpParts
  <2>3. \A x \in Elems(q) : x \in OpWalkItems
    <3>1. \A x \in Elems(Op!Parts(m, snap, None)) : x \in {Op!Item("llm", m, None), Op!Item("tool", m, None)}
      BY OpPartsItems
    <3> QED
      BY <2>1, <3>1 DEF OpWalkItems
  <2> HIDE DEF q
  <2>4. q \in Seq(Elems(q))
    BY <2>2 DEF IsSeq, Elems
  <2>5. q \in Seq(OpWalkItems)
    BY <2>3, <2>4
  <2> QED
    BY <1>2, <2>2, <2>5 DEF q
<1> QED
  BY <1>1, <1>2

(* The walk follows the log.                                               *)
LEMMA OpWalkedIs ==
  ASSUME NEW snap, OpLog(snap.log)
  PROVE  /\ Len(snap.log) \in Nat /\ DOMAIN snap.log = 1 .. Len(snap.log)
         /\ Op!Walked(snap) = [n \in 0 .. Len(snap.log) |->
                                 IF n = 0 THEN <<>> ELSE Op!Walked(snap)[n - 1] \o Op!ItemsOf(snap, snap.log[n])]
<1> DEFINE m == Len(snap.log)
           S == Seq(OpWalkItems)
           g == [p \in S \X (1 .. m) |-> p[1] \o Op!ItemsOf(snap, snap.log[p[2]])]
           W == Op!Walked(snap)
<1>1. m \in Nat /\ DOMAIN snap.log = 1 .. m
  BY DEF OpLog, IsSeq
<1>2. \A n \in 1 .. m : Op!ItemsOf(snap, snap.log[n]) \in S
  BY <1>1, OpItemsOf DEF OpLog
<1> HIDE DEF m
<1>3. \A a, b \in S : a \o b \in S
  OBVIOUS
<1>4. <<>> \in S
  OBVIOUS
<1> HIDE DEF S
<1>5. g \in [S \X (1 .. m) -> S]
  BY <1>2, <1>3
<1>6. \A s \in S : \A n \in 1 .. m : g[<<s, n>>] = s \o Op!ItemsOf(snap, snap.log[n])
  OBVIOUS
<1> HIDE DEF g
<1>7. PICK f \in [0 .. m -> S] : Follows(f, <<>>, g, m)
  BY <1>1, <1>4, <1>5, Recursion
<1>8. f = [n \in 0 .. m |-> IF n = 0 THEN <<>> ELSE f[n - 1] \o Op!ItemsOf(snap, snap.log[n])]
  <2>1. ASSUME NEW n \in 0 .. m
        PROVE  f[n] = IF n = 0 THEN <<>> ELSE f[n - 1] \o Op!ItemsOf(snap, snap.log[n])
    <3>1. n # 0 => n \in 1 .. m /\ n - 1 \in 0 .. m
      BY <1>1
    <3> QED
      BY <1>6, <1>7, <3>1 DEF Follows
  <2>2. f = [n \in 0 .. m |-> f[n]]
    BY Zenon
  <2> QED
    BY <2>1, <2>2
<1>9. W = [n \in 0 .. m |-> IF n = 0 THEN <<>> ELSE W[n - 1] \o Op!ItemsOf(snap, snap.log[n])]
  BY <1>8, Zenon DEF Op!Walked, m
<1> QED
  BY <1>1, <1>9 DEF m

(* An answer is walked after its prompt.                                   *)
OpWalked(q, log, n) ==
  /\ IsSeq(q)
  /\ \A x \in Elems(q) : /\ OpItem(x) /\ x.do \in {"user", "llm", "tool"} /\ x.under = None
                         /\ x.do \in {"llm", "tool"} => ~x.of.sub
  /\ \A p \in DOMAIN q : q[p].do \in {"llm", "tool"} => OpToCome(q, p, q[p].of.turn)
  /\ \A k \in 1 .. n : log[k].step = 0 => \E r \in DOMAIN q : q[r].do = "user" /\ q[r].of = log[k].turn

LEMMA OpWalkedMore ==
  ASSUME NEW snap, OpLog(snap.log), NEW n \in DOMAIN snap.log, n \in Nat \ {0}, NEW q, OpWalked(q, snap.log, n - 1)
  PROVE  OpWalked(q \o Op!ItemsOf(snap, snap.log[n]), snap.log, n)
<1> DEFINE log == snap.log
           m == log[n]
           e == Op!ItemsOf(snap, m)
           r == q \o e
<1>1. /\ m \in Op!Messages /\ ~m.sub
      /\ m.step > 0 => \E k \in DOMAIN log : k < n /\ log[k] = Op!Prompt(m.turn)
      /\ DOMAIN log = 1 .. Len(log)
  BY DEF OpLog, IsSeq
<1>2. /\ IsSeq(e)
      /\ m.step = 0 => e = <<Op!Item("user", m.turn, None)>>
      /\ m.step # 0 => \A x \in Elems(e) : x.do \in {"llm", "tool"} /\ x.of = m /\ x.under = None
  BY <1>1, OpItemsOf
<1>3. /\ IsSeq(q)
      /\ \A x \in Elems(q) : /\ OpItem(x) /\ x.do \in {"user", "llm", "tool"} /\ x.under = None
                             /\ x.do \in {"llm", "tool"} => ~x.of.sub
      /\ \A p \in DOMAIN q : q[p].do \in {"llm", "tool"} => OpToCome(q, p, q[p].of.turn)
      /\ \A k \in 1 .. n - 1 : log[k].step = 0 => \E p \in DOMAIN q : q[p].do = "user" /\ q[p].of = log[k].turn
  BY DEF OpWalked
<1>4. m.step = 0 => /\ DOMAIN e = {1} /\ e[1].do = "user" /\ e[1].of = m.turn /\ e[1].under = None
                    /\ Elems(e) = {e[1]}
  <2> SUFFICES ASSUME m.step = 0
               PROVE  /\ DOMAIN e = {1} /\ e[1].do = "user" /\ e[1].of = m.turn /\ e[1].under = None
                      /\ Elems(e) = {e[1]}
    OBVIOUS
  <2> DEFINE y == Op!Item("user", m.turn, None)
  <2>1. e = <<y>> /\ y.do = "user" /\ y.of = m.turn /\ y.under = None
    BY <1>2 DEF Op!Item
  <2> HIDE DEF y
  <2>2. DOMAIN <<y>> = {1} /\ <<y>>[1] = y
    OBVIOUS
  <2> HIDE DEF e
  <2> QED
    BY <2>1, <2>2 DEF Elems
<1>5. m.turn \in OpTurns /\ m.step \in Nat
  BY <1>1, HarnessesAssumption DEF Op!OpencodeAssumption, Op!Messages, OpTurns
<1> HIDE DEF e, m, log
<1>6. IsSeq(q) /\ IsSeq(e)
  BY <1>2, <1>3
<1>7. /\ IsSeq(r) /\ Elems(r) = Elems(q) \cup Elems(e)
      /\ Len(q) \in Nat /\ Len(e) \in Nat /\ DOMAIN q = 1 .. Len(q) /\ DOMAIN e = 1 .. Len(e)
      /\ Len(r) = Len(q) + Len(e) /\ DOMAIN r = 1 .. Len(q) + Len(e)
      /\ \A i \in DOMAIN q : r[i] = q[i]
      /\ \A i \in DOMAIN e : r[Len(q) + i] = e[i]
      /\ \A i \in 1 .. Len(q) + Len(e) : i \in DOMAIN q \/ (i > Len(q) /\ i - Len(q) \in DOMAIN e)
  BY <1>6, ConcatAny, Zenon
<1> HIDE DEF r
<1>8. ASSUME NEW x \in Elems(r)
      PROVE  /\ OpItem(x) /\ x.do \in {"user", "llm", "tool"} /\ x.under = None
             /\ x.do \in {"llm", "tool"} => ~x.of.sub
  <2>1. CASE x \in Elems(q)
    BY <1>3, <2>1
  <2>2. CASE x \in Elems(e) /\ m.step = 0
    BY <1>4, <1>5, <2>2 DEF OpItem
  <2>3. CASE x \in Elems(e) /\ m.step # 0
    BY <1>1, <1>2, <2>3 DEF OpItem
  <2> QED
    BY <1>7, <2>1, <2>2, <2>3
<1>9. \A i \in DOMAIN q : i \in DOMAIN r /\ r[i] = q[i]
  BY <1>7
<1>10. ASSUME NEW k \in 1 .. n, log[k].step = 0
       PROVE  \E p \in DOMAIN r : r[p].do = "user" /\ r[p].of = log[k].turn
  <2>1. CASE k \in 1 .. n - 1
    BY <1>3, <1>9, <1>10, <2>1
  <2>2. CASE k = n
    <3>1. m.step = 0 /\ m.turn = log[k].turn
      BY <1>10, <2>2 DEF m
    <3>2. 1 \in DOMAIN e /\ Len(q) + 1 \in DOMAIN r /\ r[Len(q) + 1] = e[1]
      BY <1>4, <1>7, <3>1
    <3> QED
      BY <1>4, <3>1, <3>2
  <2> QED
    BY <2>1, <2>2
<1>11. ASSUME NEW p \in DOMAIN r, r[p].do \in {"llm", "tool"}
       PROVE  OpToCome(r, p, r[p].of.turn)
  <2>1. CASE p \in DOMAIN q
    <3>1. OpToCome(q, p, q[p].of.turn)
      BY <1>3, <1>9, <1>11, <2>1
    <3> QED
      BY <1>9, <2>1, <3>1 DEF OpToCome
  <2>2. CASE p > Len(q) /\ p - Len(q) \in DOMAIN e
    <3> DEFINE j == p - Len(q)
    <3>1. j \in DOMAIN e /\ Len(q) + j = p
      BY <1>7, <2>2
    <3>2. r[p] = e[j] /\ e[j] \in Elems(e)
      BY <1>7, <3>1 DEF Elems
    <3> HIDE DEF j
    <3>3. m.step # 0
      BY <1>4, <1>11, <3>2
    <3>4. r[p].of = m
      BY <1>2, <3>2, <3>3
    <3>5. PICK k \in DOMAIN log : k < n /\ log[k] = Op!Prompt(m.turn)
      BY <1>1, <1>5, <3>3
    <3>6. k \in 1 .. n - 1 /\ log[k].step = 0 /\ log[k].turn = m.turn
      <4>1. k \in Nat /\ 1 <= k /\ n \in Nat
        BY <1>1, <3>5
      <4> QED
        BY <3>5, <4>1 DEF Op!Prompt
    <3>7. PICK i \in DOMAIN q : q[i].do = "user" /\ q[i].of = m.turn
      BY <1>3, <3>6
    <3>8. i \in DOMAIN r /\ r[i] = q[i] /\ i < p
      <4>1. i \in 1 .. Len(q) /\ p \in Nat
        BY <1>7, <3>7
      <4> QED
        BY <1>7, <2>2, <3>7, <4>1
    <3> QED
      BY <3>4, <3>7, <3>8 DEF OpToCome
  <2> QED
    BY <1>7, <2>1, <2>2
<1> QED
  BY <1>7, <1>8, <1>10, <1>11 DEF OpWalked, r, e, m, log

LEMMA OpWalkedAll ==
  ASSUME NEW snap, OpLog(snap.log)
  PROVE  OpWalked(Op!Walked(snap)[Len(snap.log)], snap.log, Len(snap.log))
<1> DEFINE W == Op!Walked(snap)
           m == Len(snap.log)
           T == {n \in 0 .. m : OpWalked(W[n], snap.log, n)}
<1>1. /\ m \in Nat /\ DOMAIN snap.log = 1 .. m
      /\ W = [n \in 0 .. m |-> IF n = 0 THEN <<>> ELSE W[n - 1] \o Op!ItemsOf(snap, snap.log[n])]
  BY OpWalkedIs
<1> HIDE DEF W, m
<1>2. 0 \in T
  <2>1. W[0] = <<>> /\ 0 \in 0 .. m
    BY <1>1
  <2>2. IsSeq(<<>>) /\ Elems(<<>>) = {} /\ DOMAIN <<>> = {}
    <3>1. <<>> \in Seq({}) /\ DOMAIN <<>> = {}
      OBVIOUS
    <3> QED
      BY <3>1 DEF IsSeq, Elems
  <2>3. 1 .. 0 = {}
    OBVIOUS
  <2> QED
    BY <2>1, <2>2, <2>3 DEF OpWalked
<1>3. ASSUME NEW n \in 1 .. m, n - 1 \in T
      PROVE  n \in T
  <2>1. W[n] = W[n - 1] \o Op!ItemsOf(snap, snap.log[n]) /\ n \in DOMAIN snap.log /\ n \in Nat \ {0} /\ n \in 0 .. m
    BY <1>1
  <2>2. OpWalked(W[n - 1], snap.log, n - 1)
    BY <1>3
  <2>3. OpWalked(W[n - 1] \o Op!ItemsOf(snap, snap.log[n]), snap.log, n)
    BY <2>1, <2>2, OpWalkedMore
  <2> QED
    BY <2>1, <2>3
<1>4. T = 0 .. m
  <2>1. T \in SUBSET (0 .. m)
    OBVIOUS
  <2> HIDE DEF T
  <2> QED
    BY <1>1, <1>2, <1>3, <2>1, UpTo
<1>5. m \in T
  <2>1. m \in 0 .. m
    BY <1>1
  <2> HIDE DEF T
  <2> QED
    BY <1>4, <2>1
<1> QED
  BY <1>5 DEF W, m

(* The children that the snapshot shows.                                   *)
LEMMA OpElementsAt == \A s, I : Op!ElementsAt(s, I) = ElementsAt(s, I)
  BY DEF Op!ElementsAt, ElementsAt, Op!Nth, Nth, Op!Rank, Rank, Op!Cardinality, Cardinality

LEMMA OpChildrenOf ==
  ASSUME NEW snap, OpLog(snap.log)
  PROVE  /\ IsSeq(Op!Children(snap))
         /\ \A x \in Elems(Op!Children(snap)) : x.do = "child" /\ x.of \in snap.kids
<1> DEFINE log == snap.log
           I == {i \in DOMAIN log : log[i] \in snap.kids}
           kids == ElementsAt(log, I)
           c == [i \in DOMAIN kids |-> Op!Item("child", kids[i], None)]
           S == {log[i] : i \in DOMAIN log}
<1>1. log \in Seq(S)
  BY DEF OpLog, IsSeq
<1>2. I \in SUBSET DOMAIN log
  OBVIOUS
<1> HIDE DEF I, S
<1>3. /\ kids \in Seq(S) /\ Len(kids) = Cardinality(I) /\ Len(kids) <= Len(log)
      /\ \A n \in DOMAIN kids : Nth(I, n) \in I /\ kids[n] = log[Nth(I, n)]
  BY <1>1, <1>2, ElementsOfPositions
<1>4. \A n \in DOMAIN kids : kids[n] \in snap.kids
  BY <1>3 DEF I
<1>5. DOMAIN kids = 1 .. Len(kids) /\ Len(kids) \in Nat
  BY <1>3
<1>6. Op!Children(snap) = c
  BY OpElementsAt DEF Op!Children, I
<1> HIDE DEF kids
<1>7. \A n \in DOMAIN c : c[n].do = "child" /\ c[n].of \in snap.kids
  BY <1>4 DEF Op!Item
<1>8. DOMAIN c = 1 .. Len(kids) /\ c = [n \in 1 .. Len(kids) |-> c[n]]
  BY <1>5
<1> HIDE DEF c
<1>9. IsSeq(c)
  <2>1. \A n \in 1 .. Len(kids) : c[n] \in Elems(c)
    BY <1>8 DEF Elems
  <2>2. c \in [1 .. Len(kids) -> Elems(c)]
    BY <1>8, <2>1
  <2> QED
    BY <1>5, <2>2 DEF IsSeq, Elems
<1> QED
  BY <1>6, <1>7, <1>9 DEF Elems

LEMMA OpItemsIn ==
  ASSUME NEW snap, OpLog(snap.log), snap.kids \subseteq Tasks, NEW kind
  PROVE  LET q == Op!Items(kind, snap) IN
         /\ IsSeq(q)
         /\ \A p \in DOMAIN q :
              /\ OpItem(q[p])
              /\ q[p].do \notin {"vanished", "children"} /\ (q[p].do = "pending" => kind = "close")
              /\ q[p].do \in {"llm", "tool"} =>
                   q[p].under = None /\ ~q[p].of.sub /\ OpToCome(q, p, q[p].of.turn)
<1> DEFINE w == Op!Walked(snap)[Len(snap.log)]
           c == Op!Children(snap)
           e == Op!If(kind = "close", <<Op!Item("pending", None, None), Op!Item("root", None, None)>>)
           d == w \o c
           q == d \o e
<1>1. /\ IsSeq(w)
      /\ \A x \in Elems(w) : /\ OpItem(x) /\ x.do \in {"user", "llm", "tool"} /\ x.under = None
                             /\ x.do \in {"llm", "tool"} => ~x.of.sub
      /\ \A p \in DOMAIN w : w[p].do \in {"llm", "tool"} => OpToCome(w, p, w[p].of.turn)
  BY OpWalkedAll DEF OpWalked
<1>2. IsSeq(c) /\ \A x \in Elems(c) : x.do = "child" /\ x.of \in Tasks
  BY OpChildrenOf
<1>3. IsSeq(e) /\ \A x \in Elems(e) : x.do \in {"pending", "root"} /\ kind = "close"
  <2>1. CASE kind = "close"
    <3> DEFINE x == Op!Item("pending", None, None)
               y == Op!Item("root", None, None)
               z == <<x, y>>
    <3>1. x.do = "pending" /\ y.do = "root"
      BY DEF Op!Item
    <3> HIDE DEF x, y
    <3>2. z \in Seq({x, y}) /\ DOMAIN z = {1, 2} /\ z[1] = x /\ z[2] = y
      OBVIOUS
    <3>3. e = z
      BY <2>1 DEF Op!If, x, y
    <3> HIDE DEF z, e
    <3>4. IsSeq(z) /\ Elems(z) = {x, y}
      BY <3>2 DEF IsSeq, Elems
    <3> QED
      BY <2>1, <3>1, <3>3, <3>4
  <2>2. CASE kind # "close"
    <3>1. e = <<>>
      BY <2>2 DEF Op!If
    <3>2. <<>> \in Seq({}) /\ DOMAIN <<>> = {}
      OBVIOUS
    <3> HIDE DEF e
    <3> QED
      BY <3>1, <3>2 DEF IsSeq, Elems
  <2> QED
    BY <2>1, <2>2
<1>4. Op!Items(kind, snap) = q
  BY DEF Op!Items
<1> HIDE DEF w, c, e
<1>5. /\ IsSeq(d) /\ Elems(d) = Elems(w) \cup Elems(c)
      /\ Len(w) \in Nat /\ Len(c) \in Nat /\ DOMAIN w = 1 .. Len(w) /\ DOMAIN c = 1 .. Len(c)
      /\ Len(d) = Len(w) + Len(c) /\ DOMAIN d = 1 .. Len(w) + Len(c)
      /\ \A i \in DOMAIN w : d[i] = w[i]
      /\ \A i \in DOMAIN c : d[Len(w) + i] = c[i]
      /\ \A i \in 1 .. Len(w) + Len(c) : i \in DOMAIN w \/ (i > Len(w) /\ i - Len(w) \in DOMAIN c)
  BY <1>1, <1>2, ConcatAny, ZenonT(60)
<1>6. ASSUME NEW p \in DOMAIN d, d[p].do \in {"llm", "tool"}
      PROVE  p \in DOMAIN w /\ d[p] = w[p] /\ OpToCome(d, p, d[p].of.turn)
  <2>1. p \in DOMAIN w
    <3>1. CASE p > Len(w) /\ p - Len(w) \in DOMAIN c
      <4>1. Len(w) + (p - Len(w)) = p
        BY <1>5
      <4>2. d[p] \in Elems(c)
        BY <1>5, <3>1, <4>1 DEF Elems
      <4> QED
        BY <1>2, <1>6, <4>2
    <3> QED
      BY <1>5, <3>1
  <2>2. d[p] = w[p] /\ OpToCome(w, p, w[p].of.turn)
    BY <1>1, <1>5, <1>6, <2>1
  <2>3. DOMAIN w \subseteq DOMAIN d
    BY <1>5
  <2> HIDE DEF d
  <2>4. OpToCome(d, p, w[p].of.turn)
    BY <1>5, <2>2, <2>3 DEF OpToCome
  <2> QED
    BY <2>1, <2>2, <2>4
<1> HIDE DEF d
<1>7. /\ IsSeq(q) /\ Elems(q) = Elems(d) \cup Elems(e)
      /\ Len(d) \in Nat /\ Len(e) \in Nat /\ DOMAIN d = 1 .. Len(d) /\ DOMAIN e = 1 .. Len(e)
      /\ Len(q) = Len(d) + Len(e) /\ DOMAIN q = 1 .. Len(d) + Len(e)
      /\ \A i \in DOMAIN d : q[i] = d[i]
      /\ \A i \in DOMAIN e : q[Len(d) + i] = e[i]
      /\ \A i \in 1 .. Len(d) + Len(e) : i \in DOMAIN d \/ (i > Len(d) /\ i - Len(d) \in DOMAIN e)
  BY <1>3, <1>5, ConcatAny, ZenonT(60)
<1>8. \A x \in Elems(q) : x \in Elems(w) \/ x \in Elems(c) \/ x \in Elems(e)
  BY <1>5, <1>7
<1>9. ASSUME NEW p \in DOMAIN q, q[p].do \in {"llm", "tool"}
      PROVE  OpToCome(q, p, q[p].of.turn)
  <2>1. p \in DOMAIN d
    <3>1. CASE p > Len(d) /\ p - Len(d) \in DOMAIN e
      <4>1. Len(d) + (p - Len(d)) = p
        BY <1>7
      <4>2. q[p] \in Elems(e)
        BY <1>7, <3>1, <4>1 DEF Elems
      <4> QED
        BY <1>3, <1>9, <4>2
    <3> QED
      BY <1>7, <3>1
  <2>2. q[p] = d[p] /\ OpToCome(d, p, d[p].of.turn)
    BY <1>6, <1>7, <1>9, <2>1
  <2>3. DOMAIN d \subseteq DOMAIN q
    BY <1>7
  <2> HIDE DEF q
  <2>4. OpToCome(q, p, d[p].of.turn)
    BY <1>7, <2>2, <2>3 DEF OpToCome
  <2> QED
    BY <2>2, <2>4
<1> HIDE DEF q
<1>10. ASSUME NEW p \in DOMAIN q
       PROVE  /\ OpItem(q[p])
              /\ q[p].do \notin {"vanished", "children"} /\ (q[p].do = "pending" => kind = "close")
              /\ q[p].do \in {"llm", "tool"} => q[p].under = None /\ ~q[p].of.sub
  <2>1. q[p] \in Elems(q)
    BY DEF Elems
  <2>2. CASE q[p] \in Elems(w)
    BY <1>1, <2>2
  <2>3. CASE q[p] \in Elems(c)
    BY <1>2, <2>3 DEF OpItem
  <2>4. CASE q[p] \in Elems(e)
    BY <1>3, <2>4 DEF OpItem
  <2> QED
    BY <1>8, <2>1, <2>2, <2>3, <2>4
<1> QED
  BY <1>4, <1>7, <1>9, <1>10

-----------------------------------------------------------------------------
(* The other steps *)

(* What has no part in the steps of the hook inside stays as it was; so it *)
(* does when there are no steps any more, because that hook died.          *)
LEMMA OpStill ==
  ASSUME OpInv, store' = store, sent' = sent,
         \/ OpDue' = OpDue /\ OpFinal' = OpFinal /\ world'.crashes = world.crashes
         \/ OpDue' = {} /\ OpDue = {} /\ world'.crashes = world.crashes
         \/ OpDue' = {} /\ world'.crashes # 0
  PROVE  OpStored' /\ OpReserved' /\ OpMarked' /\ OpCloses' /\ OpOpens' /\ OpTurn' /\ OpPlaces' /\ OpChildren'
<1>1. /\ OpStored /\ OpReserved /\ OpMarked /\ OpCloses /\ OpOpens /\ OpTurn /\ OpPlaces /\ OpChildren
  BY DEF OpInv
<1>2. /\ OpUser' = OpUser /\ OpTrace' = OpTrace /\ OpSpan' = OpSpan /\ Op!Finalizers' = Op!Finalizers
      /\ (OpOpen' <=> OpOpen)
      /\ \A u : (OpClosed(u)' <=> OpClosed(u)) /\ (OpRooted(u)' <=> OpRooted(u))
      /\ \A d, t : OpInPlace(d, t)' <=> OpInPlace(d, t)
      /\ \A m : (OpAgent(m)' <=> OpAgent(m)) /\ (OpKept(m)' <=> OpKept(m))
  BY DEF OpUser, OpTrace, OpSpan, Op!Finalizers, OpOpen, OpClosed, OpRooted, OpInPlace, OpAgent, OpKept
<1>3. OpStored'
  BY <1>1, <1>2 DEF OpStored
<1>4. CASE OpDue' = OpDue /\ OpFinal' = OpFinal /\ world'.crashes = world.crashes
  <2>1. /\ \A k, v : OpWrites(k, v)' <=> OpWrites(k, v)
        /\ \A k : OpDrops(k)' <=> OpDrops(k)
        /\ \A w, m : OpSends(w, m)' <=> OpSends(w, m)
        /\ (OpNoUser' <=> OpNoUser)
    BY <1>4 DEF OpWrites, OpDrops, OpSends, OpNoUser
  <2>2. OpReserved'
    BY <1>1, <1>4, <2>1 DEF OpReserved, OpWrites, OpIdKey
  <2>3. OpMarked'
    BY <1>1, <1>4, <2>1 DEF OpMarked, OpWrites, OpMark
  <2>4. OpCloses'
    BY <1>1, <1>2, <1>4, <2>1 DEF OpCloses, OpWrites, ClosedKey
  <2>5. OpOpens'
    BY <1>1, <1>2, <1>4, <2>1 DEF OpOpens
  <2>6. OpTurn'
    BY <1>1, <1>2, <1>4, <2>1 DEF OpTurn, OpClosed, OpWrites, ClosedKey
  <2>7. OpPlaces'
    BY <1>1, <1>2, <1>4, <2>1 DEF OpPlaces, OpInPlace, OpClosed, LinkKey
  <2>8. OpChildren'
    BY <1>1, <1>2, <1>4, <2>1 DEF OpChildren
  <2> QED
    BY <1>3, <2>2, <2>3, <2>4, <2>5, <2>6, <2>7, <2>8
<1>5. CASE OpDue' = {} /\ (world'.crashes # 0 \/ (OpDue = {} /\ world'.crashes = world.crashes))
  <2>1. /\ \A k, v : ~OpWrites(k, v)'
        /\ \A k : ~OpDrops(k)'
        /\ \A w, m : ~OpSends(w, m)'
    BY <1>5 DEF OpWrites, OpDrops, OpSends
  <2>2. OpDue = {} => /\ \A k, v : ~OpWrites(k, v)
                      /\ \A k : ~OpDrops(k)
    BY DEF OpWrites, OpDrops
  <2>3. OpReserved'
    BY <1>1, <1>5 DEF OpReserved, OpIdKey
  <2>4. OpMarked'
    BY <1>1, <1>5, <2>2 DEF OpMarked, OpMark
  <2>5. OpCloses' /\ OpOpens'
    BY <1>5, <2>1 DEF OpCloses, OpOpens
  <2>6. OpTurn'
    <3>1. world'.crashes = 0 => OpNoUser'
      BY <2>1 DEF OpNoUser
    <3> QED
      BY <1>1, <1>2, <1>5, <2>1, <2>2, <3>1 DEF OpTurn, OpClosed
  <2>7. OpPlaces'
    BY <1>1, <1>2, <1>5 DEF OpPlaces, OpInPlace, OpClosed, LinkKey
  <2>8. OpChildren'
    BY <1>1, <1>2, <1>5, <2>1 DEF OpChildren
  <2> QED
    BY <1>3, <2>3, <2>4, <2>5, <2>6, <2>7, <2>8
<1> QED
  BY <1>4, <1>5

(* What happens outside the lock: the session goes on, a snapshot is taken *)
(* or dropped.                                                             *)
LEMMA OpApart ==
  ASSUME OpInv, store' = store, sent' = sent,
         DOMAIN hooks' = OpHooks, \A h \in OpHooks : OpHook(hooks'[h]),
         \A h \in OpHooks : hooks'[h] = hooks[h] \/ (hooks'[h].at # "inside" /\ hooks[h].at # "inside"),
         DOMAIN world' = DOMAIN world, world'.crashes = world.crashes, OpLog(world'.log)
  PROVE  OpInv'
<1>1. OpShape /\ OpItems
  BY DEF OpInv
<1>2. \A h \in OpHooks : /\ hooks[h].at # "inside" => hooks[h].steps = <<>> /\ hooks[h].todo = <<>>
                         /\ hooks'[h].at # "inside" => hooks'[h].steps = <<>> /\ hooks'[h].todo = <<>>
  BY <1>1 DEF OpShape, OpHook
<1>3. \A h \in OpHooks : /\ hooks'[h].steps = hooks[h].steps /\ hooks'[h].todo = hooks[h].todo
                         /\ hooks'[h].at = "inside" <=> hooks[h].at = "inside"
                         /\ hooks[h].at = "inside" => hooks'[h].kind = hooks[h].kind
  BY <1>2
<1>4. OpDue' = OpDue /\ OpFinal' = OpFinal
  BY <1>3 DEF OpDue, OpFinal
<1>5. OpStored' /\ OpReserved' /\ OpMarked' /\ OpCloses' /\ OpOpens' /\ OpTurn' /\ OpPlaces' /\ OpChildren'
  BY <1>4, OpStill
<1>6. OpShape'
  <2>1. (\A h \in OpHooks : OpHook(hooks[h]))'
    BY DEF OpHook, OpLog, OpOrdered, OpRank
  <2>2. (\A x \in OpDue : OpStep(x))'
    BY <1>1, <1>4 DEF OpShape, OpStep, OpUpdate, OpSpanOf
  <2>3. (\A n \in DOMAIN sent : OpSpanOf(sent[n]))' /\ IsSeq(sent)'
    BY <1>1 DEF OpShape, OpSpanOf, IsSeq
  <2>4. OpLog(world.log)'
    BY DEF OpLog
  <2> QED
    BY <1>1, <1>3, <2>1, <2>2, <2>3, <2>4 DEF OpShape
<1>7. OpItems'
  <2>1. \A d, t : OpInPlace(d, t) => OpInPlace(d, t)'
    BY DEF OpInPlace, OpClosed
  <2>2. \A t \in OpTurns : OpSeen(t) => OpSeen(t)'
    BY <1>4 DEF OpSeen, OpClosed, OpUser, OpWrites
  <2>3. \A m \in Tasks : OpCovered(m) => OpCovered(m)'
    BY <1>4 DEF OpCovered, OpKept, OpAgent, Op!Finalizers, OpSends
  <2>4. \A h \in OpHooks : /\ hooks'[h].todo = hooks[h].todo
                           /\ hooks[h].todo # <<>> => hooks'[h].kind = hooks[h].kind
    BY <1>2, <1>3
  <2> QED
    BY <1>1, <2>1, <2>2, <2>3, <2>4, OpItemsKept
<1> QED
  BY <1>5, <1>6, <1>7 DEF OpInv

(* A hook that is not inside.                                              *)
LEMMA OpOutside ==
  ASSUME NEW l, DOMAIN l = {"at", "kind", "snap", "steps", "todo", "final"},
         l.at \in {"new", "asked", "ready", "done"}, l.steps = <<>>, l.todo = <<>>,
         DOMAIN l.snap = {"log", "done", "ran", "kids"}, OpLog(l.snap.log), l.snap.kids \subseteq Tasks
  PROVE  OpHook(l)
<1>1. IsSeq(<<>>) /\ DOMAIN <<>> = {}
  <2>1. <<>> \in Seq({}) /\ DOMAIN <<>> = {}
    OBVIOUS
  <2> QED
    BY <2>1 DEF IsSeq
<1>2. OpOrdered(<<>>, l.kind)
  BY <1>1 DEF OpOrdered
<1> QED
  BY <1>1, <1>2 DEF OpHook

LEMMA OpUnborn == OpHook(Op!Unborn) /\ OpHook(Op!Ended) /\ Op!Ended.at = "done" /\ Op!Unborn.at = "new"
<1>1. OpLog(<<>>)
  <2>1. <<>> \in Seq({}) /\ DOMAIN <<>> = {}
    OBVIOUS
  <2> QED
    BY <2>1 DEF OpLog, IsSeq
<1>2. /\ DOMAIN Op!NoSnap = {"log", "done", "ran", "kids"} /\ Op!NoSnap.log = <<>> /\ Op!NoSnap.kids = {}
  BY DEF Op!NoSnap
<1>3. \A l \in {Op!Unborn, Op!Ended} :
        /\ DOMAIN l = {"at", "kind", "snap", "steps", "todo", "final"}
        /\ l.at \in {"new", "done"} /\ l.steps = <<>> /\ l.todo = <<>> /\ l.snap = Op!NoSnap
  BY DEF Op!Unborn, Op!Ended
<1>4. \A l \in {Op!Unborn, Op!Ended} : OpHook(l)
  <2> TAKE l \in {Op!Unborn, Op!Ended}
  <2> QED
    BY <1>1, <1>2, <1>3, OpOutside
<1> QED
  BY <1>4 DEF Op!Unborn, Op!Ended

(* A prompt or an answer joins the log, the answer after its prompt.       *)
LEMMA OpLogGrows ==
  ASSUME NEW log, OpLog(log), NEW m \in Op!Messages, ~m.sub,
         m.step > 0 => \E k \in DOMAIN log : log[k] = Op!Prompt(m.turn)
  PROVE  OpLog(Append(log, m))
<1> DEFINE s == Append(log, m)
<1>1. /\ IsSeq(log)
      /\ \A n \in DOMAIN log :
           /\ log[n] \in Op!Messages /\ ~log[n].sub
           /\ log[n].step > 0 => \E k \in DOMAIN log : k < n /\ log[k] = Op!Prompt(log[n].turn)
  BY DEF OpLog
<1>2. /\ IsSeq(s) /\ Len(log) \in Nat /\ DOMAIN log = 1 .. Len(log) /\ Len(s) = Len(log) + 1
      /\ DOMAIN s = DOMAIN log \cup {Len(s)} /\ Len(s) \notin DOMAIN log
      /\ (\A k \in DOMAIN log : s[k] = log[k]) /\ s[Len(s)] = m
  BY <1>1, AppendAny
<1> HIDE DEF s
<1>3. \A k \in DOMAIN log : k < Len(s)
  BY <1>2
<1>4. ASSUME NEW n \in DOMAIN s
      PROVE  /\ s[n] \in Op!Messages /\ ~s[n].sub
             /\ s[n].step > 0 => \E k \in DOMAIN s : k < n /\ s[k] = Op!Prompt(s[n].turn)
  <2>1. CASE n \in DOMAIN log
    BY <1>1, <1>2, <2>1
  <2>2. CASE n = Len(s)
    BY <1>2, <1>3, <2>2
  <2> QED
    BY <1>2, <2>1, <2>2
<1> QED
  BY <1>2, <1>4 DEF OpLog, s

LEMMA OpSession ==
  ASSUME OpInv, Op!Session
  PROVE  OpInv'
<1>1. OpShape
  BY DEF OpInv
<1>2. /\ DOMAIN world = {"log", "done", "ran", "idle", "crashes"} /\ OpLog(world.log)
      /\ DOMAIN hooks = OpHooks /\ \A h \in OpHooks : OpHook(hooks[h])
  BY <1>1 DEF OpShape
<1>3. store' = store /\ sent' = sent /\ DOMAIN world' = DOMAIN world /\ world'.crashes = world.crashes
  BY <1>2 DEF Op!Session, Op!Ask, Op!Answer, Op!RunCall, Op!Complete, Op!CompleteSub, Op!Idle
<1>4. OpLog(world'.log)
  <2>1. CASE \E t \in OpTurns : Op!Ask(t)
    <3>1. PICK t \in OpTurns : Op!Ask(t)
      BY <2>1
    <3>2. world'.log = Append(world.log, Op!Prompt(t))
      BY <1>2, <3>1 DEF Op!Ask
    <3>3. Op!Prompt(t) \in Op!Messages /\ ~Op!Prompt(t).sub /\ ~(Op!Prompt(t).step > 0)
      <4>1. MaxSteps \in Nat
        BY HarnessesAssumption DEF Op!OpencodeAssumption
      <4> QED
        BY <4>1 DEF Op!Prompt, Op!Messages, OpTurns
    <3> QED
      BY <1>2, <3>2, <3>3, OpLogGrows
  <2>2. CASE \E m \in Op!Messages : Op!Answer(m)
    <3>1. PICK m \in Op!Messages : Op!Answer(m)
      BY <2>2
    <3>2. /\ world'.log = Append(world.log, m) /\ ~m.sub
          /\ \E k \in DOMAIN world.log : world.log[k] = Op!Prompt(m.turn)
      BY <1>2, <3>1 DEF Op!Answer, Op!InLog
    <3> QED
      BY <1>2, <3>2, OpLogGrows
  <2>3. CASE (\E m \in Op!Messages : Op!RunCall(m) \/ Op!Complete(m) \/ Op!CompleteSub(m)) \/ Op!Idle
    <3>1. world'.log = world.log
      BY <1>2, <2>3 DEF Op!RunCall, Op!Complete, Op!CompleteSub, Op!Idle
    <3> QED
      BY <1>2, <3>1
  <2> QED
    BY <2>1, <2>2, <2>3 DEF Op!Session, OpTurns
<1>5. \/ hooks' = hooks
      \/ \E kind : \E h \in OpHooks :
           hooks[h].at = "new" /\ hooks' = [hooks EXCEPT ![h].at = "asked", ![h].kind = kind]
  BY DEF Op!Session, Op!Ask, Op!Answer, Op!RunCall, Op!Complete, Op!CompleteSub, Op!Idle, Op!Fire, OpHooks
<1>6. CASE hooks' = hooks
  BY <1>2, <1>3, <1>4, <1>6, OpApart
<1>7. ASSUME NEW kind, NEW h \in OpHooks, hooks[h].at = "new",
             hooks' = [hooks EXCEPT ![h].at = "asked", ![h].kind = kind]
      PROVE  OpInv'
  <2>1. OpHook(hooks[h])
    BY <1>2
  <2>2. /\ DOMAIN hooks' = OpHooks /\ (\A g \in OpHooks : g # h => hooks'[g] = hooks[g])
        /\ DOMAIN hooks'[h] = {"at", "kind", "snap", "steps", "todo", "final"}
        /\ hooks'[h].at = "asked" /\ hooks'[h].snap = hooks[h].snap
        /\ hooks'[h].steps = <<>> /\ hooks'[h].todo = <<>>
    BY <1>2, <1>7, <2>1 DEF OpHook
  <2>3. OpHook(hooks'[h])
    <3>1. DOMAIN hooks[h].snap = {"log", "done", "ran", "kids"} /\ OpLog(hooks[h].snap.log) /\ hooks[h].snap.kids \subseteq Tasks
      BY <2>1 DEF OpHook
    <3> QED
      BY <2>2, <3>1, OpOutside
  <2>4. \A g \in OpHooks : OpHook(hooks'[g])
    BY <1>2, <2>2, <2>3
  <2>5. \A g \in OpHooks : hooks'[g] = hooks[g] \/ (hooks'[g].at # "inside" /\ hooks[g].at # "inside")
    BY <1>7, <2>2
  <2> QED
    BY <1>3, <1>4, <2>2, <2>4, <2>5, OpApart
<1> QED
  BY <1>5, <1>6, <1>7

LEMMA OpFetchKeeps ==
  ASSUME OpInv, NEW h \in OpHooks, Op!Fetch(h) \/ Op!GiveUp(h)
  PROVE  OpInv'
<1>1. OpShape
  BY DEF OpInv
<1>2. /\ OpLog(world.log) /\ DOMAIN hooks = OpHooks /\ (\A g \in OpHooks : OpHook(hooks[g]))
      /\ store' = store /\ sent' = sent /\ world' = world
  BY <1>1 DEF OpShape, Op!Fetch, Op!GiveUp
<1>3. hooks[h].at # "inside"
  BY DEF Op!Fetch, Op!GiveUp
<1>4. DOMAIN hooks' = OpHooks /\ \A g \in OpHooks : g # h => hooks'[g] = hooks[g]
  BY <1>2 DEF Op!Fetch, Op!GiveUp
<1>5. OpHook(hooks'[h]) /\ hooks'[h].at # "inside"
  <2>1. CASE Op!GiveUp(h)
    <3>1. hooks'[h] = Op!Ended
      BY <1>2, <2>1 DEF Op!GiveUp
    <3> QED
      BY <3>1, OpUnborn
  <2>2. CASE Op!Fetch(h)
    <3>1. PICK kids \in SUBSET Tasks :
            hooks' = [hooks EXCEPT ![h].at = "ready",
                        ![h].snap = [log |-> world.log, done |-> world.done, ran |-> world.ran, kids |-> kids]]
      BY <2>2 DEF Op!Fetch
    <3>2. OpHook(hooks[h])
      BY <1>2
    <3>3. /\ DOMAIN hooks'[h] = {"at", "kind", "snap", "steps", "todo", "final"}
          /\ hooks'[h].at = "ready" /\ hooks'[h].steps = <<>> /\ hooks'[h].todo = <<>>
          /\ hooks'[h].snap = [log |-> world.log, done |-> world.done, ran |-> world.ran, kids |-> kids]
      BY <1>2, <1>3, <3>1, <3>2 DEF OpHook
    <3>4. /\ DOMAIN hooks'[h].snap = {"log", "done", "ran", "kids"} /\ hooks'[h].snap.log = world.log
          /\ hooks'[h].snap.kids = kids
      BY <3>3
    <3> QED
      BY <1>2, <3>3, <3>4, OpOutside
  <2> QED
    BY <2>1, <2>2
<1>6. \A g \in OpHooks : OpHook(hooks'[g])
  BY <1>2, <1>4, <1>5
<1>7. \A g \in OpHooks : hooks'[g] = hooks[g] \/ (hooks'[g].at # "inside" /\ hooks[g].at # "inside")
  BY <1>3, <1>4, <1>5
<1> QED
  BY <1>2, <1>4, <1>6, <1>7, OpApart

(* The hook inside returns, or it dies.                                    *)
LEMMA OpLeaves ==
  ASSUME OpInv, NEW h \in OpHooks, Op!Return(h) \/ Op!Crash(h)
  PROVE  OpInv'
<1>1. OpShape
  BY DEF OpInv
<1>2. /\ OpLog(world.log) /\ DOMAIN hooks = OpHooks /\ (\A g \in OpHooks : OpHook(hooks[g]))
      /\ DOMAIN world = {"log", "done", "ran", "idle", "crashes"} /\ world.crashes \in Nat
      /\ store' = store /\ sent' = sent
      /\ hooks[h].at = "inside" /\ hooks' = [hooks EXCEPT ![h] = Op!Ended]
  BY <1>1 DEF OpShape, Op!Return, Op!Crash
<1>3. /\ world'.log = world.log /\ DOMAIN world' = DOMAIN world /\ world'.crashes \in Nat
      /\ \/ OpDue = {} /\ world'.crashes = world.crashes
         \/ world'.crashes # 0
  <2>1. CASE Op!Return(h)
    <3>1. hooks[h].steps = <<>> /\ world' = world
      BY <2>1 DEF Op!Return
    <3> QED
      BY <1>1, <1>2, <3>1, OpQuiet
  <2>2. CASE Op!Crash(h)
    <3>1. world' = [world EXCEPT !.crashes = @ + 1]
      BY <2>2 DEF Op!Crash
    <3> QED
      BY <1>2, <3>1
  <2> QED
    BY <2>1, <2>2
<1>4. DOMAIN hooks' = OpHooks /\ hooks'[h] = Op!Ended /\ \A g \in OpHooks : g # h => hooks'[g] = hooks[g]
  BY <1>2
<1>5. \A g \in OpHooks : OpHook(hooks'[g]) /\ hooks'[g].at # "inside"
  <2>1. \A g \in OpHooks : g # h => hooks[g].at # "inside"
    BY <1>1, <1>2 DEF OpShape
  <2> QED
    BY <1>2, <1>4, <2>1, OpUnborn
<1>6. \A g \in OpHooks : hooks'[g].steps = <<>> /\ hooks'[g].todo = <<>>
  BY <1>5 DEF OpHook
<1>e. Elems(<<>>) = {} /\ DOMAIN <<>> = {}
  BY DEF Elems
<1>7. OpDue' = {}
  <2>1. \A g \in OpHooks : Elems(hooks'[g].steps) = {}
    BY <1>6, <1>e
  <2> QED
    BY <2>1 DEF OpDue, Elems
<1>8. OpStored' /\ OpReserved' /\ OpMarked' /\ OpCloses' /\ OpOpens' /\ OpTurn' /\ OpPlaces' /\ OpChildren'
  BY <1>2, <1>3, <1>7, OpStill
<1>9. OpShape'
  <2>1. (\A g \in OpHooks : OpHook(hooks[g]))'
    BY <1>5 DEF OpHook, OpLog, OpOrdered, OpRank
  <2>2. (\A n \in DOMAIN sent : OpSpanOf(sent[n]))' /\ IsSeq(sent)'
    BY <1>1, <1>2 DEF OpShape, OpSpanOf, IsSeq
  <2>3. OpLog(world.log)'
    BY <1>2, <1>3 DEF OpLog
  <2>4. (\A x \in OpDue : OpStep(x))'
    BY <1>7
  <2> QED
    BY <1>2, <1>3, <1>4, <1>5, <2>1, <2>2, <2>3, <2>4 DEF OpShape
<1>10. OpItems'
  BY <1>6, <1>e DEF OpItems, OpTodo
<1> QED
  BY <1>8, <1>9, <1>10 DEF OpInv

(* A hook takes the lock.                                                  *)
LEMMA OpEnterKeeps ==
  ASSUME OpInv, NEW h \in OpHooks, Op!Enter(h)
  PROVE  OpInv'
<1> DEFINE kind == hooks[h].kind
           q == Op!Items(kind, hooks[h].snap)
<1>1. OpShape
  BY DEF OpInv
<1>2. /\ OpLog(world.log) /\ DOMAIN hooks = OpHooks /\ (\A g \in OpHooks : OpHook(hooks[g]))
      /\ store' = store /\ sent' = sent /\ world' = world
      /\ hooks' = [hooks EXCEPT ![h].at = "inside", ![h].todo = q]
      /\ \A g \in OpHooks : hooks[g].at # "inside"
  BY <1>1 DEF OpShape, Op!Enter, Op!Inside, OpHooks
<1>3. OpHook(hooks[h])
  BY <1>2
<1>4. OpLog(hooks[h].snap.log) /\ hooks[h].snap.kids \subseteq Tasks
  BY <1>3 DEF OpHook
<1>5. /\ IsSeq(q)
      /\ \A p \in DOMAIN q :
           /\ OpItem(q[p])
           /\ q[p].do \notin {"vanished", "children"} /\ (q[p].do = "pending" => kind = "close")
           /\ q[p].do \in {"llm", "tool"} =>
                q[p].under = None /\ ~q[p].of.sub /\ OpToCome(q, p, q[p].of.turn)
  BY <1>4, OpItemsIn
<1> HIDE DEF q
<1>6. /\ DOMAIN hooks' = OpHooks /\ (\A g \in OpHooks : g # h => hooks'[g] = hooks[g])
      /\ DOMAIN hooks'[h] = {"at", "kind", "snap", "steps", "todo", "final"}
      /\ hooks'[h].at = "inside" /\ hooks'[h].kind = kind /\ hooks'[h].snap = hooks[h].snap
      /\ hooks'[h].steps = <<>> /\ hooks'[h].todo = q
  BY <1>2, <1>3 DEF OpHook
<1>7. \A g \in OpHooks : hooks'[g].steps = <<>> /\ hooks[g].steps = <<>> /\ (g # h => hooks'[g].todo = <<>>)
  BY <1>2, <1>6 DEF OpHook
<1>e. Elems(<<>>) = {} /\ DOMAIN <<>> = {} /\ IsSeq(<<>>)
  <2>1. <<>> \in Seq({}) /\ DOMAIN <<>> = {}
    OBVIOUS
  <2> QED
    BY <2>1 DEF Elems, IsSeq
<1>8. OpDue' = {} /\ OpDue = {}
  <2>1. \A g \in OpHooks : Elems(hooks'[g].steps) = {} /\ Elems(hooks[g].steps) = {}
    BY <1>7, <1>e
  <2> QED
    BY <2>1 DEF OpDue, Elems
<1>9. OpStored' /\ OpReserved' /\ OpMarked' /\ OpCloses' /\ OpOpens' /\ OpTurn' /\ OpPlaces' /\ OpChildren'
  BY <1>2, <1>8, OpStill
<1>10. OpShape'
  <2>1. OpHook(hooks'[h])
    <3>1. OpOrdered(hooks'[h].steps, kind)
      BY <1>6, <1>e DEF OpOrdered
    <3>2. DOMAIN hooks[h].snap = {"log", "done", "ran", "kids"}
      BY <1>3 DEF OpHook
    <3> QED
      BY <1>4, <1>5, <1>6, <1>e, <3>1, <3>2 DEF OpHook
  <2>2. (\A g \in OpHooks : OpHook(hooks[g]))'
    <3>1. \A g \in OpHooks : OpHook(hooks'[g])
      BY <1>2, <1>6, <2>1
    <3> QED
      BY <3>1 DEF OpHook, OpLog, OpOrdered, OpRank
  <2>3. (\A n \in DOMAIN sent : OpSpanOf(sent[n]))' /\ IsSeq(sent)'
    BY <1>1, <1>2 DEF OpShape, OpSpanOf, IsSeq
  <2>4. OpLog(world.log)'
    BY <1>2 DEF OpLog
  <2>5. (\A x \in OpDue : OpStep(x))'
    BY <1>8
  <2>6. \A g, k \in OpHooks : hooks'[g].at = "inside" /\ hooks'[k].at = "inside" => g = k
    BY <1>2, <1>6
  <2> QED
    BY <1>1, <1>2, <1>6, <2>2, <2>3, <2>4, <2>5, <2>6 DEF OpShape
<1>11. OpItems'
  <2> SUFFICES ASSUME NEW g \in OpHooks, NEW p \in DOMAIN hooks'[g].todo
               PROVE  LET j == hooks'[g].todo[p] IN
                      /\ OpItem(j)
                      /\ j.do \in {"vanished", "children", "pending"} => hooks'[g].kind = "close"
                      /\ world'.crashes = 0 /\ j.do \in {"llm", "tool"} =>
                           IF j.under = None
                           THEN OpSeen(hooks[g].todo[p].of.turn)' \/ OpToCome(hooks'[g].todo, p, j.of.turn)
                           ELSE OpInPlace(hooks[g].todo[p].under.trace, hooks[g].todo[p].of.turn)'
                      /\ \A m \in Tasks : j.do = "llm" /\ j.of = Op!Sub(m) => OpCovered(m)'
    BY DEF OpItems, OpTodo, OpToCome, OpItem, Op!Sub
  <2>1. g = h /\ hooks'[g].todo = q
    BY <1>6, <1>7, <1>e
  <2>2. p \in DOMAIN q
    BY <2>1
  <2> DEFINE j == q[p]
  <2>3. /\ OpItem(j)
        /\ j.do \notin {"vanished", "children"} /\ (j.do = "pending" => kind = "close")
        /\ j.do \in {"llm", "tool"} => j.under = None /\ ~j.of.sub /\ OpToCome(q, p, j.of.turn)
    BY <1>5, <2>2
  <2>4. hooks'[g].todo[p] = j
    BY <2>1
  <2> HIDE DEF j, kind
  <2>5. ASSUME NEW m \in Tasks, j.do = "llm", j.of = Op!Sub(m)
        PROVE  FALSE
    <3>1. m \in Op!Messages
      BY HarnessesAssumption DEF Op!OpencodeAssumption
    <3>2. Op!Sub(m).sub = TRUE
      BY <3>1 DEF Op!Sub, Op!Messages
    <3> QED
      BY <2>3, <2>5, <3>2
  <2> QED
    BY <1>6, <2>1, <2>3, <2>4, <2>5
<1> QED
  BY <1>9, <1>10, <1>11 DEF OpInv

LEMMA OpInit ==
  ASSUME Op!Init
  PROVE  OpInv
<1>1. /\ store = Op!Empty /\ hooks = [h \in OpHooks |-> Op!Unborn] /\ sent = <<>>
      /\ world = [log |-> <<>>, done |-> {}, ran |-> {}, idle |-> 0, crashes |-> 0]
  BY DEF Op!Init, OpHooks
<1>e. Elems(<<>>) = {} /\ DOMAIN <<>> = {} /\ IsSeq(<<>>)
  <2>1. <<>> \in Seq({}) /\ DOMAIN <<>> = {}
    OBVIOUS
  <2> QED
    BY <2>1 DEF Elems, IsSeq
<1>2. \A h \in OpHooks : hooks[h] = Op!Unborn /\ OpHook(hooks[h]) /\ hooks[h].at = "new"
  BY <1>1, OpUnborn
<1>3. DOMAIN hooks = OpHooks /\ \A h \in OpHooks : hooks[h].steps = <<>> /\ hooks[h].todo = <<>>
  BY <1>1, <1>2 DEF OpHook
<1>4. OpDue = {}
  <2>1. \A h \in OpHooks : Elems(hooks[h].steps) = {}
    BY <1>3, <1>e
  <2> QED
    BY <2>1 DEF OpDue
<1>5. /\ \A k, v : ~OpWrites(k, v)
      /\ \A k : ~OpDrops(k)
      /\ \A w, m : ~OpSends(w, m)
  BY <1>4 DEF OpWrites, OpDrops, OpSends
<1>6. \A k : ~Op!Has(store, k) /\ Op!Get(store, k) = None
  BY <1>1 DEF Op!Has, Op!Get, Op!Empty
<1>7. DOMAIN sent = {} /\ IsSeq(sent)
  BY <1>1, <1>e
<1>8. OpLog(world.log) /\ DOMAIN world = {"log", "done", "ran", "idle", "crashes"} /\ world.crashes = 0
  BY <1>1, <1>e DEF OpLog
<1>9. OpShape
  BY <1>2, <1>3, <1>4, <1>7, <1>8 DEF OpShape
<1>10. OpUser = None /\ OpTrace = None /\ OpSpan = None /\ ~OpOpen /\ Op!Finalizers = {} /\ OpNoUser
  BY <1>5, <1>6 DEF OpUser, OpTrace, OpSpan, OpOpen, Op!Finalizers, OpNoUser
<1>11. OpStored
  BY <1>6, <1>10 DEF OpStored
<1>12. OpReserved /\ OpMarked
  BY <1>4, <1>7 DEF OpReserved, OpMarked
<1>13. OpCloses /\ OpOpens
  BY <1>4, <1>5 DEF OpCloses, OpOpens
<1>14. OpTurn
  BY <1>7, <1>10 DEF OpTurn
<1>15. OpPlaces
  BY <1>4, <1>6, <1>7 DEF OpPlaces
<1>16. OpChildren
  BY <1>4, <1>5, <1>6, <1>7 DEF OpChildren
<1>17. OpItems
  BY <1>3, <1>e DEF OpItems, OpTodo
<1> QED
  BY <1>9, <1>11, <1>12, <1>13, <1>14, <1>15, <1>16, <1>17 DEF OpInv

LEMMA OpStepKeeps ==
  ASSUME OpInv, [Op!Next]_Op!vars
  PROVE  OpInv'
<1>1. ASSUME NEW h \in OpHooks, Op!Step(h)
      PROVE  OpInv'
  BY <1>1, OpFetchKeeps, OpEnterKeeps, OpWalkKeeps, OpPopKeeps, OpLeaves DEF Op!Step
<1>2. CASE Op!Session
  BY <1>2, OpSession
<1>3. CASE UNCHANGED Op!vars
  <2>1. store' = store /\ hooks' = hooks /\ world' = world /\ sent' = sent
    BY <1>3 DEF Op!vars
  <2>2. OpShape
    BY DEF OpInv
  <2>3. DOMAIN hooks = OpHooks /\ (\A h \in OpHooks : OpHook(hooks[h])) /\ OpLog(world.log)
    BY <2>2 DEF OpShape
  <2> QED
    BY <2>1, <2>3, OpApart
<1> QED
  BY <1>1, <1>2, <1>3 DEF Op!Next, OpHooks

(* A turn, a message, a tool call and a subagent of opencode have one span *)
(* each, under one id, for any number of turns, messages and hooks: what   *)
(* is sent twice is sent by another hook after one died                    *)
(* (_reconcile_messages, _emit_llm_span, _emit_tool_span,                  *)
(* _emit_child_session, _close_pending_turn).                              *)
THEOREM OpencodeSpans == Spec => []OneSpanEach
<1> DEFINE Inv == harness = "opencode" => OpInv
<1>1. Init => Inv
  BY OpInit DEF Init
<1>2. Inv /\ [Next]_vars => Inv'
  <2> SUFFICES ASSUME Inv, [Next]_vars, harness' = "opencode"
               PROVE  OpInv'
    OBVIOUS
  <2>1. harness = "opencode"
    BY DEF Next, vars
  <2>2. [Next]_vars /\ harness = "opencode" => [Op!Next]_Op!vars
    BY DEF Next, vars, Op!vars
  <2> QED
    BY <2>1, <2>2, OpStepKeeps
<1>3. Inv => OneSpanEach
  <2> SUFFICES ASSUME OpInv, NEW i \in DOMAIN sent, NEW j \in DOMAIN sent,
                      sent[i].what = sent[j].what, sent[i].of = sent[j].of
               PROVE  /\ sent[i].id = sent[j].id
                      /\ world.crashes = 0 => i = j
    BY DEF OneSpanEach, Op!OneSpanEach
  <2>1. OpReserved /\ OpMarked /\ OpTurn
    BY DEF OpInv
  <2>2. OpIdKey(sent[i]) = OpIdKey(sent[j])
    BY DEF OpIdKey
  <2>3. sent[i].what = "root" => sent[i].id = sent[j].id
    BY <2>1 DEF OpTurn
  <2>4. sent[i].what # "root" => sent[i].id = sent[j].id
    BY <2>1, <2>2 DEF OpReserved
  <2> QED
    BY <2>1, <2>3, <2>4 DEF OpMarked
<1> QED
  BY <1>1, <1>2, <1>3, PTL DEF Spec

(* They are in the trace of their own turn unless it had been closed       *)
(* before, a root always; and no span of a subagent stays without the      *)
(* agent span that it hangs under: it was sent, or a later close will send *)
(* it, whichever hooks die and whatever becomes of the child session       *)
(* (_open_turn_if_new, _close_pending_turn, _remember_child_finalizer,     *)
(* _handle_close).                                                         *)
THEOREM OpencodePlaces == Spec => []SpansInPlace
<1> DEFINE Inv == harness = "opencode" => OpInv
<1>1. Init => Inv
  BY OpInit DEF Init
<1>2. Inv /\ [Next]_vars => Inv'
  <2> SUFFICES ASSUME Inv, [Next]_vars, harness' = "opencode"
               PROVE  OpInv'
    OBVIOUS
  <2>1. harness = "opencode"
    BY DEF Next, vars
  <2>2. [Next]_vars /\ harness = "opencode" => [Op!Next]_Op!vars
    BY DEF Next, vars, Op!vars
  <2> QED
    BY <2>1, <2>2, OpStepKeeps
<1>3. Inv => SpansInPlace
  <2> SUFFICES ASSUME OpInv
               PROVE  Op!SpansInPlace
    BY DEF SpansInPlace
  <2>1. OpTurn /\ OpPlaces /\ OpChildren
    BY DEF OpInv
  <2>2. ASSUME NEW i \in DOMAIN sent
        PROVE  LET own == Op!UserOf(sent[i].trace) = Op!TurnOf(sent[i]) IN
               /\ sent[i].what = "root" => own
               /\ world.crashes = 0 => own \/ Op!Has(store, <<"closed_user", Op!TurnOf(sent[i])>>)
    <3>1. CASE sent[i].what = "root"
      BY <2>1, <3>1 DEF OpTurn, Op!UserOf, Op!TurnOf
    <3>2. CASE sent[i].what # "root"
      BY <2>1, <3>2 DEF OpPlaces, OpInPlace, OpClosed, ClosedKey, Op!UserOf, Op!TurnOf
    <3> QED
      BY <3>1, <3>2
  <2>3. ASSUME NEW m \in Tasks, Op!SentIs("llm", Op!Sub(m))
        PROVE  Op!SentIs("agent", m) \/ m \in Op!Finalizers
    BY <2>1, <2>3 DEF OpChildren, OpKept, OpAgent, Op!SentIs
  <2> QED
    BY <2>2, <2>3 DEF Op!SpansInPlace
<1> QED
  BY <1>1, <1>2, <1>3, PTL DEF Spec
=============================================================================
