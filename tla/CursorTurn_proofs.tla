------------------------- MODULE CursorTurn_proofs -------------------------
(***************************************************************************)
(* Proofs about CursorTurn, for any number of hooks and generations, any   *)
(* caps and any environment: first what holds whatever the markers say,    *)
(* then what the markers make of late and of duplicate events and stops,   *)
(* and that the hooks implement TurnDelivery.                              *)
(***************************************************************************)
EXTENDS CursorTurn, Positions_proofs

Event == {e \in [kind : Kinds, gen : AnyGen, text : Texts \cup {NoText}] :
            e.kind = "thought" => e.text # NoText}

(* The part of the type invariant the proofs need: not the order and the   *)
(* number of the markers, which no proof depends on.                       *)
StateType ==
  /\ active \in Turn \cup {NoTurn}
  /\ roots \in [Gens -> Hooks \cup {NoHook}]
  /\ stacks \in [StackNames \X Gens -> Seq(Entry)]
  /\ ev \in [Hooks -> Event]
  /\ hook \in [Hooks -> HookType]

(* What a handler of the event e knows when it is at a stage: the turn it  *)
(* saw, the turn it took over, the kind of its event.                      *)
Knows(e, at, seen, mine) ==
  /\ at \in {"check", "alias", "append", "hash", "clear"} => seen # NoTurn
  /\ at \in {"get", "readRoot"} => seen = NoTurn
  /\ at \in {"root", "mark"} => mine # NoTurn
  /\ at \in {"check", "alias"} => e.gen # NoGen
  /\ at = "hash" => e.kind = "thought"
  /\ at = "claim" => e.kind = "stop"
  /\ at = "pop" => /\ e.kind \in {"after", "stop"}
                   /\ (IF e.kind = "stop" \/ seen = NoTurn THEN e.gen ELSE seen.gen) # NoGen
  /\ at = "new" => seen = NoTurn

Resolved == \A h \in Hooks : Knows(ev[h], hook[h].at, hook[h].seen, hook[h].mine)

-----------------------------------------------------------------------------
(* Lemmas about the helpers *)

(* A capped list is a list of the same things. *)
LEMMA CappedType ==
  ASSUME NEW S, NEW s \in Seq(S), NEW n \in Nat \ {0}
  PROVE  Capped(s, n) \in Seq(S)
<1> DEFINE m == IF Len(s) > n THEN Len(s) - n + 1 ELSE 1
<1>1. Len(s) \in Nat
  BY LenProperties
<1>2. m \in 1 .. Len(s) + 1
  BY <1>1
<1>3. SubSeq(s, m, Len(s)) \in Seq(S)
  BY <1>1, <1>2, SubSeqProperties
<1> QED
  BY <1>3 DEF Capped

(* Continue replaces the local variables of one hook. *)
LEMMA ContinueType ==
  ASSUME NEW h \in Hooks, NEW s \in Stages, NEW l \in HookType,
         hook \in [Hooks -> HookType], Continue(h, s, l)
  PROVE  /\ hook' \in [Hooks -> HookType]
         /\ \A o \in Hooks : o # h => hook'[o] = hook[o]
         /\ s = "done" => hook'[h] = Idle("done")
         /\ s # "done" => hook'[h] = [l EXCEPT !.at = s]
         /\ hook'[h].at = s
<1>1. Idle("done") \in HookType
  BY EmptySeq DEF Idle, HookType, Stages
<1>2. [l EXCEPT !.at = s] \in HookType
  BY DEF HookType
<1>3. Idle("done").at = "done" /\ [l EXCEPT !.at = s].at = s
  BY DEF Idle, HookType
<1> QED
  BY <1>1, <1>2, <1>3 DEF Continue

(* Every branch of a handler is one of the stages.                         *)
LEMMA StagesType ==
  ASSUME NEW e, NEW t, NEW taken, NEW h
  PROVE  /\ Handle(e, t) \in Stages \ {"new", "root", "mark"}
         /\ NotAppended(e) \in Stages \ {"new", "root", "mark"}
         /\ Standalone(e, taken) \in Stages \ {"new", "root", "mark"}
         /\ AfterClaim(e, t) \in Stages \ {"new", "root", "mark"}
         /\ AfterFlush(e) \in Stages \ {"new", "root", "mark"}
         /\ AfterMark(h) \in {"root", "done"}
         /\ First(e) \in {"flush", "send", "get"}
<1>1. NotAppended(e) \in {"send", "late"}
  BY DEF NotAppended
<1>2. Handle(e, t) \in {"append", "send", "late", "hash", "done", "push", "pop", "claim"}
  BY <1>1 DEF Handle
<1>3. Standalone(e, taken) \in {"llm", "stop"} /\ Standalone(e, <<>>) \in {"llm", "stop"}
  BY DEF Standalone
<1>4. AfterClaim(e, t) \in {"clear", "pop", "llm", "stop"}
  BY <1>3 DEF AfterClaim
<1>5. AfterFlush(e) \in {"end", "reset", "saveRoot"}
  BY DEF AfterFlush
<1>6. AfterMark(h) \in {"root", "done"}
  BY DEF AfterMark
<1>7. First(e) \in {"flush", "send", "get"}
  BY DEF First
<1> QED
  BY <1>1, <1>2, <1>3, <1>4, <1>5, <1>6, <1>7 DEF Stages

(* What a handler knows where it goes on with the turn t.                  *)
LEMMA HandleKnows ==
  ASSUME NEW e, NEW t, NEW mine
  PROVE  Knows(e, Handle(e, t), t, mine)
BY DEF Handle, NotAppended, Knows

-----------------------------------------------------------------------------
(* Type correctness *)

LEMMA InitType ==
  ASSUME Init
  PROVE  StateType /\ Resolved
<1>1. Idle("new") \in HookType
  BY EmptySeq DEF Idle, HookType, Stages
<1>2. stacks \in [StackNames \X Gens -> Seq(Entry)]
  BY EmptySeq DEF Init
<1>3. ev \in [Hooks -> Event]
  BY DEF Init, Kinds, AnyGen, Event
<1>4. Resolved
  BY DEF Resolved, Idle, Init, Knows
<1> QED
  BY <1>1, <1>2, <1>3, <1>4 DEF StateType, Init

(* The turn with one more alias, response or thought is still a turn.      *)
LEMMA TurnGrows ==
  ASSUME NEW t \in Turn
  PROVE  /\ \A g \in Gens : [t EXCEPT !.aliases = Capped(Append(@, g), Cap.aliases)] \in Turn
         /\ \A h \in Hooks : [t EXCEPT !.responses = Capped(Append(@, h), Cap.responses)] \in Turn
         /\ \A x \in Texts : [t EXCEPT !.thoughts = Capped(Append(@, x), Cap.thoughts)] \in Turn
<1>1. Cap.aliases \in Nat \ {0} /\ Cap.responses \in Nat \ {0} /\ Cap.thoughts \in Nat \ {0}
  BY CursorAssumption
<1>2. t.aliases \in Seq(Gens) /\ t.responses \in Seq(Hooks) /\ t.thoughts \in Seq(Texts)
  BY DEF Turn
<1>3. \A g \in Gens : Capped(Append(t.aliases, g), Cap.aliases) \in Seq(Gens)
  BY <1>1, <1>2, AppendProperties, CappedType
<1>4. \A h \in Hooks : Capped(Append(t.responses, h), Cap.responses) \in Seq(Hooks)
  BY <1>1, <1>2, AppendProperties, CappedType
<1>5. \A x \in Texts : Capped(Append(t.thoughts, x), Cap.thoughts) \in Seq(Texts)
  BY <1>1, <1>2, AppendProperties, CappedType
<1> QED
  BY <1>3, <1>4, <1>5 DEF Turn

(* Going on at s with the local variables l keeps the type of hook and     *)
(* Resolved, if l has what the handler must know at s.                     *)
LEMMA ContinueKeepsType ==
  ASSUME hook \in [Hooks -> HookType], Resolved,
         NEW h \in Hooks, NEW s \in Stages, NEW l \in HookType, Continue(h, s, l),
         s = "done" \/ Knows(ev'[h], s, l.seen, l.mine),
         \A o \in Hooks : o # h => ev'[o] = ev[o]
  PROVE  hook' \in [Hooks -> HookType] /\ Resolved'
<1>1. /\ hook' \in [Hooks -> HookType]
      /\ \A o \in Hooks : o # h => hook'[o] = hook[o]
      /\ s # "done" => hook'[h] = [l EXCEPT !.at = s]
      /\ hook'[h].at = s
  BY ContinueType
<1>2. s # "done" => hook'[h].seen = l.seen /\ hook'[h].mine = l.mine
  BY <1>1 DEF HookType
<1>3. \A seen, mine, e : Knows(e, "done", seen, mine)
  BY DEF Knows
<1>4. Knows(ev'[h], hook'[h].at, hook'[h].seen, hook'[h].mine)
  BY <1>1, <1>2, <1>3
<1> QED
  BY <1>1, <1>4 DEF Resolved

(* The same for Goto, which keeps the local variables.                     *)
LEMMA GotoKeepsType ==
  ASSUME hook \in [Hooks -> HookType], Resolved,
         NEW h \in Hooks, NEW s \in Stages, Goto(h, s),
         s = "done" \/ Knows(ev'[h], s, hook[h].seen, hook[h].mine),
         \A o \in Hooks : o # h => ev'[o] = ev[o]
  PROVE  hook' \in [Hooks -> HookType] /\ Resolved'
<1>1. hook[h] \in HookType
  OBVIOUS
<1> QED
  BY <1>1, ContinueKeepsType DEF Goto

(* Reading: the turn, the markers, the root of the generation.             *)
LEMMA ReadingType ==
  ASSUME NEW h \in Hooks, StateType, Resolved,
         GetActive(h) \/ CheckMarked(h) \/ ReadRoot(h) \/ CheckLate(h)
  PROVE  StateType' /\ Resolved'
<1> USE DEF StateType
<1>1. hook[h] \in HookType /\ ev[h].gen \in AnyGen
  BY DEF Event
<1>2. UNCHANGED <<active, roots, stacks, ev>>
  BY DEF GetActive, CheckMarked, ReadRoot, CheckLate, disk
<1>3. CASE GetActive(h)
  <2> DEFINE s == IF active = NoTurn THEN "readRoot"
                  ELSE IF Matches(active, ev[h].gen) THEN Handle(ev[h], active) ELSE "check"
             l == [hook[h] EXCEPT !.seen = active]
  <2>1. s \in Stages \ {"new", "root", "mark"}
    BY StagesType DEF Stages
  <2>2. l \in HookType /\ l.seen = active
    BY <1>1 DEF HookType
  <2>3. Knows(ev[h], "readRoot", NoTurn, l.mine)
    BY DEF Knows
  <2>4. active # NoTurn /\ ~Matches(active, ev[h].gen) => Knows(ev[h], "check", active, l.mine)
    BY DEF Matches, Knows
  <2>5. Knows(ev[h], s, active, l.mine)
    BY <2>3, <2>4, HandleKnows
  <2>6. Continue(h, s, l)
    BY <1>3 DEF GetActive
  <2> HIDE DEF s, l
  <2>7. hook' \in [Hooks -> HookType] /\ Resolved'
    BY <1>2, <2>1, <2>2, <2>5, <2>6, ContinueKeepsType
  <2> QED
    BY <1>2, <2>7
<1>4. CASE CheckMarked(h)
  <2> DEFINE l == [hook[h] EXCEPT !.seen = NoTurn]
             s == IF ev[h].kind = "stop" THEN "done" ELSE "alias"
  <2>1. l \in HookType /\ "readRoot" \in Stages /\ s \in Stages /\ l.seen = NoTurn
    BY <1>1 DEF HookType, Stages
  <2>2. hook[h].seen # NoTurn /\ ev[h].gen # NoGen
    BY <1>4 DEF CheckMarked, Resolved, Knows
  <2>3. Knows(ev[h], "readRoot", l.seen, l.mine)
    BY <2>1 DEF Knows
  <2>4. s = "done" \/ Knows(ev[h], s, hook[h].seen, hook[h].mine)
    BY <2>2 DEF Knows
  <2>5. Continue(h, "readRoot", l) \/ Goto(h, s)
    BY <1>4 DEF CheckMarked
  <2> HIDE DEF s, l
  <2>6. hook' \in [Hooks -> HookType] /\ Resolved'
    BY <1>2, <2>1, <2>3, <2>4, <2>5, ContinueKeepsType, GotoKeepsType
  <2> QED
    BY <1>2, <2>6
<1>5. CASE ReadRoot(h)
  <2> DEFINE l == [hook[h] EXCEPT !.parent = IF ev[h].gen = NoGen THEN NoHook ELSE roots[ev[h].gen]]
             s == Handle(ev[h], NoTurn)
  <2>1. l \in HookType /\ l.seen = hook[h].seen
    BY <1>1 DEF HookType, AnyGen
  <2>2. hook[h].seen = NoTurn
    BY <1>5 DEF ReadRoot, Resolved, Knows
  <2>3. s \in Stages
    BY StagesType
  <2>4. Knows(ev[h], s, l.seen, l.mine)
    BY <2>1, <2>2, HandleKnows
  <2>5. Continue(h, s, l)
    BY <1>5 DEF ReadRoot
  <2> HIDE DEF s, l
  <2>6. hook' \in [Hooks -> HookType] /\ Resolved'
    BY <1>2, <2>1, <2>3, <2>4, <2>5, ContinueKeepsType
  <2> QED
    BY <1>2, <2>6
<1>6. CASE CheckLate(h)
  <2> DEFINE s == IF IsMarked(ev[h].gen) THEN "done" ELSE "push"
  <2>1. s \in Stages /\ Goto(h, s)
    BY <1>6 DEF CheckLate, Stages
  <2>2. Knows(ev[h], s, hook[h].seen, hook[h].mine)
    BY DEF Knows
  <2> HIDE DEF s
  <2> QED
    BY <1>2, <2>1, <2>2, GotoKeepsType
<1> QED
  BY <1>3, <1>4, <1>5, <1>6

(* Writing to the turn the event was resolved to.                          *)
LEMMA WritingType ==
  ASSUME NEW h \in Hooks, StateType, Resolved,
         RecordAlias(h) \/ AddResponse(h) \/ AddThought(h)
  PROVE  StateType' /\ Resolved'
<1> USE DEF StateType
<1>1. hook[h] \in HookType /\ ev[h] \in Event
  OBVIOUS
<1>2. UNCHANGED <<roots, stacks, ev>>
  BY DEF RecordAlias, AddResponse, AddThought
<1>3. SeenIsActive(h) => active \in Turn
  BY DEF SeenIsActive
<1>4. CASE RecordAlias(h)
  <2> DEFINE turn == IF ev[h].gen \in Ids(active) THEN active
                     ELSE [active EXCEPT !.aliases = Capped(Append(@, ev[h].gen), Cap.aliases)]
             seen == IF SeenIsActive(h) THEN turn ELSE hook[h].seen
             s == Handle(ev[h], seen)
             l == [hook[h] EXCEPT !.seen = seen]
  <2>1. hook[h].seen \in Turn /\ ev[h].gen \in Gens
    BY <1>1, <1>4 DEF RecordAlias, Resolved, Knows, HookType, Event, AnyGen
  <2>2. SeenIsActive(h) => turn \in Turn
    BY <1>3, <2>1, TurnGrows
  <2>3. active' \in Turn \cup {NoTurn} /\ Continue(h, s, l)
    BY <1>4, <2>2 DEF RecordAlias
  <2>4. seen \in Turn
    BY <2>1, <2>2
  <2> HIDE DEF turn, seen
  <2>5. s \in Stages
    BY StagesType
  <2>6. l \in HookType /\ l.seen = seen
    BY <1>1, <2>4 DEF HookType
  <2>7. Knows(ev[h], s, l.seen, l.mine)
    BY <2>6, HandleKnows
  <2> HIDE DEF s, l
  <2>8. hook' \in [Hooks -> HookType] /\ Resolved'
    BY <1>2, <2>3, <2>5, <2>6, <2>7, ContinueKeepsType
  <2> QED
    BY <1>2, <2>3, <2>8
<1>5. CASE AddResponse(h)
  <2>1. active' \in Turn \cup {NoTurn}
    BY <1>3, <1>5, TurnGrows DEF AddResponse
  <2>2. PICK s \in {"done", "late", "send"} : Goto(h, s)
    BY <1>5 DEF AddResponse, NotAppended
  <2>3. Knows(ev[h], s, hook[h].seen, hook[h].mine)
    BY DEF Knows
  <2>4. hook' \in [Hooks -> HookType] /\ Resolved'
    BY <1>2, <2>2, <2>3, GotoKeepsType DEF Stages
  <2> QED
    BY <1>2, <2>1, <2>4
<1>6. CASE AddThought(h)
  <2>1. ev[h].text \in Texts
    BY <1>1, <1>6 DEF AddThought, Resolved, Knows, Event
  <2>2. active' \in Turn \cup {NoTurn}
    BY <1>3, <1>6, <2>1, TurnGrows DEF AddThought
  <2>3. PICK s \in {"done", "send"} : Goto(h, s)
    BY <1>6 DEF AddThought
  <2>4. Knows(ev[h], s, hook[h].seen, hook[h].mine)
    BY DEF Knows
  <2>5. hook' \in [Hooks -> HookType] /\ Resolved'
    BY <1>2, <2>3, <2>4, GotoKeepsType DEF Stages
  <2> QED
    BY <1>2, <2>2, <2>5
<1> QED
  BY <1>4, <1>5, <1>6

(* What a hook finds and takes when it pops its stack.                     *)
LEMMA PopEntry ==
  ASSUME NEW h \in Hooks, StateType, Resolved, Pop(h)
  PROVE  LET k == StackOf(h)
             q == stacks[k]
         IN /\ k \in StackNames \X Gens /\ q \in Seq(Entry)
            /\ q # <<>> => /\ Len(q) \in 1 .. Len(q) /\ q[Len(q)] \in Entry
                          /\ SubSeq(q, 1, Len(q) - 1) \in Seq(Entry)
                          /\ <<q[Len(q)]>> \o hook[h].taken \in Seq(Entry)
<1> USE DEF StateType
<1> DEFINE k == StackOf(h)
           q == stacks[k]
<1>1. hook[h] \in HookType /\ ev[h] \in Event
  OBVIOUS
<1>2. Knows(ev[h], "pop", hook[h].seen, hook[h].mine)
  BY DEF Pop, Resolved
<1>3. k \in StackNames \X Gens
  BY <1>1, <1>2 DEF Knows, StackOf, TraceOf, StackNames, HookType, Turn, Event, AnyGen
<1>4. q \in Seq(Entry) /\ Len(q) \in Nat
  BY <1>3, LenProperties
<1>5. CASE q # <<>>
  <2>1. Len(q) \in 1 .. Len(q) /\ q[Len(q)] \in Entry
    BY <1>4, <1>5, EmptySeq, ElementOfSeq
  <2>2. SubSeq(q, 1, Len(q) - 1) \in Seq(Entry)
    BY <1>4, <2>1, SubSeqProperties
  <2>3. <<q[Len(q)]>> \in Seq(Entry) /\ hook[h].taken \in Seq(Entry)
    BY <1>1, <2>1 DEF HookType
  <2>4. <<q[Len(q)]>> \o hook[h].taken \in Seq(Entry)
    BY <2>3, ConcatProperties
  <2> QED
    BY <1>3, <1>4, <2>1, <2>2, <2>4
<1> QED
  BY <1>3, <1>4, <1>5

(* The stacks and the point spans.                                         *)
LEMMA StackType ==
  ASSUME NEW h \in Hooks, StateType, Resolved, Push(h) \/ Pop(h) \/ SendPoint(h)
  PROVE  StateType' /\ Resolved'
<1> USE DEF StateType
<1>1. hook[h] \in HookType /\ ev[h] \in Event
  OBVIOUS
<1>2. UNCHANGED <<active, roots, ev>>
  BY DEF Push, Pop, SendPoint, disk
<1>3. CASE Push(h)
  <2> DEFINE e == [by |-> h, turn |-> ParentOf(h), trace |-> TraceOf(h)]
  <2>1. e \in Entry
    BY <1>1 DEF Entry, ParentOf, TraceOf, HookType, Turn, Event
  <2>2. \A k \in StackNames \X Gens : Append(stacks[k], e) \in Seq(Entry)
    BY <2>1, AppendProperties
  <2>3. stacks' \in [StackNames \X Gens -> Seq(Entry)]
    BY <1>3, <2>2 DEF Push
  <2>4. Goto(h, "done") /\ "done" \in Stages
    BY <1>3 DEF Push, Stages
  <2> QED
    BY <1>2, <2>3, <2>4, GotoKeepsType
<1>4. CASE Pop(h)
  <2> DEFINE k == StackOf(h)
             q == stacks[k]
             n == IF ev[h].kind = "after" THEN "send" ELSE Standalone(ev[h], hook[h].taken)
             t == <<q[Len(q)]>> \o hook[h].taken
             l == [hook[h] EXCEPT !.taken = t]
             s == IF ev[h].kind = "after" THEN "send" ELSE "pop"
  <2>1. Knows(ev[h], "pop", hook[h].seen, hook[h].mine)
    BY <1>4 DEF Pop, Resolved
  <2>4. CASE q = <<>>
    <3>1. n \in {"send", "llm", "stop"} /\ Goto(h, n) /\ UNCHANGED stacks
      BY <1>4, <2>4 DEF Pop, Standalone
    <3>2. Knows(ev[h], n, hook[h].seen, hook[h].mine) /\ n \in Stages
      BY <3>1 DEF Knows, Stages
    <3> HIDE DEF n
    <3> QED
      BY <1>2, <3>1, <3>2, GotoKeepsType
  <2>5. CASE q # <<>>
    <3>2. SubSeq(q, 1, Len(q) - 1) \in Seq(Entry) /\ t \in Seq(Entry)
      BY <1>4, <2>5, PopEntry
    <3>3. stacks' \in [StackNames \X Gens -> Seq(Entry)] /\ Continue(h, s, l)
      BY <1>4, <2>5, <3>2 DEF Pop
    <3> HIDE DEF t
    <3>6. l \in HookType /\ l.seen = hook[h].seen /\ l.mine = hook[h].mine
      BY <1>1, <3>2 DEF HookType
    <3>7. Knows(ev[h], s, l.seen, l.mine) /\ s \in Stages
      BY <2>1, <3>6 DEF Knows, Stages
    <3> HIDE DEF s, l
    <3>8. hook' \in [Hooks -> HookType] /\ Resolved'
      BY <1>2, <3>3, <3>6, <3>7, ContinueKeepsType
    <3> QED
      BY <1>2, <3>3, <3>8
  <2> QED
    BY <2>4, <2>5
<1>5. CASE SendPoint(h)
  <2>1. PICK s \in {"done", "saveRoot"} : Goto(h, s)
    BY <1>5 DEF SendPoint
  <2>2. Knows(ev[h], s, hook[h].seen, hook[h].mine) /\ s \in Stages /\ UNCHANGED stacks
    BY <1>5 DEF Knows, Stages, SendPoint, disk
  <2> QED
    BY <1>2, <2>1, <2>2, GotoKeepsType
<1> QED
  BY <1>3, <1>4, <1>5

(* The steps of a stop.                                                    *)
LEMMA StopType ==
  ASSUME NEW h \in Hooks, StateType, Resolved,
         Claim(h) \/ ClearIfMatches(h) \/ SendRoot(h) \/ SendLlm(h) \/ SendStop(h)
  PROVE  StateType' /\ Resolved'
<1> USE DEF StateType
<1>1. hook[h] \in HookType
  OBVIOUS
<1>2. UNCHANGED <<roots, stacks, ev>> /\ active' \in Turn \cup {NoTurn}
  BY DEF Claim, ClearIfMatches, SendRoot, SendLlm, SendStop, disk
<1>3. CASE Claim(h)
  <2>1. ev[h].kind = "stop"
    BY <1>3 DEF Claim, Resolved, Knows
  <2>2. PICK s \in {"done", AfterClaim(ev[h], hook[h].seen)} : Goto(h, s)
    BY <1>3 DEF Claim
  <2>3. s \in Stages
    BY <2>2, StagesType DEF Stages
  <2>4. Knows(ev[h], s, hook[h].seen, hook[h].mine)
    BY <2>1, <2>2 DEF Knows, AfterClaim, Standalone
  <2> QED
    BY <1>2, <2>2, <2>3, <2>4, GotoKeepsType
<1>4. CASE ClearIfMatches(h)
  <2> DEFINE l == [hook[h] EXCEPT !.mine = active]
  <2>1. active = NoTurn => ~SeenIsActive(h)
    BY DEF SeenIsActive
  <2>2. (active # NoTurn /\ Continue(h, "root", l)) \/ Goto(h, "done")
    BY <1>4, <2>1 DEF ClearIfMatches
  <2>3. l \in HookType /\ l.mine = active /\ "root" \in Stages /\ "done" \in Stages
    BY <1>1 DEF HookType, Stages
  <2>4. active # NoTurn => Knows(ev[h], "root", l.seen, l.mine)
    BY <2>3 DEF Knows
  <2> HIDE DEF l
  <2> QED
    BY <1>2, <2>2, <2>3, <2>4, ContinueKeepsType, GotoKeepsType
<1>5. CASE SendRoot(h) \/ SendLlm(h) \/ SendStop(h)
  <2>1. PICK s \in {"llm", "stop", "clean"} : Goto(h, s)
    BY <1>5 DEF SendRoot, SendLlm, SendStop
  <2>2. Knows(ev[h], s, hook[h].seen, hook[h].mine) /\ s \in Stages
    BY DEF Knows, Stages
  <2> QED
    BY <1>2, <2>1, <2>2, GotoKeepsType
<1> QED
  BY <1>3, <1>4, <1>5

(* The steps of a prompt, of a session end, and of every closing.          *)
LEMMA ClosingType ==
  ASSUME NEW h \in Hooks, StateType, Resolved,
         \/ Flush(h) \/ MarkClosed(h) \/ CleanUp(h) \/ ResetNogen(h)
         \/ SaveRoot(h) \/ SaveTurn(h) \/ EndSession(h) \/ RemoveActive(h)
  PROVE  StateType' /\ Resolved'
<1> USE DEF StateType
<1>1. hook[h] \in HookType /\ ev[h] \in Event
  OBVIOUS
<1>2. UNCHANGED ev
  BY DEF Flush, MarkClosed, CleanUp, ResetNogen, SaveRoot, SaveTurn, EndSession, RemoveActive
<1>3. AfterFlush(ev[h]) \in {"end", "reset", "saveRoot"}
  BY DEF AfterFlush
<1>4. NewTurn(h) \in Turn
  BY <1>1, EmptySeq DEF NewTurn, Turn, Event
<1>5. /\ active' \in Turn \cup {NoTurn}
      /\ roots' \in [Gens -> Hooks \cup {NoHook}]
  BY <1>4 DEF Flush, MarkClosed, CleanUp, ResetNogen, SaveRoot, SaveTurn, EndSession,
              RemoveActive, disk
<1>6. stacks' \in [StackNames \X Gens -> Seq(Entry)]
  <2>1. \A k \in StackNames \X Gens : stacks[k] \in Seq(Entry)
    OBVIOUS
  <2>2. DOMAIN stacks = StackNames \X Gens
    OBVIOUS
  <2>3. CASE CleanUp(h)
    <3>1. PICK gens : stacks' = [k \in DOMAIN stacks |-> IF k[2] \in gens THEN <<>> ELSE stacks[k]]
      BY <2>3 DEF CleanUp
    <3>2. \A k \in DOMAIN stacks :
            (IF k[2] \in gens THEN <<>> ELSE stacks[k]) \in Seq(Entry)
      BY <2>1, <2>2, EmptySeq
    <3> QED
      BY <2>2, <3>1, <3>2
  <2>4. CASE ~CleanUp(h)
    BY <2>4 DEF Flush, MarkClosed, ResetNogen, SaveRoot, SaveTurn, EndSession, RemoveActive, disk
  <2> QED
    BY <2>3, <2>4
<1>7. CASE Flush(h)
  <2> DEFINE l == [hook[h] EXCEPT !.mine = active]
             s == IF active = NoTurn THEN AfterFlush(ev[h]) ELSE "mark"
  <2>1. l \in HookType /\ l.mine = active
    BY <1>1 DEF HookType
  <2>2. Knows(ev[h], s, l.seen, active) /\ s \in Stages /\ Continue(h, s, l)
    BY <1>3, <1>7 DEF Knows, Stages, Flush
  <2> HIDE DEF l, s
  <2> QED
    BY <1>2, <1>5, <1>6, <2>1, <2>2, ContinueKeepsType
<1>8. CASE MarkClosed(h)
  <2>1. Goto(h, AfterMark(h)) /\ AfterMark(h) \in {"root", "done"} /\ hook[h].mine # NoTurn
    BY <1>8, StagesType DEF MarkClosed, Resolved, Knows
  <2>2. Knows(ev[h], AfterMark(h), hook[h].seen, hook[h].mine) /\ AfterMark(h) \in Stages
    BY <2>1 DEF Knows, Stages
  <2> QED
    BY <1>2, <1>5, <1>6, <2>1, <2>2, GotoKeepsType
<1>9. CASE CleanUp(h)
  <2> DEFINE l == [hook[h] EXCEPT !.mine = NoTurn]
             s == AfterFlush(ev[h])
  <2>1. l \in HookType
    BY <1>1 DEF HookType
  <2>2. \/ Continue(h, s, l)
        \/ \E r \in {"done", "wipe"} : Goto(h, r)
        \/ hook[h].mine # NoTurn /\ Goto(h, "mark")
    BY <1>9 DEF CleanUp
  <2>3. Knows(ev[h], s, l.seen, l.mine) /\ s \in Stages
    BY <1>3 DEF Knows, Stages
  <2>4. \A r \in {"done", "wipe"} : r \in Stages /\ Knows(ev[h], r, hook[h].seen, hook[h].mine)
    BY DEF Knows, Stages
  <2>5. /\ "mark" \in Stages
        /\ hook[h].mine # NoTurn => Knows(ev[h], "mark", hook[h].seen, hook[h].mine)
    BY DEF Knows, Stages
  <2> HIDE DEF l, s
  <2>6. hook' \in [Hooks -> HookType] /\ Resolved'
    BY <1>2, <2>1, <2>2, <2>3, <2>4, <2>5, ContinueKeepsType, GotoKeepsType
  <2> QED
    BY <1>2, <1>5, <1>6, <2>6
<1>10. CASE ResetNogen(h) \/ SaveRoot(h) \/ SaveTurn(h) \/ EndSession(h) \/ RemoveActive(h)
  <2>1. PICK s \in {"save", "done", "wipe", "clean"} : Goto(h, s)
    BY <1>10 DEF ResetNogen, SaveRoot, SaveTurn, EndSession, RemoveActive
  <2>2. Knows(ev[h], s, hook[h].seen, hook[h].mine) /\ s \in Stages
    BY DEF Knows, Stages
  <2> QED
    BY <1>2, <1>5, <1>6, <2>1, <2>2, GotoKeepsType
<1> QED
  BY <1>7, <1>8, <1>9, <1>10

(* The start of a hook.                                                    *)
LEMMA StartType ==
  ASSUME NEW h \in Hooks, StateType, Resolved,
         NEW k \in Kinds, NEW g \in AnyGen, NEW x \in Texts \cup {NoText}, Start(h, k, g, x)
  PROVE  StateType' /\ Resolved'
<1> USE DEF StateType
<1>1. UNCHANGED <<active, roots, stacks>> /\ Goto(h, First(k)) /\ hook[h].at = "new"
  BY DEF Start, disk
<1>2. [kind |-> k, gen |-> g, text |-> x] \in Event
  BY DEF Start, Event
<1>3. /\ ev' \in [Hooks -> Event]
      /\ \A o \in Hooks : o # h => ev'[o] = ev[o]
  BY <1>2 DEF Start
<1>4. First(k) \in {"flush", "send", "get"}
  BY StagesType
<1>5. hook[h].seen = NoTurn
  BY <1>1 DEF Resolved, Knows
<1>6. First(k) \in Stages /\ Knows(ev'[h], First(k), hook[h].seen, hook[h].mine)
  BY <1>4, <1>5 DEF Knows, Stages
<1> QED
  BY <1>1, <1>3, <1>6, GotoKeepsType

(* Failures.                                                               *)
LEMMA FailureType ==
  ASSUME NEW h \in Hooks, StateType, Resolved, FailOperation(h) \/ Crash(h)
  PROVE  StateType' /\ Resolved'
<1> USE DEF StateType
<1> DEFINE e == ev[h]
           seen == hook[h].seen
           mine == hook[h].mine
           l == [hook[h] EXCEPT !.mine = NewTurn(h)]
<1>1. UNCHANGED <<active, roots, stacks, ev>> /\ hook[h] \in HookType /\ e \in Event
  BY DEF FailOperation, Crash, disk
<1>2. Knows(e, hook[h].at, seen, mine)
  BY DEF Resolved
<1>3. NewTurn(h) \in Turn
  BY <1>1, EmptySeq DEF NewTurn, Turn, Event
<1>4. l \in HookType /\ l.mine # NoTurn
  BY <1>1, <1>3, NoTurnAssumption DEF HookType
<1>5. "root" \in Stages /\ Knows(e, "root", l.seen, l.mine)
  BY <1>4 DEF Knows, Stages
<1>6. \A s \in {"late", "send", "push", "end", "reset", "saveRoot", "save", "done"} :
        s \in Stages /\ Knows(e, s, seen, mine)
  BY DEF Knows, Stages
<1>7. \/ Continue(h, "root", l)
      \/ \E s \in Stages : Goto(h, s) /\ Knows(e, s, seen, mine)
  <2>1. CASE Crash(h)
    BY <1>6, <2>1 DEF Crash
  <2>2. CASE FailOperation(h) /\ hook[h].at = "get"
    BY <1>2, <2>2 DEF FailOperation, Knows, Stages
  <2>3. CASE FailOperation(h) /\ hook[h].at = "check"
    <3>1. PICK s \in {"done", "alias"} : Goto(h, s)
      BY <2>3 DEF FailOperation
    <3> QED
      BY <1>2, <2>3, <3>1 DEF Knows, Stages
  <2>4. CASE FailOperation(h) /\ hook[h].at = "alias"
    BY <2>4, HandleKnows, StagesType DEF FailOperation
  <2>5. CASE FailOperation(h) /\ hook[h].at = "claim"
    <3>1. Goto(h, AfterClaim(e, seen)) /\ e.kind = "stop" /\ AfterClaim(e, seen) \in Stages
      BY <1>2, <2>5, StagesType DEF FailOperation, Knows
    <3>2. Knows(e, AfterClaim(e, seen), seen, mine)
      BY <3>1 DEF Knows, AfterClaim, Standalone
    <3> QED
      BY <3>1, <3>2
  <2>6. CASE FailOperation(h) /\ hook[h].at = "mark"
    <3>1. Goto(h, AfterMark(h)) /\ AfterMark(h) \in {"root", "done"} /\ mine # NoTurn
      BY <1>2, <2>6, StagesType DEF FailOperation, Knows
    <3> QED
      BY <3>1 DEF Knows, Stages
  <2>7. CASE FailOperation(h) /\ hook[h].at \notin {"get", "check", "alias", "claim", "mark"}
    <3>1. NotAppended(e) \in {"late", "send"} /\ AfterFlush(e) \in {"end", "reset", "saveRoot"}
      BY DEF NotAppended, AfterFlush
    <3> HIDE DEF e, seen, mine, l
    <3>2. \/ Continue(h, "root", l)
          \/ \E s \in {"late", "send", "push", "end", "reset", "saveRoot", "save", "done"} : Goto(h, s)
      BY <2>7, <3>1 DEF FailOperation, e, l
    <3> QED
      BY <1>6, <3>2
  <2> QED
    BY <2>1, <2>2, <2>3, <2>4, <2>5, <2>6, <2>7
<1> HIDE DEF l
<1> QED
  BY <1>1, <1>4, <1>5, <1>7, ContinueKeepsType, GotoKeepsType

(* Every step keeps the types and what the handlers know.                  *)
LEMMA NextType ==
  ASSUME StateType, Resolved, [Next]_vars
  PROVE  StateType' /\ Resolved'
<1>1. CASE UNCHANGED vars
  BY <1>1 DEF vars, disk, StateType, Resolved
<1>2. CASE Next
  BY <1>2, StartType, ReadingType, WritingType, StackType, StopType, ClosingType, FailureType
     DEF Next, Step
<1> QED
  BY <1>1, <1>2

-----------------------------------------------------------------------------
(* A turn is in one place at a time *)

(* Hook h is going to send the root of turn r.                             *)
Holds(h, r) ==
  /\ hook[h].mine # NoTurn /\ hook[h].mine.root = r
  /\ hook[h].at = "root" \/ (hook[h].at = "mark" /\ Flushes(h))

(* The hook of r's prompt is past the point where it saves its turn.       *)
Past(r) == hook[r].at = "done" \/ (hook[r].mine # NoTurn /\ hook[r].mine.root = r)

Closing == {"mark", "root", "llm", "stop", "clean"}

(* The inductive invariant behind RootAtMostOnce: the right to send the    *)
(* root of a turn is with the file active, or with one hook, or spent.     *)
OwnsWhileClosing ==
  \A h \in Hooks : hook[h].mine # NoTurn => hook[h].at \in Closing /\ Past(hook[h].mine.root)
ActiveIsUnsent ==
  active # NoTurn => /\ hook[active.root].at = "done" /\ ~RootSent(active.root)
                     /\ \A h \in Hooks : ~Holds(h, active.root)
HeldIsUnsent == \A h, r \in Hooks : Holds(h, r) => ~RootSent(r)
HeldByOne == \A h, o, r \in Hooks : Holds(h, r) /\ Holds(o, r) => h = o
SentIsPast == \A r \in Hooks : RootSent(r) => Past(r)

OneOwner ==
  OwnsWhileClosing /\ ActiveIsUnsent /\ HeldIsUnsent /\ HeldByOne /\ SentIsPast /\ RootAtMostOnce

(* A step of a hook that neither takes a turn over nor sends a root: it    *)
(* may drop the turn it has, and the active one.                           *)
LEMMA QuietStep ==
  ASSUME StateType, OneOwner,
         NEW h \in Hooks, NEW s \in Stages, NEW l \in HookType, Continue(h, s, l),
         hook[h].at # "done",
         active' \in Turn \cup {NoTurn},
         active' = NoTurn \/ (active # NoTurn /\ active'.root = active.root),
         \A x : x.name = "root" => (x \in spans' <=> x \in spans),
         \A o \in Hooks : o # h => ev'[o] = ev[o],
         l.mine \in {hook[h].mine, NoTurn},
         s # "done" /\ l.mine # NoTurn => s \in Closing,
         s # "done" /\ Past(h) => l.mine # NoTurn,
         s = "root" /\ l.mine # NoTurn => Holds(h, l.mine.root),
         s = "mark" /\ l.mine # NoTurn => ev'[h].kind = "stop" \/ l.mine.root = h
  PROVE  OneOwner'
<1>1. /\ hook' \in [Hooks -> HookType]
      /\ \A o \in Hooks : o # h => hook'[o] = hook[o]
      /\ s = "done" => hook'[h] = Idle("done")
      /\ s # "done" => hook'[h] = [l EXCEPT !.at = s]
      /\ hook'[h].at = s
  BY ContinueType DEF StateType
<1>2. hook'[h].mine = IF s = "done" THEN NoTurn ELSE l.mine
  BY <1>1 DEF Idle, HookType
<1>3. \A r \in Hooks : RootSent(r)' <=> RootSent(r)
  BY DEF RootSent
<1>4. \A r \in Hooks : Past(r) => Past(r)'
  BY <1>1, <1>2 DEF Past
<1>5. \A o, r \in Hooks : Holds(o, r)' => Holds(o, r)
  BY <1>1, <1>2 DEF Holds, Flushes
<1>6. \A o \in Hooks : hook'[o].mine # NoTurn => hook'[o].mine = hook[o].mine /\ hook[o].mine \in Turn
  BY <1>1, <1>2 DEF StateType, HookType
<1>7. OwnsWhileClosing'
  BY <1>1, <1>2, <1>4, <1>6 DEF OneOwner, OwnsWhileClosing, Turn
<1>8. ActiveIsUnsent'
  BY <1>1, <1>3, <1>5 DEF OneOwner, ActiveIsUnsent, Turn
<1>9. HeldIsUnsent' /\ HeldByOne' /\ SentIsPast'
  BY <1>3, <1>4, <1>5 DEF OneOwner, HeldIsUnsent, HeldByOne, SentIsPast
<1>10. RootAtMostOnce'
  BY DEF OneOwner, RootAtMostOnce
<1> QED
  BY <1>7, <1>8, <1>9, <1>10 DEF OneOwner

(* In particular: a hook that has no turn gets none.                       *)
LEMMA EarlyStep ==
  ASSUME StateType, OneOwner,
         NEW h \in Hooks, NEW s \in Stages, NEW l \in HookType, Continue(h, s, l),
         hook[h].at \notin Closing \cup {"done"},
         l.mine = hook[h].mine,
         active' \in Turn \cup {NoTurn},
         active' = NoTurn \/ (active # NoTurn /\ active'.root = active.root),
         \A x : x.name = "root" => (x \in spans' <=> x \in spans),
         \A o \in Hooks : o # h => ev'[o] = ev[o]
  PROVE  OneOwner'
<1>1. hook[h].mine = NoTurn
  BY DEF OneOwner, OwnsWhileClosing
<1>2. ~Past(h)
  BY <1>1 DEF Past
<1> QED
  BY <1>1, <1>2, QuietStep

(* The same for Goto. *)
LEMMA EarlyGoto ==
  ASSUME StateType, OneOwner,
         NEW h \in Hooks, NEW s \in Stages, Goto(h, s),
         hook[h].at \notin Closing \cup {"done"},
         active' \in Turn \cup {NoTurn},
         active' = NoTurn \/ (active # NoTurn /\ active'.root = active.root),
         \A x : x.name = "root" => (x \in spans' <=> x \in spans),
         \A o \in Hooks : o # h => ev'[o] = ev[o]
  PROVE  OneOwner'
<1>1. hook[h] \in HookType
  BY DEF StateType
<1> QED
  BY <1>1, EarlyStep DEF Goto

(* Resolving an event.                                                     *)
LEMMA ReadingOwner ==
  ASSUME NEW h \in Hooks, StateType, Resolved, OneOwner,
         GetActive(h) \/ CheckMarked(h) \/ ReadRoot(h) \/ CheckLate(h)
  PROVE  OneOwner'
<1>1. UNCHANGED <<active, ev, spans>> /\ hook[h] \in HookType /\ active \in Turn \cup {NoTurn}
  BY DEF GetActive, CheckMarked, ReadRoot, CheckLate, disk, history, StateType
<1>2. hook[h].at \notin Closing \cup {"done"}
  BY DEF GetActive, CheckMarked, ReadRoot, CheckLate, Closing
<1>3. CASE GetActive(h)
  <2> DEFINE l == [hook[h] EXCEPT !.seen = active]
  <2>1. PICK s \in {"readRoot", "check", Handle(ev[h], active)} : Continue(h, s, l)
    BY <1>3 DEF GetActive
  <2>2. s \in Stages
    BY StagesType DEF Stages
  <2>3. l \in HookType /\ l.mine = hook[h].mine
    BY <1>1 DEF HookType
  <2> HIDE DEF l
  <2> QED
    BY <1>1, <1>2, <2>1, <2>2, <2>3, EarlyStep
<1>4. CASE CheckMarked(h)
  <2> DEFINE l == [hook[h] EXCEPT !.seen = NoTurn]
  <2>1. Continue(h, "readRoot", l) \/ \E s \in {"done", "alias"} : Goto(h, s)
    BY <1>4 DEF CheckMarked
  <2>2. l \in HookType /\ l.mine = hook[h].mine
    BY <1>1 DEF HookType
  <2>3. "readRoot" \in Stages /\ {"done", "alias"} \subseteq Stages
    BY DEF Stages
  <2> HIDE DEF l
  <2> QED
    BY <1>1, <1>2, <2>1, <2>2, <2>3, EarlyStep, EarlyGoto
<1>5. CASE ReadRoot(h)
  <2> DEFINE l == [hook[h] EXCEPT !.parent = IF ev[h].gen = NoGen THEN NoHook ELSE roots[ev[h].gen]]
             s == Handle(ev[h], NoTurn)
  <2>1. Continue(h, s, l) /\ s \in Stages
    BY <1>5, StagesType DEF ReadRoot
  <2>2. l \in HookType /\ l.mine = hook[h].mine
    BY <1>1 DEF HookType, StateType, Event, AnyGen
  <2> HIDE DEF l, s
  <2> QED
    BY <1>1, <1>2, <2>1, <2>2, EarlyStep
<1>6. CASE CheckLate(h)
  <2>1. PICK s \in {"done", "push"} : Goto(h, s)
    BY <1>6 DEF CheckLate
  <2> QED
    BY <1>1, <1>2, <2>1, EarlyGoto DEF Stages
<1> QED
  BY <1>3, <1>4, <1>5, <1>6

(* Writing to a turn.                                                      *)
LEMMA WritingOwner ==
  ASSUME NEW h \in Hooks, StateType, StateType', Resolved, OneOwner,
         RecordAlias(h) \/ AddResponse(h) \/ AddThought(h)
  PROVE  OneOwner'
<1>1. /\ UNCHANGED <<ev, spans>> /\ hook[h] \in HookType
      /\ active \in Turn \cup {NoTurn} /\ active' \in Turn \cup {NoTurn}
  BY DEF RecordAlias, AddResponse, AddThought, history, StateType
<1>2. hook[h].at \notin Closing \cup {"done"}
  BY DEF RecordAlias, AddResponse, AddThought, Closing
<1>3. active' = active \/ (active # NoTurn /\ active'.root = active.root)
  BY <1>1 DEF RecordAlias, AddResponse, AddThought, SeenIsActive, Turn
<1>4. CASE RecordAlias(h)
  <2> DEFINE turn == IF ev[h].gen \in Ids(active) THEN active
                     ELSE [active EXCEPT !.aliases = Capped(Append(@, ev[h].gen), Cap.aliases)]
             seen == IF SeenIsActive(h) THEN turn ELSE hook[h].seen
             s == Handle(ev[h], seen)
             l == [hook[h] EXCEPT !.seen = seen]
  <2>1. Continue(h, s, l) /\ active' = IF SeenIsActive(h) THEN turn ELSE active
    BY <1>4 DEF RecordAlias
  <2>2. seen \in Turn \cup {NoTurn}
    BY <1>1, <2>1 DEF HookType
  <2> HIDE DEF turn, seen
  <2>3. s \in Stages
    BY StagesType
  <2>4. l \in HookType /\ l.mine = hook[h].mine
    BY <1>1, <2>2 DEF HookType
  <2> HIDE DEF s, l
  <2> QED
    BY <1>1, <1>2, <1>3, <2>1, <2>3, <2>4, EarlyStep
<1>5. CASE AddResponse(h) \/ AddThought(h)
  <2>1. PICK s \in {"done", "late", "send"} : Goto(h, s)
    BY <1>5 DEF AddResponse, NotAppended, AddThought
  <2> QED
    BY <1>1, <1>2, <1>3, <2>1, EarlyGoto DEF Stages
<1> QED
  BY <1>4, <1>5

(* The stacks and the point spans.                                         *)
LEMMA StackOwner ==
  ASSUME NEW h \in Hooks, StateType, Resolved, OneOwner, Push(h) \/ Pop(h) \/ SendPoint(h)
  PROVE  OneOwner'
<1>1. UNCHANGED <<active, ev>> /\ hook[h] \in HookType /\ active \in Turn \cup {NoTurn}
  BY DEF Push, Pop, SendPoint, disk, StateType
<1>2. hook[h].at \notin Closing \cup {"done"}
  BY DEF Push, Pop, SendPoint, Closing
<1>3. \A x : x.name = "root" => (x \in spans' <=> x \in spans)
  <2>1. CASE SendPoint(h)
    <3>1. ev[h].kind # "root"
      BY DEF StateType, Event, Kinds
    <3> QED
      BY <2>1, <3>1 DEF SendPoint, Sent
  <2>2. CASE Push(h) \/ Pop(h)
    BY <2>2 DEF Push, Pop, history
  <2> QED
    BY <2>1, <2>2
<1>4. CASE Pop(h) /\ stacks[StackOf(h)] # <<>>
  <2> DEFINE q == stacks[StackOf(h)]
             t == <<q[Len(q)]>> \o hook[h].taken
             l == [hook[h] EXCEPT !.taken = t]
  <2>1. t \in Seq(Entry)
    BY <1>4, PopEntry
  <2>2. PICK s \in {"send", "pop"} : Continue(h, s, l)
    BY <1>4 DEF Pop
  <2> HIDE DEF t
  <2>3. l \in HookType /\ l.mine = hook[h].mine
    BY <1>1, <2>1 DEF HookType
  <2> HIDE DEF l
  <2> QED
    BY <1>1, <1>2, <1>3, <2>2, <2>3, EarlyStep DEF Stages
<1>5. CASE Push(h) \/ SendPoint(h) \/ (Pop(h) /\ stacks[StackOf(h)] = <<>>)
  <2>1. PICK s \in {"done", "saveRoot", "send", "llm", "stop"} : Goto(h, s)
    BY <1>5 DEF Push, SendPoint, Pop, Standalone
  <2> QED
    BY <1>1, <1>2, <1>3, <2>1, EarlyGoto DEF Stages
<1> QED
  BY <1>4, <1>5

(* A hook takes the active turn over, to send it.                          *)
LEMMA TakeStep ==
  ASSUME StateType, OneOwner, NEW h \in Hooks, NEW s \in {"root", "mark"},
         hook[h].at \notin Closing \cup {"done"}, active # NoTurn,
         Continue(h, s, [hook[h] EXCEPT !.mine = active]),
         active' = NoTurn, UNCHANGED <<ev, spans>>
  PROVE  OneOwner'
<1> DEFINE l == [hook[h] EXCEPT !.mine = active]
<1>1. active \in Turn /\ active.root \in Hooks
  BY DEF StateType, Turn
<1>2. l \in HookType /\ l.mine = active
  BY <1>1 DEF StateType, HookType
<1>3. s \in Stages /\ s \in Closing /\ s # "done"
  BY DEF Stages, Closing
<1>16. Continue(h, s, l) /\ hook \in [Hooks -> HookType]
  BY DEF StateType
<1> HIDE DEF l
<1>4. /\ hook' \in [Hooks -> HookType]
      /\ \A o \in Hooks : o # h => hook'[o] = hook[o]
      /\ hook'[h] = [l EXCEPT !.at = s]
      /\ hook'[h].at = s
  BY <1>2, <1>3, <1>16, ContinueType
<1>5. hook'[h].mine = active /\ hook[h].mine = NoTurn
  BY <1>2, <1>4 DEF HookType, OneOwner, OwnsWhileClosing
<1>6. \A r \in Hooks : RootSent(r)' <=> RootSent(r)
  BY DEF RootSent
<1>7. \A r \in Hooks : Past(r) => Past(r)'
  BY <1>4, <1>5 DEF Past
<1>8. \A o, r \in Hooks : Holds(o, r)' => Holds(o, r) \/ (o = h /\ r = active.root)
  BY <1>4, <1>5 DEF Holds, Flushes
<1>9. Past(active.root) /\ ~RootSent(active.root) /\ \A o \in Hooks : ~Holds(o, active.root)
  BY DEF OneOwner, ActiveIsUnsent, Past
<1>10. \A o \in Hooks : o # h /\ hook[o].mine # NoTurn => hook[o].mine.root \in Hooks
  BY DEF StateType, HookType, Turn
<1>11. OwnsWhileClosing'
  BY <1>1, <1>3, <1>4, <1>5, <1>7, <1>9, <1>10 DEF OneOwner, OwnsWhileClosing
<1>12. ActiveIsUnsent'
  BY DEF ActiveIsUnsent
<1>13. HeldIsUnsent' /\ HeldByOne' /\ SentIsPast'
  BY <1>6, <1>7, <1>8, <1>9 DEF OneOwner, HeldIsUnsent, HeldByOne, SentIsPast
<1>14. RootAtMostOnce'
  BY DEF OneOwner, RootAtMostOnce
<1> QED
  BY <1>11, <1>12, <1>13, <1>14 DEF OneOwner

(* The steps of a stop.                                                    *)
LEMMA StopOwner ==
  ASSUME NEW h \in Hooks, StateType, Resolved, OneOwner,
         Claim(h) \/ ClearIfMatches(h) \/ SendRoot(h) \/ SendLlm(h) \/ SendStop(h)
  PROVE  OneOwner'
<1>1. hook[h] \in HookType /\ active \in Turn \cup {NoTurn} /\ hook \in [Hooks -> HookType]
  BY DEF StateType
<1>2. UNCHANGED ev
  BY DEF Claim, ClearIfMatches, SendRoot, SendLlm, SendStop
<1>3. CASE Claim(h)
  <2>1. PICK s \in {"done", AfterClaim(ev[h], hook[h].seen)} : Goto(h, s)
    BY <1>3 DEF Claim
  <2>2. s \in Stages
    BY <2>1, StagesType DEF Stages
  <2>3. hook[h].at \notin Closing \cup {"done"} /\ UNCHANGED <<active, spans>>
    BY <1>3 DEF Claim, Closing, history
  <2> QED
    BY <1>1, <1>2, <2>1, <2>2, <2>3, EarlyGoto
<1>4. CASE ClearIfMatches(h)
  <2>1. hook[h].at \notin Closing \cup {"done"} /\ UNCHANGED spans
    BY <1>4 DEF ClearIfMatches, Closing, history
  <2>2. CASE UNCHANGED active /\ Goto(h, "done")
    BY <1>1, <1>2, <2>1, <2>2, EarlyGoto DEF Stages
  <2>3. CASE ~(UNCHANGED active /\ Goto(h, "done"))
    <3>1. active # NoTurn /\ active' = NoTurn /\ Continue(h, "root", [hook[h] EXCEPT !.mine = active])
      BY <1>4, <2>3 DEF ClearIfMatches, SeenIsActive
    <3> QED
      BY <1>2, <2>1, <3>1, TakeStep
  <2> QED
    BY <2>2, <2>3
<1>5. CASE SendRoot(h)
  <2> DEFINE r == hook[h].mine.root
  <2>1. hook[h].mine \in Turn /\ r \in Hooks /\ hook[h].mine # NoTurn
    BY <1>1, <1>5 DEF SendRoot, Resolved, Knows, HookType, Turn
  <2>2. Holds(h, r)
    BY <1>5, <2>1 DEF Holds, SendRoot
  <2>3. UNCHANGED active /\ Goto(h, "llm") /\ "llm" \in Stages /\ "llm" \in Closing
    BY <1>5 DEF SendRoot, disk, Stages, Closing
  <2>4. /\ hook' \in [Hooks -> HookType]
        /\ \A o \in Hooks : o # h => hook'[o] = hook[o]
        /\ hook'[h] = [hook[h] EXCEPT !.at = "llm"]
        /\ hook'[h].at = "llm"
    BY <1>1, <2>3, ContinueType DEF Goto
  <2>5. hook'[h].mine = hook[h].mine
    BY <1>1, <2>4 DEF HookType
  <2>6. PICK t : t.name = "root" /\ t.turn = r /\ spans' = spans \cup {t}
    BY <1>5 DEF SendRoot, Sent
  <2>7. \A q \in Hooks : RootSent(q)' <=> RootSent(q) \/ q = r
    BY <2>6 DEF RootSent
  <2>8. \A q \in Hooks : Past(q) => Past(q)'
    BY <1>5, <2>4, <2>5 DEF Past, SendRoot
  <2>9. \A o, q \in Hooks : Holds(o, q)' => o # h /\ Holds(o, q)
    BY <1>2, <2>4 DEF Holds, Flushes
  <2>10. OwnsWhileClosing'
    <3>1. \A o \in Hooks : hook'[o].mine = hook[o].mine /\ (hook[o].mine # NoTurn => hook[o].mine.root \in Hooks)
      BY <1>1, <2>4, <2>5 DEF HookType, Turn
    <3> QED
      BY <2>3, <2>4, <2>8, <3>1 DEF OneOwner, OwnsWhileClosing
  <2>11. ActiveIsUnsent'
    <3>1. active # NoTurn => active.root \in Hooks /\ active.root # r /\ active.root # h
      BY <1>1, <1>5, <2>2 DEF OneOwner, ActiveIsUnsent, Turn, SendRoot
    <3> QED
      BY <2>3, <2>4, <2>7, <2>9, <3>1 DEF OneOwner, ActiveIsUnsent
  <2>12. HeldIsUnsent' /\ HeldByOne'
    BY <2>1, <2>2, <2>7, <2>9 DEF OneOwner, HeldIsUnsent, HeldByOne
  <2>13. SentIsPast'
    BY <2>1, <2>7, <2>8 DEF OneOwner, SentIsPast, OwnsWhileClosing
  <2>14. RootAtMostOnce'
    BY <2>1, <2>2, <2>6 DEF OneOwner, RootAtMostOnce, HeldIsUnsent, RootSent
  <2> QED
    BY <2>10, <2>11, <2>12, <2>13, <2>14 DEF OneOwner
<1>6. CASE SendLlm(h) \/ SendStop(h)
  <2>1. PICK s \in {"stop", "clean"} : Goto(h, s)
    BY <1>6 DEF SendLlm, SendStop
  <2>2. UNCHANGED active /\ hook[h].at \in {"llm", "stop"}
    BY <1>6 DEF SendLlm, SendStop, disk
  <2>3. \A x : x.name = "root" => (x \in spans' <=> x \in spans)
    BY <1>6 DEF SendLlm, SendStop, Sent
  <2>4. s \in Stages /\ s \in Closing
    BY DEF Stages, Closing
  <2> QED
    BY <1>1, <1>2, <2>1, <2>2, <2>3, <2>4, QuietStep DEF Goto, Past
<1> QED
  BY <1>3, <1>4, <1>5, <1>6

(* A prompt puts its own turn where no hook had one: into the file, or, if *)
(* that fails, it sends the turn itself.                                   *)
LEMMA OwnTurn ==
  ASSUME NEW h \in Hooks, StateType, OneOwner, UNCHANGED <<ev, spans>>,
         \/ SaveTurn(h)
         \/ /\ hook[h].at = "save" /\ UNCHANGED active
            /\ Continue(h, "root", [hook[h] EXCEPT !.mine = NewTurn(h)])
  PROVE  OneOwner'
<1> DEFINE l == [hook[h] EXCEPT !.mine = NewTurn(h)]
<1>1. hook[h] \in HookType /\ hook \in [Hooks -> HookType] /\ active \in Turn \cup {NoTurn}
  BY DEF StateType
<1>2. NewTurn(h) \in Turn /\ NewTurn(h) # NoTurn /\ NewTurn(h).root = h
  <2>1. ev[h].gen \in AnyGen
    BY DEF StateType, Event
  <2>2. NewTurn(h) \in Turn /\ NewTurn(h).root = h
    BY <2>1, EmptySeq DEF NewTurn, Turn
  <2> QED
    BY <2>2, NoTurnAssumption
<1>3. hook[h].at = "save" /\ hook[h].mine = NoTurn
  BY DEF SaveTurn, OneOwner, OwnsWhileClosing, Closing
<1>4. ~RootSent(h) /\ (active # NoTurn => active.root # h) /\ \A o \in Hooks : ~Holds(o, h)
  BY <1>3 DEF Past, OneOwner, OwnsWhileClosing, SentIsPast, ActiveIsUnsent, Holds
<1>5. l \in HookType /\ l.mine = NewTurn(h)
  BY <1>1, <1>2 DEF HookType
<1>6. {"root", "done"} \subseteq Stages /\ "root" \in Closing
  BY DEF Stages, Closing
<1>7. (SaveTurn(h) /\ Continue(h, "done", hook[h])) \/ (UNCHANGED active /\ Continue(h, "root", l))
  BY DEF SaveTurn, Goto
<1>8. SaveTurn(h) => active' = NewTurn(h)
  BY DEF SaveTurn
<1> HIDE DEF l
<1>9. /\ hook' \in [Hooks -> HookType]
      /\ \A o \in Hooks : o # h => hook'[o] = hook[o]
      /\ \/ SaveTurn(h) /\ hook'[h] = Idle("done")
         \/ UNCHANGED active /\ hook'[h] = [l EXCEPT !.at = "root"]
  BY <1>1, <1>5, <1>6, <1>7, ContinueType
<1>10. \/ SaveTurn(h) /\ hook'[h].mine = NoTurn /\ hook'[h].at = "done"
       \/ UNCHANGED active /\ hook'[h].mine = NewTurn(h) /\ hook'[h].at = "root"
  BY <1>5, <1>9 DEF Idle, HookType
<1>11. \A r \in Hooks : RootSent(r)' <=> RootSent(r)
  BY DEF RootSent
<1>12. Past(h)' /\ \A r \in Hooks : Past(r) => Past(r)'
  BY <1>2, <1>9, <1>10 DEF Past
<1>13. \A o, r \in Hooks : Holds(o, r)' => Holds(o, r) \/ (UNCHANGED active /\ o = h /\ r = h)
  BY <1>2, <1>9, <1>10 DEF Holds, Flushes
<1>14. \A o \in Hooks : o # h /\ hook[o].mine # NoTurn => hook[o].mine.root \in Hooks
  BY <1>1 DEF HookType, Turn
<1>15. OwnsWhileClosing'
  BY <1>2, <1>6, <1>9, <1>10, <1>12, <1>14 DEF OneOwner, OwnsWhileClosing
<1>16. ActiveIsUnsent'
  <2>1. CASE SaveTurn(h)
    <3>1. active'.root = h /\ hook'[h].at = "done" /\ \A o \in Hooks : ~Holds(o, h)'
      BY <1>2, <1>4, <1>8, <1>10, <1>13, <2>1 DEF Holds
    <3> QED
      BY <1>4, <1>11, <3>1 DEF ActiveIsUnsent
  <2>2. CASE UNCHANGED active
    <3>1. active # NoTurn => active.root \in Hooks /\ active.root # h
      BY <1>1, <1>4 DEF Turn
    <3> QED
      BY <1>9, <1>11, <1>13, <2>2, <3>1 DEF ActiveIsUnsent, OneOwner
  <2> QED
    BY <1>10, <2>1, <2>2
<1>17. HeldIsUnsent' /\ HeldByOne' /\ SentIsPast'
  BY <1>4, <1>11, <1>12, <1>13 DEF OneOwner, HeldIsUnsent, HeldByOne, SentIsPast
<1>18. RootAtMostOnce'
  BY DEF OneOwner, RootAtMostOnce
<1> QED
  BY <1>15, <1>16, <1>17, <1>18 DEF OneOwner

(* The steps of a prompt, of a session end, and of every closing.          *)
LEMMA ClosingOwner ==
  ASSUME NEW h \in Hooks, StateType, Resolved, OneOwner,
         \/ Flush(h) \/ MarkClosed(h) \/ CleanUp(h) \/ ResetNogen(h)
         \/ SaveRoot(h) \/ SaveTurn(h) \/ EndSession(h) \/ RemoveActive(h)
  PROVE  OneOwner'
<1>1. hook[h] \in HookType /\ active \in Turn \cup {NoTurn} /\ hook \in [Hooks -> HookType]
  BY DEF StateType
<1>2. UNCHANGED ev
  BY DEF Flush, MarkClosed, CleanUp, ResetNogen, SaveRoot, SaveTurn, EndSession, RemoveActive
<1>3. AfterFlush(ev[h]) \in {"end", "reset", "saveRoot"}
  BY DEF AfterFlush
<1>4. CASE Flush(h)
  <2>1. hook[h].at \notin Closing \cup {"done"} /\ UNCHANGED spans /\ active' = NoTurn
    BY <1>4 DEF Flush, Closing, history
  <2>2. CASE active = NoTurn
    <3> DEFINE l == [hook[h] EXCEPT !.mine = active]
    <3>1. Continue(h, AfterFlush(ev[h]), l) /\ AfterFlush(ev[h]) \in Stages
      BY <1>3, <1>4, <2>2 DEF Flush, Stages
    <3>2. l \in HookType /\ l.mine = NoTurn /\ hook[h].mine = NoTurn
      BY <1>1, <2>1, <2>2 DEF HookType, OneOwner, OwnsWhileClosing
    <3> HIDE DEF l
    <3> QED
      BY <1>2, <2>1, <2>2, <3>1, <3>2, EarlyStep
  <2>3. CASE active # NoTurn
    BY <1>2, <1>4, <2>1, <2>3, TakeStep DEF Flush
  <2> QED
    BY <2>2, <2>3
<1>5. CASE MarkClosed(h)
  <2>1. hook[h].at = "mark" /\ UNCHANGED <<active, spans>> /\ Goto(h, AfterMark(h))
    BY <1>5 DEF MarkClosed, history
  <2>2. AfterMark(h) = "done" \/ (AfterMark(h) = "root" /\ Flushes(h))
    BY DEF AfterMark
  <2>3. hook[h].mine # NoTurn => (Flushes(h) => Holds(h, hook[h].mine.root))
    BY <2>1 DEF Holds
  <2>4. {"done", "root"} \subseteq Stages /\ "root" \in Closing
    BY DEF Stages, Closing
  <2> QED
    BY <1>1, <1>2, <2>1, <2>2, <2>3, <2>4, QuietStep DEF Goto, Past
<1>6. CASE CleanUp(h)
  <2> DEFINE l == [hook[h] EXCEPT !.mine = NoTurn]
  <2>1. hook[h].at = "clean" /\ UNCHANGED <<active, spans>>
    BY <1>6 DEF CleanUp, history
  <2>2. l \in HookType /\ l.mine = NoTurn
    BY <1>1 DEF HookType
  <2>3. {"done", "wipe", "mark", "end", "reset", "saveRoot"} \subseteq Stages /\ "mark" \in Closing
    BY DEF Stages, Closing
  <2>4. \/ hook[h].mine = NoTurn /\ \E s \in {"done", "wipe"} : Goto(h, s)
        \/ hook[h].mine # NoTurn /\ Flushes(h) /\ Continue(h, AfterFlush(ev[h]), l)
        \/ hook[h].mine # NoTurn /\ ~Flushes(h) /\ Goto(h, "mark")
    BY <1>6 DEF CleanUp
  <2> HIDE DEF l
  <2>5. CASE hook[h].mine = NoTurn
    BY <1>1, <1>2, <2>1, <2>3, <2>4, <2>5, QuietStep DEF Goto, Past
  <2>6. CASE hook[h].mine # NoTurn /\ Flushes(h) /\ Continue(h, AfterFlush(ev[h]), l)
    <3>1. ~Past(h)
      BY <2>1, <2>6 DEF Past, Flushes
    <3> QED
      BY <1>1, <1>2, <1>3, <2>1, <2>2, <2>3, <2>6, <3>1, QuietStep
  <2>7. CASE hook[h].mine # NoTurn /\ ~Flushes(h) /\ Goto(h, "mark")
    BY <1>1, <1>2, <2>1, <2>3, <2>7, QuietStep DEF Goto, Past, Flushes
  <2> QED
    BY <2>4, <2>5, <2>6, <2>7
<1>7. CASE SaveTurn(h)
  BY <1>2, <1>7, OwnTurn DEF SaveTurn, history
<1>8. CASE ResetNogen(h) \/ SaveRoot(h) \/ EndSession(h) \/ RemoveActive(h)
  <2>1. CASE EndSession(h) /\ ev[h].gen # NoGen
    <3>1. hook[h].at = "end" /\ Goto(h, "clean") /\ UNCHANGED active
      BY <2>1 DEF EndSession, disk
    <3>2. \A x : x.name = "root" => (x \in spans' <=> x \in spans)
      BY <2>1 DEF EndSession, Sent
    <3>3. "clean" \in Stages /\ "end" \notin Closing
      BY DEF Stages, Closing
    <3> QED
      BY <1>1, <1>2, <3>1, <3>2, <3>3, EarlyGoto
  <2>2. CASE ~(EndSession(h) /\ ev[h].gen # NoGen)
    <3>1. PICK s \in {"save", "done", "wipe"} : Goto(h, s)
      BY <1>8, <2>2 DEF ResetNogen, SaveRoot, EndSession, RemoveActive
    <3>2. hook[h].at \notin Closing \cup {"done"}
      BY <1>8 DEF ResetNogen, SaveRoot, EndSession, RemoveActive, Closing
    <3>3. active' \in {active, NoTurn}
      BY <1>8 DEF ResetNogen, SaveRoot, EndSession, RemoveActive, disk
    <3>4. \A x : x.name = "root" => (x \in spans' <=> x \in spans)
      BY <1>8 DEF ResetNogen, SaveRoot, EndSession, RemoveActive, Sent, history
    <3> QED
      BY <1>1, <1>2, <3>1, <3>2, <3>3, <3>4, EarlyGoto DEF Stages
  <2> QED
    BY <2>1, <2>2
<1> QED
  BY <1>4, <1>5, <1>6, <1>7, <1>8

(* Starts and failures.                                                    *)
LEMMA OtherOwner ==
  ASSUME NEW h \in Hooks, StateType, Resolved, OneOwner,
         \/ \E k \in Kinds, g \in AnyGen, x \in Texts \cup {NoText} : Start(h, k, g, x)
         \/ FailOperation(h) \/ Crash(h)
  PROVE  OneOwner'
<1>1. hook[h] \in HookType /\ active \in Turn \cup {NoTurn} /\ hook \in [Hooks -> HookType]
  BY DEF StateType
<1>2. /\ UNCHANGED <<active, spans>> /\ hook[h].at # "done"
      /\ \A o \in Hooks : o # h => ev'[o] = ev[o]
  <2>1. UNCHANGED <<active, spans>> /\ \A o \in Hooks : o # h => ev'[o] = ev[o]
    BY DEF Start, FailOperation, Crash, disk, history, StateType
  <2>2. FailOperation(h) => hook[h].at # "done"
    BY DEF FailOperation
  <2>3. ~FailOperation(h) => hook[h].at # "done"
    BY DEF Start, Crash, Running
  <2> QED
    BY <2>1, <2>2, <2>3
<1>3. CASE \E k \in Kinds, g \in AnyGen, x \in Texts \cup {NoText} : Start(h, k, g, x)
  <2>1. PICK s \in {"flush", "send", "get"} : Goto(h, s) /\ hook[h].at = "new"
    BY <1>3, StagesType DEF Start
  <2> QED
    BY <1>1, <1>2, <2>1, EarlyGoto DEF Stages, Closing
<1>4. CASE Crash(h)
  BY <1>1, <1>2, <1>4, QuietStep DEF Crash, Goto, Stages
<1>5. CASE FailOperation(h)
  <2>1. UNCHANGED <<ev, spans>>
    BY <1>5 DEF FailOperation, history
  <2>2. CASE hook[h].at = "mark"
    <3>1. Goto(h, AfterMark(h))
      BY <1>5, <2>2 DEF FailOperation
    <3>2. AfterMark(h) = "done" \/ (AfterMark(h) = "root" /\ Flushes(h))
      BY DEF AfterMark
    <3>3. hook[h].mine # NoTurn => (Flushes(h) => Holds(h, hook[h].mine.root))
      BY <2>2 DEF Holds
    <3>4. {"done", "root"} \subseteq Stages /\ "root" \in Closing
      BY DEF Stages, Closing
    <3> QED
      BY <1>1, <1>2, <2>1, <2>2, <3>1, <3>2, <3>3, <3>4, QuietStep DEF Goto, Past
  <2>3. CASE hook[h].at = "save"
    BY <1>2, <1>5, <2>1, <2>3, OwnTurn DEF FailOperation
  <2>4. CASE hook[h].at \notin {"mark", "save"}
    <3>1. PICK s : s \in Stages /\ Goto(h, s)
      <4>1. /\ Handle(ev[h], hook[h].seen) \in Stages /\ NotAppended(ev[h]) \in Stages
            /\ AfterClaim(ev[h], hook[h].seen) \in Stages /\ AfterFlush(ev[h]) \in Stages
        BY StagesType
      <4>2. {"readRoot", "done", "alias", "push", "send", "save"} \subseteq Stages
        BY DEF Stages
      <4> QED
        BY <1>5, <2>4, <4>1, <4>2 DEF FailOperation
    <3>2. hook[h].at \notin Closing \cup {"done"}
      BY <1>5, <2>4 DEF FailOperation, Closing
    <3> QED
      BY <1>1, <1>2, <3>1, <3>2, EarlyGoto
  <2> QED
    BY <2>2, <2>3, <2>4
<1> QED
  BY <1>3, <1>4, <1>5

LEMMA InitOwner ==
  ASSUME Init
  PROVE  OneOwner
<1>1. \A h \in Hooks : hook[h].mine = NoTurn
  BY DEF Init, Idle
<1>2. OwnsWhileClosing /\ ActiveIsUnsent /\ HeldIsUnsent /\ HeldByOne
  BY <1>1 DEF OwnsWhileClosing, ActiveIsUnsent, HeldIsUnsent, HeldByOne, Holds, Init
<1>3. SentIsPast /\ RootAtMostOnce
  BY DEF Init, SentIsPast, RootSent, RootAtMostOnce
<1> QED
  BY <1>2, <1>3 DEF OneOwner

LEMMA NextOwner ==
  ASSUME StateType, StateType', Resolved, OneOwner, [Next]_vars
  PROVE  OneOwner'
<1>1. CASE UNCHANGED vars
  <2>1. UNCHANGED <<active, ev, hook, spans>>
    BY <1>1 DEF vars, disk, history
  <2> QED
    BY <2>1 DEF OneOwner, OwnsWhileClosing, ActiveIsUnsent, HeldIsUnsent, HeldByOne, SentIsPast,
                RootAtMostOnce, RootSent, Past, Holds, Flushes
<1>2. CASE Next
  BY <1>2, ReadingOwner, WritingOwner, StackOwner, StopOwner, ClosingOwner, OtherOwner
     DEF Next, Step
<1> QED
  BY <1>1, <1>2

(* At all times the right to send a turn's root is in one place.           *)
THEOREM TurnInvariant == Spec => [](StateType /\ Resolved /\ OneOwner)
<1>1. Init => StateType /\ Resolved /\ OneOwner
  BY InitType, InitOwner
<1>2. StateType /\ Resolved /\ OneOwner /\ [Next]_vars => (StateType /\ Resolved /\ OneOwner)'
  BY NextType, NextOwner
<1> QED
  BY <1>1, <1>2, PTL DEF Spec

(* The root span of a turn is sent by one hook at most, with any number of *)
(* hooks and generations, whatever dies, fails or overlaps.                *)
THEOREM RootSentAtMostOnce == Spec => []RootAtMostOnce
<1>1. StateType /\ Resolved /\ OneOwner => RootAtMostOnce
  BY DEF OneOwner
<1> QED
  BY <1>1, TurnInvariant, PTL

-----------------------------------------------------------------------------
(* Parents and traces *)

(* Whatever names a turn names its trace, too: t is the hook of a prompt   *)
(* or of a session start that has begun, and g is its generation.          *)
Tracks(t, g) == t = NoHook \/ (t \in Hooks /\ hook[t].at # "new" /\ ev[t].gen = g)

TurnTracks(t) == t = NoTurn \/ Tracks(t.root, t.gen)

EntryTracks(e) == Tracks(e.turn, e.trace)

LocalTracks(e, l) ==
  /\ TurnTracks(l.seen) /\ TurnTracks(l.mine)
  /\ Tracks(l.parent, e.gen) /\ (l.at = "new" => l.parent = NoHook)
  /\ \A x \in Elems(l.taken) : EntryTracks(x)

TracesAgree ==
  /\ TurnTracks(active)
  /\ \A g \in Gens : Tracks(roots[g], g)
  /\ \A k \in StackNames \X Gens : \A e \in Elems(stacks[k]) : EntryTracks(e)
  /\ \A h \in Hooks : LocalTracks(ev[h], hook[h])
  /\ \A s \in spans : EntryTracks(s)

(* What the sequence operations of the stacks hold.                        *)
LEMMA ElemsAppend ==
  ASSUME NEW S, NEW q \in Seq(S), NEW x \in S
  PROVE  Elems(Append(q, x)) = Elems(q) \cup {x}
<1>1. q \in Seq(S) /\ Len(q) \in Nat /\ DOMAIN q = 1 .. Len(q)
  BY LenProperties
<1>2. /\ DOMAIN Append(q, x) = 1 .. Len(q) + 1 /\ Append(q, x)[Len(q) + 1] = x
      /\ \A i \in 1 .. Len(q) : Append(q, x)[i] = q[i]
  BY <1>1, AppendProperties
<1>3. DOMAIN Append(q, x) = DOMAIN q \cup {Len(q) + 1}
  BY <1>1, <1>2
<1> QED
  BY <1>1, <1>2, <1>3 DEF Elems

LEMMA ElemsFirst ==
  ASSUME NEW S, NEW q \in Seq(S), NEW x \in S
  PROVE  Elems(<<x>> \o q) = {x} \cup Elems(q)
<1> DEFINE p == <<x>> \o q
<1>1. q \in Seq(S) /\ Len(q) \in Nat /\ DOMAIN q = 1 .. Len(q)
  BY LenProperties
<1>2. /\ DOMAIN p = 1 .. Len(q) + 1 /\ p[1] = x
      /\ \A i \in 1 .. Len(q) : p[i + 1] = q[i]
  BY <1>1
<1>3. /\ \A j \in 1 .. Len(q) + 1 : j = 1 \/ (j - 1 \in 1 .. Len(q) /\ (j - 1) + 1 = j)
      /\ \A i \in 1 .. Len(q) : i + 1 \in 1 .. Len(q) + 1
      /\ 1 \in 1 .. Len(q) + 1
  BY <1>1
<1> HIDE DEF p
<1>4. \A j \in DOMAIN p : p[j] \in {x} \cup Elems(q)
  <2>1. \A i \in 1 .. Len(q) : p[i + 1] \in Elems(q)
    BY <1>1, <1>2 DEF Elems
  <2> QED
    BY <1>2, <1>3, <2>1
<1>5. {x} \cup Elems(q) \subseteq Elems(p)
  BY <1>1, <1>2, <1>3 DEF Elems
<1>6. Elems(p) = {x} \cup Elems(q)
  BY <1>4, <1>5 DEF Elems
<1> QED
  BY <1>6 DEF p

LEMMA ElemsPrefix ==
  ASSUME NEW S, NEW q \in Seq(S), NEW n \in 0 .. Len(q)
  PROVE  Elems(SubSeq(q, 1, n)) \subseteq Elems(q)
<1>1. q \in Seq(S) /\ Len(q) \in Nat /\ DOMAIN q = 1 .. Len(q)
  BY LenProperties
<1>2. /\ DOMAIN SubSeq(q, 1, n) = 1 .. n
      /\ \A i \in 1 .. n : SubSeq(q, 1, n)[i] = q[i]
  BY <1>1
<1> QED
  BY <1>1, <1>2 DEF Elems

(* What a step leaves of the disk and of the history is still known, and   *)
(* so is what it adds.                                                     *)
LEMMA TracesStep ==
  ASSUME StateType, TracesAgree,
         NEW h \in Hooks, NEW s \in Stages \ {"new"}, NEW l \in HookType, Continue(h, s, l),
         \A o \in Hooks : o # h \/ hook[h].at # "new" => ev'[o] = ev[o],
         TurnTracks(active'),
         \A g \in Gens : Tracks(roots'[g], g),
         \A k \in StackNames \X Gens : \A e \in Elems(stacks'[k]) : EntryTracks(e),
         \A x \in spans' : EntryTracks(x),
         TurnTracks(l.seen), TurnTracks(l.mine), Tracks(l.parent, ev'[h].gen),
         \A x \in Elems(l.taken) : EntryTracks(x)
  PROVE  TracesAgree'
<1>1. /\ hook' \in [Hooks -> HookType]
      /\ \A o \in Hooks : o # h => hook'[o] = hook[o]
      /\ s = "done" => hook'[h] = Idle("done")
      /\ s # "done" => hook'[h] = [l EXCEPT !.at = s]
      /\ hook'[h].at = s
  BY ContinueType DEF StateType
<1>2. \A t, g : Tracks(t, g) => Tracks(t, g)'
  BY <1>1 DEF Tracks
<1>3. /\ \A t : TurnTracks(t) => t = NoTurn \/ Tracks(t.root, t.gen)'
      /\ \A e : EntryTracks(e) => Tracks(e.turn, e.trace)'
  BY <1>2 DEF TurnTracks, EntryTracks
<1>4. TurnTracks(active)' /\ (\A g \in Gens : Tracks(roots[g], g))'
  BY <1>2, <1>3 DEF TurnTracks
<1>5. (\A k \in StackNames \X Gens : \A e \in Elems(stacks[k]) : EntryTracks(e))'
  BY <1>3 DEF EntryTracks, Elems
<1>6. (\A x \in spans : EntryTracks(x))'
  BY <1>3 DEF EntryTracks
<1>7. ASSUME NEW o \in Hooks
      PROVE  LocalTracks(ev[o], hook[o])'
  <2>1. CASE o # h
    BY <1>1, <1>2, <1>3, <2>1 DEF TracesAgree, LocalTracks, TurnTracks, EntryTracks, Elems
  <2>2. CASE o = h /\ s = "done"
    BY <1>1, <2>2 DEF Idle, LocalTracks, TurnTracks, Tracks, Elems
  <2>3. CASE o = h /\ s # "done"
    <3>1. /\ hook'[h].seen = l.seen /\ hook'[h].mine = l.mine /\ hook'[h].parent = l.parent
          /\ hook'[h].taken = l.taken
      BY <1>1, <2>3 DEF HookType
    <3> QED
      BY <1>1, <1>2, <1>3, <2>3, <3>1 DEF LocalTracks, TurnTracks, EntryTracks, Elems
  <2> QED
    BY <2>1, <2>2, <2>3
<1> QED
  BY <1>4, <1>5, <1>6, <1>7 DEF TracesAgree

(* The same for a step that keeps its local variables. *)
LEMMA TracesGoto ==
  ASSUME StateType, TracesAgree,
         NEW h \in Hooks, NEW s \in Stages \ {"new"}, Goto(h, s), UNCHANGED ev,
         TurnTracks(active'),
         \A g \in Gens : Tracks(roots'[g], g),
         \A k \in StackNames \X Gens : \A e \in Elems(stacks'[k]) : EntryTracks(e),
         \A x \in spans' : EntryTracks(x)
  PROVE  TracesAgree'
<1>1. hook[h] \in HookType
  BY DEF StateType
<1>2. LocalTracks(ev[h], hook[h])
  BY DEF TracesAgree
<1> QED
  BY <1>1, <1>2, TracesStep DEF Goto, LocalTracks

(* What _resolve_turn returns is a root and its trace.                     *)
LEMMA ParentTracks ==
  ASSUME TracesAgree, NEW h \in Hooks
  PROVE  Tracks(ParentOf(h), TraceOf(h))
BY DEF TracesAgree, LocalTracks, TurnTracks, ParentOf, TraceOf

(* Resolving an event.                                                     *)
LEMMA ReadingTraces ==
  ASSUME NEW h \in Hooks, StateType, Resolved, TracesAgree,
         GetActive(h) \/ CheckMarked(h) \/ ReadRoot(h) \/ CheckLate(h)
  PROVE  TracesAgree'
<1>1. UNCHANGED <<active, roots, stacks, ev, spans>> /\ hook[h] \in HookType
  BY DEF GetActive, CheckMarked, ReadRoot, CheckLate, disk, history, StateType
<1>2. /\ TurnTracks(active')
      /\ \A g \in Gens : Tracks(roots'[g], g)
      /\ \A k \in StackNames \X Gens : \A e \in Elems(stacks'[k]) : EntryTracks(e)
      /\ \A x \in spans' : EntryTracks(x)
      /\ LocalTracks(ev[h], hook[h])
  BY <1>1 DEF TracesAgree
<1>3. CASE GetActive(h)
  <2> DEFINE l == [hook[h] EXCEPT !.seen = active]
  <2>1. PICK s \in {"readRoot", "check", Handle(ev[h], active)} : Continue(h, s, l)
    BY <1>3 DEF GetActive
  <2>2. s \in Stages \ {"new"}
    BY StagesType DEF Stages
  <2>3. l \in HookType /\ l.seen = active /\ l.mine = hook[h].mine /\ l.parent = hook[h].parent
        /\ l.taken = hook[h].taken
    BY <1>1 DEF HookType, StateType
  <2> HIDE DEF l
  <2> QED
    BY <1>1, <1>2, <2>1, <2>2, <2>3, TracesStep DEF LocalTracks
<1>4. CASE CheckMarked(h)
  <2> DEFINE l == [hook[h] EXCEPT !.seen = NoTurn]
  <2>1. Continue(h, "readRoot", l) \/ \E s \in {"done", "alias"} : Goto(h, s)
    BY <1>4 DEF CheckMarked
  <2>2. l \in HookType /\ l.seen = NoTurn /\ l.mine = hook[h].mine /\ l.parent = hook[h].parent
        /\ l.taken = hook[h].taken
    BY <1>1 DEF HookType
  <2>3. "readRoot" \in Stages \ {"new"} /\ {"done", "alias"} \subseteq Stages \ {"new"}
    BY DEF Stages
  <2>4. TurnTracks(NoTurn)
    BY DEF TurnTracks
  <2> HIDE DEF l
  <2>5. CASE Continue(h, "readRoot", l)
    BY <1>1, <1>2, <2>2, <2>3, <2>4, <2>5, TracesStep DEF LocalTracks
  <2> QED
    BY <1>1, <1>2, <2>1, <2>3, <2>5, TracesGoto
<1>5. CASE ReadRoot(h)
  <2> DEFINE p == IF ev[h].gen = NoGen THEN NoHook ELSE roots[ev[h].gen]
             l == [hook[h] EXCEPT !.parent = p]
             s == Handle(ev[h], NoTurn)
  <2>1. Continue(h, s, l) /\ s \in Stages \ {"new"}
    BY <1>5, StagesType DEF ReadRoot
  <2>2. ev[h].gen \in AnyGen
    BY DEF StateType, Event
  <2>3. p \in Hooks \cup {NoHook} /\ Tracks(p, ev[h].gen)
    BY <2>2 DEF AnyGen, TracesAgree, Tracks, StateType
  <2> HIDE DEF p
  <2>4. l \in HookType /\ l.seen = hook[h].seen /\ l.mine = hook[h].mine /\ l.parent = p
        /\ l.taken = hook[h].taken
    BY <1>1, <2>3 DEF HookType
  <2> HIDE DEF l, s
  <2> QED
    BY <1>1, <1>2, <2>1, <2>3, <2>4, TracesStep DEF LocalTracks
<1>6. CASE CheckLate(h)
  <2>1. PICK s \in {"done", "push"} : Goto(h, s)
    BY <1>6 DEF CheckLate
  <2> QED
    BY <1>1, <1>2, <2>1, TracesGoto DEF Stages
<1> QED
  BY <1>3, <1>4, <1>5, <1>6

(* Writing to the turn the event was resolved to: neither its root nor its *)
(* generation changes.                                                     *)
LEMMA WritingTraces ==
  ASSUME NEW h \in Hooks, StateType, Resolved, TracesAgree,
         RecordAlias(h) \/ AddResponse(h) \/ AddThought(h)
  PROVE  TracesAgree'
<1>1. UNCHANGED <<roots, stacks, ev, spans>> /\ hook[h] \in HookType
  BY DEF RecordAlias, AddResponse, AddThought, history, StateType
<1>2. /\ TurnTracks(active)
      /\ \A g \in Gens : Tracks(roots'[g], g)
      /\ \A k \in StackNames \X Gens : \A e \in Elems(stacks'[k]) : EntryTracks(e)
      /\ \A x \in spans' : EntryTracks(x)
      /\ LocalTracks(ev[h], hook[h])
  BY <1>1 DEF TracesAgree
<1>3. /\ SeenIsActive(h) => active # NoTurn /\ active \in Turn
      /\ StateType' /\ Resolved'
  BY WritingType DEF SeenIsActive, StateType
<1>4. ASSUME NEW t, t.root = active.root, t.gen = active.gen, SeenIsActive(h)
      PROVE  TurnTracks(t)
  BY <1>2, <1>3, <1>4 DEF TurnTracks
<1>5. TurnTracks(active')
  <2>1. CASE UNCHANGED active
    BY <1>2, <2>1
  <2>2. CASE active' # active
    <3>1. SeenIsActive(h) /\ active'.root = active.root /\ active'.gen = active.gen
      BY <1>3, <2>2 DEF RecordAlias, AddResponse, AddThought, Turn
    <3> QED
      BY <1>4, <3>1
  <2> QED
    BY <2>1, <2>2
<1>6. CASE RecordAlias(h)
  <2> DEFINE turn == IF ev[h].gen \in Ids(active) THEN active
                     ELSE [active EXCEPT !.aliases = Capped(Append(@, ev[h].gen), Cap.aliases)]
             seen == IF SeenIsActive(h) THEN turn ELSE hook[h].seen
             l == [hook[h] EXCEPT !.seen = seen]
             s == Handle(ev[h], seen)
  <2>1. Continue(h, s, l)
    BY <1>6 DEF RecordAlias
  <2>2. SeenIsActive(h) => seen = active'
    BY <1>6 DEF RecordAlias
  <2>3. seen \in Turn \cup {NoTurn} /\ TurnTracks(seen)
    BY <1>1, <1>2, <1>3, <1>5, <2>2 DEF StateType, HookType, LocalTracks
  <2> HIDE DEF seen
  <2>4. l \in HookType /\ l.seen = seen /\ l.mine = hook[h].mine /\ l.parent = hook[h].parent
        /\ l.taken = hook[h].taken
    BY <1>1, <2>3 DEF HookType
  <2>5. s \in Stages \ {"new"}
    BY StagesType
  <2> HIDE DEF l, s
  <2> QED
    BY <1>1, <1>2, <1>5, <2>1, <2>3, <2>4, <2>5, TracesStep DEF LocalTracks
<1>7. CASE AddResponse(h) \/ AddThought(h)
  <2>1. PICK s \in {"done", "late", "send"} : Goto(h, s)
    BY <1>7 DEF AddResponse, AddThought, NotAppended
  <2> QED
    BY <1>1, <1>2, <1>5, <2>1, TracesGoto DEF Stages
<1> QED
  BY <1>6, <1>7

(* The stacks hand a parent on together with its trace.                    *)
LEMMA StackTraces ==
  ASSUME NEW h \in Hooks, StateType, Resolved, TracesAgree, Push(h) \/ Pop(h) \/ SendPoint(h)
  PROVE  TracesAgree'
<1>1. UNCHANGED <<active, roots, ev>> /\ hook[h] \in HookType /\ ev[h] \in Event
  BY DEF Push, Pop, SendPoint, disk, StateType
<1>2. /\ TurnTracks(active')
      /\ \A g \in Gens : Tracks(roots'[g], g)
      /\ \A k \in StackNames \X Gens : \A e \in Elems(stacks[k]) : EntryTracks(e)
      /\ \A x \in spans : EntryTracks(x)
      /\ LocalTracks(ev[h], hook[h])
      /\ \A k \in StackNames \X Gens : stacks[k] \in Seq(Entry)
      /\ stacks \in [StackNames \X Gens -> Seq(Entry)]
  BY <1>1 DEF TracesAgree, StateType
<1>3. CASE Push(h)
  <2> DEFINE e == [by |-> h, turn |-> ParentOf(h), trace |-> TraceOf(h)]
  <2>1. EntryTracks(e)
    BY ParentTracks DEF EntryTracks
  <2>2. e \in Entry
    BY <1>1 DEF Entry, ParentOf, TraceOf, HookType, Turn, Event
  <2>3. stacks' = [stacks EXCEPT ![StackOf(h)] = Append(@, e)]
    BY <1>3 DEF Push
  <2> HIDE DEF e
  <2>4. \A k \in StackNames \X Gens : Elems(stacks'[k]) \subseteq Elems(stacks[k]) \cup {e}
    <3>1. ASSUME NEW k \in StackNames \X Gens
          PROVE  Elems(Append(stacks[k], e)) = Elems(stacks[k]) \cup {e}
      <4>1. stacks[k] \in Seq(Entry)
        BY <1>2
      <4> HIDE DEF Elems
      <4> QED
        BY <2>2, <4>1, ElemsAppend
    <3>2. \A k \in StackNames \X Gens : stacks'[k] \in {stacks[k], Append(stacks[k], e)}
      BY <1>2, <2>3
    <3> QED
      BY <3>1, <3>2
  <2>5. Goto(h, "done") /\ UNCHANGED spans
    BY <1>3 DEF Push, history
  <2> QED
    BY <1>1, <1>2, <2>1, <2>4, <2>5, TracesGoto DEF Stages
<1>4. CASE Pop(h)
  <2> DEFINE k == StackOf(h)
             q == stacks[k]
             t == <<q[Len(q)]>> \o hook[h].taken
             l == [hook[h] EXCEPT !.taken = t]
             s == IF ev[h].kind = "after" THEN "send" ELSE "pop"
  <2>1. UNCHANGED spans
    BY <1>4 DEF Pop, history
  <2>2. CASE q = <<>>
    <3>1. PICK n \in {"send", "llm", "stop"} : Goto(h, n) /\ UNCHANGED stacks
      BY <1>4, <2>2 DEF Pop, Standalone
    <3> QED
      BY <1>1, <1>2, <2>1, <3>1, TracesGoto DEF Stages
  <2>3. CASE q # <<>>
    <3>1. /\ k \in StackNames \X Gens /\ q \in Seq(Entry)
          /\ Len(q) \in 1 .. Len(q) /\ q[Len(q)] \in Entry /\ t \in Seq(Entry)
      BY <1>4, <2>3, PopEntry
    <3>2. stacks' = [stacks EXCEPT ![k] = SubSeq(q, 1, Len(q) - 1)] /\ Continue(h, s, l)
      BY <1>4, <2>3 DEF Pop
    <3>3. Elems(SubSeq(q, 1, Len(q) - 1)) \subseteq Elems(q)
      <4>1. Len(q) - 1 \in 0 .. Len(q)
        BY <3>1, LenProperties
      <4> QED
        BY <3>1, <4>1, ElemsPrefix
    <3>4. \A j \in StackNames \X Gens : Elems(stacks'[j]) \subseteq Elems(stacks[j])
      BY <1>2, <3>1, <3>2, <3>3
    <3>5. EntryTracks(q[Len(q)])
      <4>1. q[Len(q)] \in Elems(q)
        BY <3>1, LenProperties DEF Elems
      <4> QED
        BY <1>2, <3>1, <4>1
    <3>6. Elems(t) = {q[Len(q)]} \cup Elems(hook[h].taken)
      BY <1>1, <3>1, ElemsFirst DEF HookType
    <3>7. \A x \in Elems(t) : EntryTracks(x)
      BY <1>2, <3>5, <3>6 DEF LocalTracks
    <3> HIDE DEF t
    <3>8. l \in HookType /\ l.seen = hook[h].seen /\ l.mine = hook[h].mine
          /\ l.parent = hook[h].parent /\ l.taken = t
      BY <1>1, <3>1 DEF HookType
    <3>9. s \in Stages \ {"new"}
      BY DEF Stages
    <3>10. \A j \in StackNames \X Gens : \A e \in Elems(stacks'[j]) : EntryTracks(e)
      BY <1>2, <3>4
    <3> HIDE DEF l, s
    <3> QED
      BY <1>1, <1>2, <2>1, <3>2, <3>7, <3>8, <3>9, <3>10, TracesStep DEF LocalTracks
  <2> QED
    BY <2>2, <2>3
<1>5. CASE SendPoint(h)
  <2>1. PICK s \in {"done", "saveRoot"} : Goto(h, s) /\ UNCHANGED stacks
    BY <1>5 DEF SendPoint, disk
  <2>2. \A x \in spans' : EntryTracks(x)
    <3>1. PICK n, f, d :
            spans' = spans \cup {[name |-> n, by |-> h, turn |-> ParentOf(h), trace |-> TraceOf(h),
                                  from |-> f, ends |-> d]}
      BY <1>5 DEF SendPoint, Sent
    <3>2. \A x \in spans' \ spans : EntryTracks(x)
      BY <3>1, ParentTracks DEF EntryTracks
    <3> QED
      BY <1>2, <3>1, <3>2
  <2> QED
    BY <1>1, <1>2, <2>1, <2>2, TracesGoto DEF Stages
<1> QED
  BY <1>3, <1>4, <1>5

(* What a hook sends for the turn t, or for an entry, has that one's trace. *)
LEMMA SentTracks ==
  ASSUME TracesAgree, NEW h \in Hooks, NEW n, NEW t, NEW g, NEW f, NEW d,
         Sent(h, n, t, g, f, d), Tracks(t, g)
  PROVE  \A x \in spans' : EntryTracks(x)
BY DEF TracesAgree, Sent, EntryTracks

(* The steps of a stop.                                                    *)
LEMMA StopTraces ==
  ASSUME NEW h \in Hooks, StateType, Resolved, TracesAgree,
         Claim(h) \/ ClearIfMatches(h) \/ SendRoot(h) \/ SendLlm(h) \/ SendStop(h)
  PROVE  TracesAgree'
<1>1. UNCHANGED <<roots, stacks, ev>> /\ hook[h] \in HookType
  BY DEF Claim, ClearIfMatches, SendRoot, SendLlm, SendStop, disk, StateType
<1>2. /\ TurnTracks(active) /\ TurnTracks(NoTurn)
      /\ \A g \in Gens : Tracks(roots'[g], g)
      /\ \A k \in StackNames \X Gens : \A e \in Elems(stacks'[k]) : EntryTracks(e)
      /\ \A x \in spans : EntryTracks(x)
      /\ LocalTracks(ev[h], hook[h])
  BY <1>1 DEF TracesAgree, TurnTracks
<1>3. CASE Claim(h)
  <2>1. PICK s \in {"done", AfterClaim(ev[h], hook[h].seen)} : Goto(h, s)
    BY <1>3 DEF Claim
  <2>2. s \in Stages \ {"new"}
    BY <2>1, StagesType DEF Stages
  <2>3. UNCHANGED <<active, spans>>
    BY <1>3 DEF Claim, history
  <2> QED
    BY <1>1, <1>2, <2>1, <2>2, <2>3, TracesGoto
<1>4. CASE ClearIfMatches(h)
  <2> DEFINE l == [hook[h] EXCEPT !.mine = active]
  <2>1. /\ UNCHANGED spans
        /\ (active' = NoTurn /\ Continue(h, "root", l)) \/ (UNCHANGED active /\ Goto(h, "done"))
    BY <1>4 DEF ClearIfMatches, history
  <2>2. l \in HookType /\ l.seen = hook[h].seen /\ l.mine = active /\ l.parent = hook[h].parent
        /\ l.taken = hook[h].taken
    BY <1>1 DEF HookType, StateType
  <2>3. {"root", "done"} \subseteq Stages \ {"new"}
    BY DEF Stages
  <2> HIDE DEF l
  <2>4. CASE active' = NoTurn /\ Continue(h, "root", l)
    BY <1>1, <1>2, <2>1, <2>2, <2>3, <2>4, TracesStep DEF LocalTracks
  <2> QED
    BY <1>1, <1>2, <2>1, <2>3, <2>4, TracesGoto
<1>5. CASE SendRoot(h) \/ SendLlm(h) \/ SendStop(h)
  <2>1. PICK s \in {"llm", "stop", "clean"} : Goto(h, s) /\ UNCHANGED active
    BY <1>5 DEF SendRoot, SendLlm, SendStop, disk
  <2>2. hook[h].mine # NoTurn => Tracks(hook[h].mine.root, hook[h].mine.gen)
    BY <1>2 DEF LocalTracks, TurnTracks
  <2>3. \A x \in spans' : EntryTracks(x)
    <3>1. CASE SendRoot(h)
      BY <2>2, <3>1, SentTracks DEF SendRoot, Resolved, Knows
    <3>2. CASE SendLlm(h)
      <4>1. CASE hook[h].mine # NoTurn
        BY <2>2, <3>2, <4>1, SentTracks DEF SendLlm
      <4>2. CASE hook[h].mine = NoTurn /\ hook[h].taken # <<>>
        <5>1. hook[h].taken \in Seq(Entry)
          BY <1>1 DEF HookType
        <5>2. 1 \in DOMAIN hook[h].taken
          BY <4>2, <5>1
        <5>3. Tracks(hook[h].taken[1].turn, hook[h].taken[1].trace)
          BY <1>2, <5>2 DEF LocalTracks, EntryTracks, Elems
        <5> QED
          BY <3>2, <4>2, <5>3, SentTracks DEF SendLlm
      <4>3. CASE hook[h].mine = NoTurn /\ hook[h].taken = <<>>
        BY <3>2, <4>3, ParentTracks, SentTracks DEF SendLlm
      <4> QED
        BY <4>1, <4>2, <4>3
    <3>3. CASE SendStop(h)
      BY <2>2, <3>3, ParentTracks, SentTracks DEF SendStop
    <3> QED
      BY <1>5, <3>1, <3>2, <3>3
  <2> QED
    BY <1>1, <1>2, <2>1, <2>3, TracesGoto DEF Stages
<1> QED
  BY <1>3, <1>4, <1>5

(* The steps of a prompt, of a session end, and of every closing.          *)
LEMMA ClosingTraces ==
  ASSUME NEW h \in Hooks, StateType, Resolved, TracesAgree,
         \/ Flush(h) \/ MarkClosed(h) \/ CleanUp(h) \/ ResetNogen(h)
         \/ SaveRoot(h) \/ SaveTurn(h) \/ EndSession(h) \/ RemoveActive(h)
  PROVE  TracesAgree'
<1>1. UNCHANGED ev /\ hook[h] \in HookType /\ hook[h].at # "new"
  BY DEF Flush, MarkClosed, CleanUp, ResetNogen, SaveRoot, SaveTurn, EndSession, RemoveActive,
         StateType
<1>2. /\ TurnTracks(active) /\ TurnTracks(NoTurn) /\ TurnTracks(NewTurn(h))
      /\ \A g \in Gens : Tracks(roots[g], g)
      /\ \A k \in StackNames \X Gens : \A e \in Elems(stacks[k]) : EntryTracks(e)
      /\ \A x \in spans : EntryTracks(x)
      /\ LocalTracks(ev[h], hook[h])
      /\ \A g : Tracks(NoHook, g)
      /\ Tracks(h, ev[h].gen)
  BY <1>1 DEF TracesAgree, TurnTracks, NewTurn, Tracks
<1>3. AfterFlush(ev[h]) \in {"end", "reset", "saveRoot"} /\ AfterMark(h) \in {"root", "done"}
  BY DEF AfterFlush, AfterMark
<1>4. TurnTracks(active')
  BY <1>2 DEF Flush, MarkClosed, CleanUp, ResetNogen, SaveRoot, SaveTurn, EndSession,
              RemoveActive, disk
<1>5. \A g \in Gens : Tracks(roots'[g], g)
  <2>1. CASE CleanUp(h)
    BY <1>2, <2>1 DEF CleanUp
  <2>2. CASE SaveRoot(h)
    BY <1>2, <2>2 DEF SaveRoot, StateType
  <2>3. CASE ~CleanUp(h) /\ ~SaveRoot(h)
    BY <1>2, <2>3 DEF Flush, MarkClosed, ResetNogen, SaveTurn, EndSession, RemoveActive, disk
  <2> QED
    BY <2>1, <2>2, <2>3
<1>6. \A k \in StackNames \X Gens : \A e \in Elems(stacks'[k]) : EntryTracks(e)
  <2>1. CASE CleanUp(h)
    <3>1. DOMAIN stacks = StackNames \X Gens
      BY DEF StateType
    <3>2. \A k \in StackNames \X Gens : stacks'[k] \in {<<>>, stacks[k]}
      BY <2>1, <3>1 DEF CleanUp
    <3>3. Elems(<<>>) = {}
      BY DEF Elems
    <3> QED
      BY <1>2, <3>2, <3>3
  <2>2. CASE ~CleanUp(h)
    BY <1>2, <2>2 DEF Flush, MarkClosed, ResetNogen, SaveRoot, SaveTurn, EndSession, RemoveActive,
                      disk
  <2> QED
    BY <2>1, <2>2
<1>7. \A x \in spans' : EntryTracks(x)
  <2>1. CASE EndSession(h)
    BY <1>2, <2>1, SentTracks DEF EndSession
  <2>2. CASE ~EndSession(h)
    BY <1>2, <2>2 DEF Flush, MarkClosed, CleanUp, ResetNogen, SaveRoot, SaveTurn, RemoveActive,
                      history
  <2> QED
    BY <2>1, <2>2
<1>8. CASE \E s \in {"mark", "end", "reset", "saveRoot"}, t \in {NoTurn, active} :
             Continue(h, s, [hook[h] EXCEPT !.mine = t])
  <2>1. PICK s \in {"mark", "end", "reset", "saveRoot"}, t \in {NoTurn, active} :
          Continue(h, s, [hook[h] EXCEPT !.mine = t])
    BY <1>8
  <2> DEFINE l == [hook[h] EXCEPT !.mine = t]
  <2>2. l \in HookType /\ l.seen = hook[h].seen /\ l.mine = t /\ l.parent = hook[h].parent
        /\ l.taken = hook[h].taken /\ Continue(h, s, l)
    BY <1>1, <2>1 DEF HookType, StateType
  <2>3. s \in Stages \ {"new"} /\ TurnTracks(t)
    BY <1>2 DEF Stages
  <2> HIDE DEF l
  <2> QED
    BY <1>1, <1>2, <1>4, <1>5, <1>6, <1>7, <2>2, <2>3, TracesStep DEF LocalTracks
<1>9. CASE \E s \in {"root", "done", "mark", "wipe", "clean", "save"} : Goto(h, s)
  BY <1>1, <1>4, <1>5, <1>6, <1>7, <1>9, TracesGoto DEF Stages
<1>10. \/ \E s \in {"mark", "end", "reset", "saveRoot"}, t \in {NoTurn, active} :
             Continue(h, s, [hook[h] EXCEPT !.mine = t])
       \/ \E s \in {"root", "done", "mark", "wipe", "clean", "save"} : Goto(h, s)
  <2>1. CASE Flush(h)
    BY <1>3, <2>1 DEF Flush
  <2>2. CASE CleanUp(h)
    BY <1>3, <2>2 DEF CleanUp
  <2>3. CASE ~Flush(h) /\ ~CleanUp(h)
    BY <1>3, <2>3 DEF MarkClosed, ResetNogen, SaveRoot, SaveTurn, EndSession, RemoveActive
  <2> QED
    BY <2>1, <2>2, <2>3
<1> QED
  BY <1>8, <1>9, <1>10

(* Starts and failures.                                                    *)
LEMMA OtherTraces ==
  ASSUME NEW h \in Hooks, StateType, Resolved, TracesAgree,
         \/ \E k \in Kinds, g \in AnyGen, x \in Texts \cup {NoText} : Start(h, k, g, x)
         \/ FailOperation(h) \/ Crash(h)
  PROVE  TracesAgree'
<1>1. UNCHANGED <<active, roots, stacks, spans>> /\ hook[h] \in HookType
  BY DEF Start, FailOperation, Crash, disk, history, StateType
<1>2. /\ TurnTracks(active')
      /\ \A g \in Gens : Tracks(roots'[g], g)
      /\ \A k \in StackNames \X Gens : \A e \in Elems(stacks'[k]) : EntryTracks(e)
      /\ \A x \in spans' : EntryTracks(x)
      /\ LocalTracks(ev[h], hook[h])
  BY <1>1 DEF TracesAgree
<1>3. CASE \E k \in Kinds, g \in AnyGen, x \in Texts \cup {NoText} : Start(h, k, g, x)
  <2>1. PICK s \in {"flush", "send", "get"} : Goto(h, s) /\ hook[h].at = "new"
    BY <1>3, StagesType DEF Start
  <2>2. \A o \in Hooks : o # h \/ hook[h].at # "new" => ev'[o] = ev[o]
    BY <1>3, <2>1 DEF Start, StateType
  <2>3. Tracks(hook[h].parent, ev'[h].gen)
    BY <1>2, <2>1 DEF LocalTracks, Tracks
  <2>4. Continue(h, s, hook[h]) /\ s \in Stages \ {"new"}
    BY <2>1 DEF Goto, Stages
  <2> QED
    BY <1>1, <1>2, <2>2, <2>3, <2>4, TracesStep DEF LocalTracks
<1>4. CASE Crash(h)
  BY <1>1, <1>2, <1>4, TracesGoto DEF Crash, Stages
<1>5. CASE FailOperation(h)
  <2>1. UNCHANGED ev
    BY <1>5 DEF FailOperation
  <2>2. CASE hook[h].at = "save"
    <3> DEFINE l == [hook[h] EXCEPT !.mine = NewTurn(h)]
    <3>1. NewTurn(h) \in Turn /\ TurnTracks(NewTurn(h))
      <4>1. ev[h].gen \in AnyGen
        BY DEF StateType, Event
      <4> QED
        BY <2>2, <4>1, EmptySeq DEF NewTurn, Turn, TurnTracks, Tracks
    <3>2. l \in HookType /\ l.seen = hook[h].seen /\ l.mine = NewTurn(h)
          /\ l.parent = hook[h].parent /\ l.taken = hook[h].taken
      BY <1>1, <3>1 DEF HookType
    <3>3. Continue(h, "root", l) /\ "root" \in Stages \ {"new"}
      BY <1>5, <2>2 DEF FailOperation, Stages
    <3> HIDE DEF l
    <3> QED
      BY <1>2, <2>1, <2>2, <3>1, <3>2, <3>3, TracesStep DEF LocalTracks
  <2>3. CASE hook[h].at # "save"
    <3>1. PICK s : s \in Stages \ {"new"} /\ Goto(h, s)
      <4>1. {Handle(ev[h], hook[h].seen), NotAppended(ev[h]), AfterClaim(ev[h], hook[h].seen),
             AfterFlush(ev[h])} \subseteq Stages \ {"new"}
        BY StagesType
      <4>2. AfterMark(h) \in {"root", "done"}
        BY StagesType
      <4>3. {"readRoot", "done", "alias", "push", "send", "save", "root"} \subseteq Stages \ {"new"}
        BY DEF Stages
      <4> QED
        BY <1>5, <2>3, <4>1, <4>2, <4>3 DEF FailOperation
    <3> QED
      BY <1>2, <2>1, <3>1, TracesGoto
  <2> QED
    BY <2>2, <2>3
<1> QED
  BY <1>3, <1>4, <1>5

LEMMA InitTraces ==
  ASSUME Init
  PROVE  TracesAgree
<1>1. \A h \in Hooks : LocalTracks(ev[h], hook[h])
  <2>1. Elems(<<>>) = {}
    BY DEF Elems
  <2>2. \A h \in Hooks : hook[h] = Idle("new")
    BY DEF Init
  <2>3. \A h \in Hooks : /\ hook[h].seen = NoTurn /\ hook[h].mine = NoTurn
                         /\ hook[h].parent = NoHook /\ hook[h].taken = <<>>
    <3>1. /\ Idle("new").seen = NoTurn /\ Idle("new").mine = NoTurn
          /\ Idle("new").parent = NoHook /\ Idle("new").taken = <<>>
      BY DEF Idle
    <3> QED
      BY <2>2, <3>1, Zenon
  <2>4. \A h \in Hooks : \A x \in Elems(hook[h].taken) : EntryTracks(x)
    BY <2>1, <2>3, Zenon
  <2> QED
    BY <2>3, <2>4 DEF LocalTracks, TurnTracks, Tracks
<1>2. \A k \in StackNames \X Gens : Elems(stacks[k]) = {}
  BY DEF Init, Elems
<1> QED
  BY <1>1, <1>2 DEF Init, TracesAgree, TurnTracks, Tracks

LEMMA NextTraces ==
  ASSUME StateType, Resolved, TracesAgree, [Next]_vars
  PROVE  TracesAgree'
<1>1. CASE UNCHANGED vars
  <2>1. UNCHANGED <<active, roots, stacks, ev, hook, spans>>
    BY <1>1 DEF vars, disk, history
  <2> QED
    BY <2>1 DEF TracesAgree, TurnTracks, LocalTracks, EntryTracks, Tracks, Elems
<1>2. CASE Next
  BY <1>2, ReadingTraces, WritingTraces, StackTraces, StopTraces, ClosingTraces, OtherTraces
     DEF Next, Step
<1> QED
  BY <1>1, <1>2

(* A span under a root is in the trace of that root: whatever file, stack  *)
(* or turn a hook takes a parent from, it takes the trace of the same turn *)
(* or event, at any number of hooks that die, fail or overlap.             *)
THEOREM ParentAndTrace == Spec => []ParentsShareTrace
<1>1. Init => StateType /\ Resolved /\ TracesAgree
  BY InitType, InitTraces
<1>2. StateType /\ Resolved /\ TracesAgree /\ [Next]_vars => (StateType /\ Resolved /\ TracesAgree)'
  BY NextType, NextTraces
<1>3. TracesAgree => ParentsShareTrace
  BY DEF TracesAgree, EntryTracks, Tracks, ParentsShareTrace
<1> QED
  BY <1>1, <1>2, <1>3, PTL DEF Spec

-----------------------------------------------------------------------------
(* Every response and every command is in one place *)

(* The hook h of the event e, at the stage at and with the local variables *)
(* l, has the data of hook o and is still going to send it.                *)
Carries(h, e, at, l, o) ==
  \/ /\ l.mine # NoTurn /\ o \in Elems(l.mine.responses)
     /\ at \in {"root", "llm"} \/ (at = "mark" /\ e.kind # "stop" /\ l.mine.root # h)
  \/ at \in {"pop", "send", "llm"} /\ \E x \in Elems(l.taken) : x.by = o

InHand(h, o) == Carries(h, ev[h], hook[h].at, hook[h], o)
InStack(k, n, o) == n \in DOMAIN stacks[k] /\ stacks[k][n].by = o

InActive(o) == active # NoTurn /\ o \in Elems(active.responses)
Held(o) == \E h \in Hooks : InHand(h, o)
Stacked(o) == \E k \in StackNames \X Gens, n \in Nat : InStack(k, n, o)
Reported(o) == \E s \in spans : o \in s.from

(* The data of hook o is in its own hands, in the active turn, with a hook *)
(* that will send it, in one entry of one stack or in one span.            *)
OneHome(o) ==
  /\ \A h, p \in Hooks : InHand(h, o) /\ InHand(p, o) => h = p
  /\ \A j, k \in StackNames \X Gens : \A m, n \in Nat :
       InStack(j, m, o) /\ InStack(k, n, o) => j = k /\ m = n
  /\ \A s, t \in spans : o \in s.from /\ o \in t.from => s = t
  /\ InActive(o) => ~Held(o) /\ ~Stacked(o) /\ ~Reported(o)
  /\ Held(o) => ~Stacked(o) /\ ~Reported(o)
  /\ Stacked(o) => ~Reported(o)
  /\ InActive(o) \/ Held(o) \/ Stacked(o) \/ Reported(o) => hook[o].at = "done"

(* Only the handlers that pop have entries, until they are done with them. *)
TakenAt(e, at, taken) ==
  taken # <<>> => \/ e.kind = "after" /\ at \in {"pop", "send", "done"}
                  \/ e.kind = "stop" /\ at \in {"pop", "llm", "stop", "clean", "mark", "done"}

SourcesApart ==
  /\ \A o \in Hooks : OneHome(o)
  /\ \A h \in Hooks : TakenAt(ev[h], hook[h].at, hook[h].taken)

(* Data that no step moves stays in one place, or is dropped.              *)
LEMMA KeptHome ==
  ASSUME NEW o \in Hooks, OneHome(o),
         hook[o].at = "done" => hook'[o].at = "done",
         InActive(o)' => InActive(o),
         \A h \in Hooks : InHand(h, o)' => InHand(h, o),
         \A k \in StackNames \X Gens, n \in Nat : InStack(k, n, o)' => InStack(k, n, o),
         \A s \in spans' : o \in s.from => s \in spans
  PROVE  OneHome(o)'
<1>1. /\ Held(o)' => Held(o)
      /\ Stacked(o)' => Stacked(o)
      /\ Reported(o)' => Reported(o)
  BY DEF Held, Stacked, Reported
<1> QED
  BY <1>1 DEF OneHome

(* Data that a step moves has left the place it was in.                    *)
LEMMA NewHome ==
  ASSUME NEW o \in Hooks, hook'[o].at = "done",
         \/ ~Held(o)' /\ ~Stacked(o)' /\ ~Reported(o)'
         \/ /\ ~InActive(o)' /\ ~Stacked(o)' /\ ~Reported(o)'
            /\ \A h, p \in Hooks : InHand(h, o)' /\ InHand(p, o)' => h = p
         \/ /\ ~InActive(o)' /\ ~Held(o)' /\ ~Reported(o)'
            /\ \A j, k \in StackNames \X Gens : \A m, n \in Nat :
                 InStack(j, m, o)' /\ InStack(k, n, o)' => j = k /\ m = n
         \/ /\ ~InActive(o)' /\ ~Held(o)' /\ ~Stacked(o)'
            /\ \A s, t \in spans' : o \in s.from /\ o \in t.from => s = t
  PROVE  OneHome(o)'
<1>1. \A s, t \in spans' : o \in s.from /\ o \in t.from => s = t \/ Reported(o)'
  BY DEF Reported
<1>2. \A h \in Hooks : InHand(h, o)' => Held(o)'
  BY DEF Held
<1>3. \A k \in StackNames \X Gens, n \in Nat : InStack(k, n, o)' => Stacked(o)'
  BY DEF Stacked
<1> QED
  BY <1>1, <1>2, <1>3 DEF OneHome

(* What a hook has in hand after it goes on at s with l.                   *)
LEMMA HandStep ==
  ASSUME StateType, NEW h \in Hooks, NEW s \in Stages, NEW l \in HookType, Continue(h, s, l),
         \A o \in Hooks : o # h => ev'[o] = ev[o],
         \A o \in Hooks : TakenAt(ev[o], hook[o].at, hook[o].taken),
         TakenAt(ev'[h], s, l.taken),
         hook[h].at # "done"
  PROVE  /\ \A o \in Hooks : InHand(h, o)' => Carries(h, ev'[h], s, l, o)
         /\ \A p, o \in Hooks : p # h => (InHand(p, o)' <=> InHand(p, o))
         /\ \A o \in Hooks : hook[o].at = "done" => hook'[o].at = "done"
         /\ hook'[h].at = s
         /\ \A o \in Hooks : TakenAt(ev'[o], hook'[o].at, hook'[o].taken)
<1>1. /\ hook' \in [Hooks -> HookType]
      /\ \A o \in Hooks : o # h => hook'[o] = hook[o]
      /\ s = "done" => hook'[h] = Idle("done")
      /\ s # "done" => hook'[h] = [l EXCEPT !.at = s]
      /\ hook'[h].at = s
  BY ContinueType DEF StateType
<1>2. s # "done" => hook'[h].mine = l.mine /\ hook'[h].taken = l.taken
  BY <1>1 DEF HookType
<1>3. s = "done" => hook'[h].taken = <<>>
  BY <1>1 DEF Idle
<1>4. \A o \in Hooks : InHand(h, o)' => Carries(h, ev'[h], s, l, o)
  <2>1. CASE s = "done"
    BY <1>1, <2>1 DEF InHand, Carries
  <2>2. CASE s # "done"
    BY <1>1, <1>2, <2>2 DEF InHand, Carries
  <2> QED
    BY <2>1, <2>2
<1>5. \A p, o \in Hooks : p # h => (InHand(p, o)' <=> InHand(p, o))
  BY <1>1 DEF InHand, Carries
<1>6. \A o \in Hooks : TakenAt(ev'[o], hook'[o].at, hook'[o].taken)
  <2>1. TakenAt(ev'[h], hook'[h].at, hook'[h].taken)
    BY <1>1, <1>2, <1>3 DEF TakenAt
  <2> QED
    BY <1>1, <2>1
<1> QED
  BY <1>1, <1>4, <1>5, <1>6

(* A step that moves no data.                                              *)
LEMMA SourcesStep ==
  ASSUME StateType, SourcesApart,
         NEW h \in Hooks, NEW s \in Stages, NEW l \in HookType, Continue(h, s, l),
         \A o \in Hooks : o # h => ev'[o] = ev[o],
         TakenAt(ev'[h], s, l.taken),
         hook[h].at # "done",
         \A o \in Hooks : Carries(h, ev'[h], s, l, o) => InHand(h, o),
         \A o \in Hooks : InActive(o)' => InActive(o),
         \A o \in Hooks, k \in StackNames \X Gens, n \in Nat : InStack(k, n, o)' => InStack(k, n, o),
         \A o \in Hooks : \A x \in spans' : o \in x.from => x \in spans
  PROVE  SourcesApart'
<1>1. /\ \A o \in Hooks : InHand(h, o)' => InHand(h, o)
      /\ \A p, o \in Hooks : p # h => (InHand(p, o)' <=> InHand(p, o))
      /\ \A o \in Hooks : hook[o].at = "done" => hook'[o].at = "done"
      /\ \A o \in Hooks : TakenAt(ev'[o], hook'[o].at, hook'[o].taken)
  BY HandStep DEF SourcesApart
<1>2. ASSUME NEW o \in Hooks PROVE OneHome(o)'
  <2>1. OneHome(o) /\ \A p \in Hooks : InHand(p, o)' => InHand(p, o)
    BY <1>1 DEF SourcesApart
  <2> QED
    BY <1>1, <2>1, KeptHome
<1> QED
  BY <1>1, <1>2 DEF SourcesApart

(* A handler that has neither popped nor taken a turn over has nothing.    *)
LEMMA EarlyHand ==
  ASSUME OneOwner, SourcesApart, NEW h \in Hooks,
         hook[h].at \notin Closing \cup {"pop", "send", "done"},
         NEW e, NEW s, NEW l, l.mine = hook[h].mine, l.taken = hook[h].taken
  PROVE  TakenAt(e, s, l.taken) /\ \A o \in Hooks : ~Carries(h, e, s, l, o)
<1>1. hook[h].mine = NoTurn
  BY DEF OneOwner, OwnsWhileClosing
<1>2. hook[h].taken = <<>>
  <2>1. TakenAt(ev[h], hook[h].at, hook[h].taken)
    BY DEF SourcesApart
  <2> QED
    BY <2>1 DEF TakenAt, Closing
<1>3. Elems(<<>>) = {}
  BY DEF Elems
<1>4. Elems(l.taken) = {}
  BY <1>2, <1>3, Zenon
<1> QED
  BY <1>1, <1>2, <1>4 DEF Carries, TakenAt

(* Its steps move no data but their own.                                   *)
LEMMA SourcesEarly ==
  ASSUME StateType, OneOwner, SourcesApart,
         NEW h \in Hooks, NEW s \in Stages, NEW l \in HookType, Continue(h, s, l),
         hook[h].at \notin Closing \cup {"pop", "send", "done"},
         l.mine = hook[h].mine, l.taken = hook[h].taken,
         \A o \in Hooks : o # h => ev'[o] = ev[o],
         UNCHANGED stacks,
         \A o \in Hooks : InActive(o)' => InActive(o),
         \A o \in Hooks : \A x \in spans' : o \in x.from => x \in spans
  PROVE  SourcesApart'
<1>1. TakenAt(ev'[h], s, l.taken) /\ \A o \in Hooks : ~Carries(h, ev'[h], s, l, o)
  BY EarlyHand
<1>2. \A o, k, n : InStack(k, n, o)' => InStack(k, n, o)
  BY DEF InStack
<1> QED
  BY <1>1, <1>2, SourcesStep

LEMMA SourcesEarlyGoto ==
  ASSUME StateType, OneOwner, SourcesApart,
         NEW h \in Hooks, NEW s \in Stages, Goto(h, s),
         hook[h].at \notin Closing \cup {"pop", "send", "done"},
         \A o \in Hooks : o # h => ev'[o] = ev[o],
         UNCHANGED stacks,
         \A o \in Hooks : InActive(o)' => InActive(o),
         \A o \in Hooks : \A x \in spans' : o \in x.from => x \in spans
  PROVE  SourcesApart'
<1>1. hook[h] \in HookType
  BY DEF StateType
<1> QED
  BY <1>1, SourcesEarly DEF Goto

(* A hook takes the active turn over, and the responses with it.           *)
LEMMA TakeSources ==
  ASSUME StateType, OneOwner, SourcesApart,
         NEW h \in Hooks, NEW s \in Stages, Continue(h, s, [hook[h] EXCEPT !.mine = active]),
         hook[h].at \notin Closing \cup {"pop", "send", "done"},
         active' = NoTurn, UNCHANGED <<stacks, ev, spans>>
  PROVE  SourcesApart'
<1> DEFINE l == [hook[h] EXCEPT !.mine = active]
<1>1. l \in HookType /\ l.mine = active /\ l.taken = hook[h].taken
  BY DEF StateType, HookType
<1>2. Continue(h, s, l)
  OBVIOUS
<1> HIDE DEF l
<1>3. hook[h].taken = <<>>
  BY DEF SourcesApart, TakenAt, Closing
<1>4. Elems(l.taken) = {}
  <2>1. Elems(<<>>) = {}
    BY DEF Elems
  <2> QED
    BY <1>1, <1>3, <2>1, Zenon
<1>5. TakenAt(ev'[h], s, l.taken) /\ \A o \in Hooks : Carries(h, ev'[h], s, l, o) => InActive(o)
  BY <1>1, <1>3, <1>4 DEF TakenAt, Carries, InActive
<1>6. \A o \in Hooks : ~InHand(h, o)
  BY EarlyHand DEF InHand
<1>7. /\ \A o \in Hooks : InHand(h, o)' => InActive(o)
      /\ \A p, o \in Hooks : p # h => (InHand(p, o)' <=> InHand(p, o))
      /\ \A o \in Hooks : hook[o].at = "done" => hook'[o].at = "done"
      /\ \A o \in Hooks : TakenAt(ev'[o], hook'[o].at, hook'[o].taken)
  BY <1>1, <1>2, <1>5, HandStep DEF SourcesApart
<1>8. \A o \in Hooks : ~InActive(o)'
  BY DEF InActive
<1>9. \A o, k, n : InStack(k, n, o)' <=> InStack(k, n, o)
  BY DEF InStack
<1>10. ASSUME NEW o \in Hooks PROVE OneHome(o)'
  <2>1. OneHome(o)
    BY DEF SourcesApart
  <2>2. CASE InActive(o)
    <3>1. ~Held(o) /\ ~Stacked(o) /\ ~Reported(o) /\ hook[o].at = "done"
      BY <2>1, <2>2 DEF OneHome
    <3>2. ~Stacked(o)' /\ ~Reported(o)'
      BY <1>9, <3>1 DEF Stacked, Reported
    <3>3. \A p \in Hooks : InHand(p, o)' => p = h
      BY <1>7, <3>1 DEF Held
    <3> QED
      BY <1>7, <1>8, <3>1, <3>2, <3>3, NewHome
  <2>3. CASE ~InActive(o)
    <3>1. \A p \in Hooks : InHand(p, o)' => InHand(p, o)
      BY <1>7, <2>3
    <3> QED
      BY <1>7, <1>8, <1>9, <2>1, <3>1, KeptHome
  <2> QED
    BY <2>2, <2>3
<1> QED
  BY <1>7, <1>10 DEF SourcesApart

(* Resolving an event.                                                     *)
LEMMA ReadingSources ==
  ASSUME NEW h \in Hooks, StateType, Resolved, OneOwner, SourcesApart,
         GetActive(h) \/ CheckMarked(h) \/ ReadRoot(h) \/ CheckLate(h)
  PROVE  SourcesApart'
<1>1. UNCHANGED <<active, stacks, ev, spans>> /\ hook[h] \in HookType
  BY DEF GetActive, CheckMarked, ReadRoot, CheckLate, disk, history, StateType
<1>2. /\ hook[h].at \notin Closing \cup {"pop", "send", "done"}
      /\ \A o : InActive(o)' => InActive(o)
  BY <1>1 DEF GetActive, CheckMarked, ReadRoot, CheckLate, Closing, InActive
<1>3. CASE GetActive(h)
  <2> DEFINE l == [hook[h] EXCEPT !.seen = active]
  <2>1. PICK s \in {"readRoot", "check", Handle(ev[h], active)} : Continue(h, s, l)
    BY <1>3 DEF GetActive
  <2>2. s \in Stages
    BY StagesType DEF Stages
  <2>3. l \in HookType /\ l.mine = hook[h].mine /\ l.taken = hook[h].taken
    BY <1>1 DEF HookType, StateType
  <2> HIDE DEF l
  <2> QED
    BY <1>1, <1>2, <2>1, <2>2, <2>3, SourcesEarly
<1>4. CASE CheckMarked(h)
  <2> DEFINE l == [hook[h] EXCEPT !.seen = NoTurn]
  <2>1. Continue(h, "readRoot", l) \/ \E s \in {"done", "alias"} : Goto(h, s)
    BY <1>4 DEF CheckMarked
  <2>2. l \in HookType /\ l.mine = hook[h].mine /\ l.taken = hook[h].taken
    BY <1>1 DEF HookType
  <2>3. {"readRoot", "done", "alias"} \subseteq Stages
    BY DEF Stages
  <2> HIDE DEF l
  <2> QED
    BY <1>1, <1>2, <2>1, <2>2, <2>3, SourcesEarly, SourcesEarlyGoto
<1>5. CASE ReadRoot(h)
  <2> DEFINE l == [hook[h] EXCEPT !.parent = IF ev[h].gen = NoGen THEN NoHook ELSE roots[ev[h].gen]]
             s == Handle(ev[h], NoTurn)
  <2>1. Continue(h, s, l) /\ s \in Stages
    BY <1>5, StagesType DEF ReadRoot
  <2>2. ev[h].gen \in AnyGen
    BY DEF StateType, Event
  <2>3. l \in HookType /\ l.mine = hook[h].mine /\ l.taken = hook[h].taken
    BY <1>1, <2>2 DEF HookType, AnyGen, StateType
  <2> HIDE DEF l, s
  <2> QED
    BY <1>1, <1>2, <2>1, <2>3, SourcesEarly
<1>6. CASE CheckLate(h)
  <2>1. PICK s \in {"done", "push"} : Goto(h, s)
    BY <1>6 DEF CheckLate
  <2> QED
    BY <1>1, <1>2, <2>1, SourcesEarlyGoto DEF Stages
<1> QED
  BY <1>3, <1>4, <1>5, <1>6

(* A capped list holds no more than the list.                              *)
LEMMA ElemsCapped ==
  ASSUME NEW S, NEW q \in Seq(S), NEW n \in Nat \ {0}
  PROVE  Elems(Capped(q, n)) \subseteq Elems(q)
<1> DEFINE m == IF Len(q) > n THEN Len(q) - n + 1 ELSE 1
<1>1. q \in Seq(S) /\ Len(q) \in Nat /\ DOMAIN q = 1 .. Len(q)
  BY LenProperties
<1>2. m \in 1 .. Len(q) + 1 /\ Capped(q, n) = SubSeq(q, m, Len(q))
  BY <1>1 DEF Capped
<1> HIDE DEF m
<1>3. /\ DOMAIN SubSeq(q, m, Len(q)) = 1 .. Len(q) - m + 1
      /\ \A i \in 1 .. Len(q) - m + 1 : SubSeq(q, m, Len(q))[i] = q[m + i - 1]
  BY <1>1, <1>2, SubSeqProperties
<1>4. \A i \in 1 .. Len(q) - m + 1 : m + i - 1 \in 1 .. Len(q)
  BY <1>1, <1>2
<1> QED
  BY <1>1, <1>2, <1>3, <1>4 DEF Elems

(* Writing to the turn the event was resolved to.                          *)
LEMMA WritingSources ==
  ASSUME NEW h \in Hooks, StateType, Resolved, OneOwner, SourcesApart,
         RecordAlias(h) \/ AddResponse(h) \/ AddThought(h)
  PROVE  SourcesApart'
<1>1. UNCHANGED <<stacks, ev, spans>> /\ hook[h] \in HookType
  BY DEF RecordAlias, AddResponse, AddThought, history, StateType
<1>2. hook[h].at \notin Closing \cup {"pop", "send", "done"}
  BY DEF RecordAlias, AddResponse, AddThought, Closing
<1>3. SeenIsActive(h) => active # NoTurn /\ active \in Turn
  BY DEF SeenIsActive, StateType
<1>4. CASE RecordAlias(h)
  <2> DEFINE turn == IF ev[h].gen \in Ids(active) THEN active
                     ELSE [active EXCEPT !.aliases = Capped(Append(@, ev[h].gen), Cap.aliases)]
             seen == IF SeenIsActive(h) THEN turn ELSE hook[h].seen
             l == [hook[h] EXCEPT !.seen = seen]
             s == Handle(ev[h], seen)
  <2>1. /\ Continue(h, s, l)
        /\ active' = IF SeenIsActive(h) THEN turn ELSE active
    BY <1>4 DEF RecordAlias
  <2>2. SeenIsActive(h) => turn.responses = active.responses
    BY <1>3 DEF Turn
  <2>3. \A o : InActive(o)' => InActive(o)
    BY <1>3, <2>1, <2>2 DEF InActive
  <2>4. StateType'
    BY <1>4, WritingType
  <2>5. seen \in Turn \cup {NoTurn}
    BY <1>1, <2>1, <2>4 DEF StateType, HookType
  <2> HIDE DEF seen
  <2>6. l \in HookType /\ l.mine = hook[h].mine /\ l.taken = hook[h].taken
    BY <1>1, <2>5 DEF HookType
  <2>7. s \in Stages
    BY StagesType
  <2> HIDE DEF l, s
  <2> QED
    BY <1>1, <1>2, <2>1, <2>3, <2>6, <2>7, SourcesEarly
<1>5. CASE AddThought(h)
  <2>1. PICK s \in {"done", "send"} : Goto(h, s)
    BY <1>5 DEF AddThought
  <2>2. \A o : InActive(o)' => InActive(o)
    BY <1>3, <1>5 DEF AddThought, InActive, Turn
  <2> QED
    BY <1>1, <1>2, <2>1, <2>2, SourcesEarlyGoto DEF Stages
<1>6. CASE AddResponse(h)
  <2>1. CASE ~SeenIsActive(h)
    <3>1. PICK s \in {"late", "send"} : Goto(h, s)
      BY <1>6, <2>1 DEF AddResponse, NotAppended
    <3>2. \A o : InActive(o)' => InActive(o)
      BY <1>6, <2>1 DEF AddResponse, InActive
    <3> QED
      BY <1>1, <1>2, <3>1, <3>2, SourcesEarlyGoto DEF Stages
  <2>2. CASE SeenIsActive(h)
    <3> DEFINE q == Capped(Append(active.responses, h), Cap.responses)
    <3>1. active' = [active EXCEPT !.responses = q] /\ Goto(h, "done")
      BY <1>6, <2>2 DEF AddResponse
    <3>2. Elems(q) \subseteq Elems(active.responses) \cup {h}
      <4>1. active.responses \in Seq(Hooks) /\ Cap.responses \in Nat \ {0}
        BY <1>3, <2>2, CursorAssumption DEF Turn
      <4>2. Elems(Append(active.responses, h)) = Elems(active.responses) \cup {h}
        BY <4>1, ElemsAppend
      <4>3. Append(active.responses, h) \in Seq(Hooks)
        BY <4>1, AppendProperties
      <4>4. Elems(q) \subseteq Elems(Append(active.responses, h))
        BY <4>1, <4>3, ElemsCapped
      <4> QED
        BY <4>2, <4>4
    <3>3. active'.responses = q
      BY <1>3, <2>2, <3>1 DEF Turn
    <3> HIDE DEF q
    <3>4. \A o \in Hooks : InActive(o)' => InActive(o) \/ o = h
      BY <1>3, <2>2, <3>2, <3>3 DEF InActive
    <3>5. "done" \in Stages /\ TakenAt(ev'[h], "done", hook[h].taken)
      BY <1>2, EarlyHand DEF Stages
    <3>6. /\ \A o \in Hooks : ~InHand(h, o)'
          /\ \A p, o \in Hooks : p # h => (InHand(p, o)' <=> InHand(p, o))
          /\ \A o \in Hooks : hook[o].at = "done" => hook'[o].at = "done"
          /\ hook'[h].at = "done"
          /\ \A o \in Hooks : TakenAt(ev'[o], hook'[o].at, hook'[o].taken)
      BY <1>1, <1>2, <3>1, <3>5, HandStep DEF SourcesApart, Goto, Carries
    <3>7. \A o, k, n : InStack(k, n, o)' <=> InStack(k, n, o)
      BY <1>1 DEF InStack
    <3>8. ASSUME NEW o \in Hooks PROVE OneHome(o)'
      <4>1. OneHome(o)
        BY DEF SourcesApart
      <4>2. CASE o = h
        <5>1. ~Held(o) /\ ~Stacked(o) /\ ~Reported(o)
          BY <1>2, <4>1, <4>2 DEF OneHome
        <5>2. ~Held(o)' /\ ~Stacked(o)' /\ ~Reported(o)'
          BY <1>1, <3>6, <3>7, <5>1 DEF Held, Stacked, Reported
        <5> QED
          BY <3>6, <4>2, <5>2, NewHome
      <4>3. CASE o # h
        <5>1. \A p \in Hooks : InHand(p, o)' => InHand(p, o)
          BY <3>6
        <5> QED
          BY <1>1, <3>4, <3>6, <3>7, <4>1, <4>3, <5>1, KeptHome
      <4> QED
        BY <4>2, <4>3
    <3> QED
      BY <3>6, <3>8 DEF SourcesApart
  <2> QED
    BY <2>1, <2>2
<1> QED
  BY <1>4, <1>5, <1>6

(* A response or a command goes to a stack.                                *)
LEMMA PushSources ==
  ASSUME NEW h \in Hooks, StateType, Resolved, OneOwner, SourcesApart, Push(h)
  PROVE  SourcesApart'
<1> DEFINE e == [by |-> h, turn |-> ParentOf(h), trace |-> TraceOf(h)]
<1>1. /\ UNCHANGED <<active, ev, spans>> /\ hook[h] \in HookType /\ ev[h] \in Event
      /\ hook[h].at = "push" /\ Goto(h, "done") /\ "done" \in Stages
      /\ stacks' = [stacks EXCEPT ![StackOf(h)] = Append(@, e)]
  BY DEF Push, history, StateType, Stages
<1>2. e \in Entry /\ e.by = h
  BY <1>1 DEF Entry, ParentOf, TraceOf, HookType, Turn, Event
<1> HIDE DEF e
<1>3. stacks \in [StackNames \X Gens -> Seq(Entry)]
  BY DEF StateType
<1>4. ASSUME NEW k \in StackNames \X Gens, NEW n \in Nat, NEW o \in Hooks, InStack(k, n, o)'
      PROVE  InStack(k, n, o) \/ (o = h /\ k = StackOf(h) /\ n = Len(stacks[k]) + 1)
  <2>1. CASE k = StackOf(h)
    <3>1. stacks'[k] = Append(stacks[k], e) /\ stacks[k] \in Seq(Entry)
      BY <1>1, <1>3, <2>1
    <3>2. /\ DOMAIN Append(stacks[k], e) = 1 .. Len(stacks[k]) + 1
          /\ DOMAIN stacks[k] = 1 .. Len(stacks[k]) /\ Len(stacks[k]) \in Nat
          /\ Append(stacks[k], e)[Len(stacks[k]) + 1] = e
          /\ \A i \in 1 .. Len(stacks[k]) : Append(stacks[k], e)[i] = stacks[k][i]
      BY <1>2, <3>1, AppendProperties, LenProperties
    <3>3. n = Len(stacks[k]) + 1 \/ n \in 1 .. Len(stacks[k])
      BY <1>4, <3>1, <3>2 DEF InStack
    <3> QED
      BY <1>2, <1>4, <2>1, <3>1, <3>2, <3>3 DEF InStack
  <2>2. CASE k # StackOf(h)
    BY <1>1, <1>3, <1>4, <2>2 DEF InStack
  <2> QED
    BY <2>1, <2>2
<1>5. \A s, l, x : l.mine = hook[h].mine /\ l.taken = hook[h].taken =>
        TakenAt(x, s, l.taken) /\ \A o \in Hooks : ~Carries(h, x, s, l, o)
  BY <1>1, EarlyHand DEF Closing
<1>6. /\ \A o \in Hooks : ~InHand(h, o)'
      /\ \A p, o \in Hooks : p # h => (InHand(p, o)' <=> InHand(p, o))
      /\ \A o \in Hooks : hook[o].at = "done" => hook'[o].at = "done"
      /\ hook'[h].at = "done"
      /\ \A o \in Hooks : TakenAt(ev'[o], hook'[o].at, hook'[o].taken)
  BY <1>1, <1>5, HandStep DEF SourcesApart, Goto
<1>7. ASSUME NEW o \in Hooks PROVE OneHome(o)'
  <2>1. OneHome(o)
    BY DEF SourcesApart
  <2>2. CASE o = h
    <3>1. ~InActive(o) /\ ~Held(o) /\ ~Stacked(o) /\ ~Reported(o)
      BY <1>1, <2>1, <2>2 DEF OneHome
    <3>2. ~InActive(o)' /\ ~Held(o)' /\ ~Reported(o)'
      BY <1>1, <1>6, <3>1 DEF InActive, Held, Reported
    <3>3. \A k \in StackNames \X Gens, n \in Nat :
            InStack(k, n, o)' => k = StackOf(h) /\ n = Len(stacks[k]) + 1
      BY <1>4, <3>1 DEF Stacked
    <3> QED
      BY <1>6, <2>2, <3>2, <3>3, NewHome
  <2>3. CASE o # h
    <3>1. \A p \in Hooks : InHand(p, o)' => InHand(p, o)
      BY <1>6
    <3>2. InActive(o)' => InActive(o)
      BY <1>1 DEF InActive
    <3> QED
      BY <1>1, <1>4, <1>6, <2>1, <2>3, <3>1, <3>2, KeptHome
  <2> QED
    BY <2>2, <2>3
<1> QED
  BY <1>6, <1>7 DEF SourcesApart

(* An entry goes from a stack to the hook that pops it.                    *)
LEMMA PopSources ==
  ASSUME NEW h \in Hooks, StateType, Resolved, OneOwner, SourcesApart, Pop(h)
  PROVE  SourcesApart'
<1> DEFINE k == StackOf(h)
           q == stacks[k]
           t == <<q[Len(q)]>> \o hook[h].taken
           l == [hook[h] EXCEPT !.taken = t]
           s == IF ev[h].kind = "after" THEN "send" ELSE "pop"
<1>1. /\ UNCHANGED <<active, ev, spans>> /\ hook[h] \in HookType /\ hook[h].at = "pop"
      /\ ev[h].kind \in {"after", "stop"}
  BY DEF Pop, history, StateType, Resolved, Knows
<1>2. hook[h].mine = NoTurn
  BY <1>1 DEF OneOwner, OwnsWhileClosing, Closing
<1>3. \A o : InActive(o)' <=> InActive(o)
  BY <1>1 DEF InActive
<1>4. TakenAt(ev[h], "pop", hook[h].taken)
  BY <1>1 DEF SourcesApart
<1>5. CASE q = <<>>
  <2>1. PICK n : /\ Goto(h, n) /\ UNCHANGED stacks
                 /\ n \in IF ev[h].kind = "after" THEN {"send"} ELSE {"llm", "stop"}
    BY <1>5 DEF Pop, Standalone
  <2>2. TakenAt(ev'[h], n, hook[h].taken) /\ n \in Stages
    BY <1>1, <2>1 DEF TakenAt, Stages
  <2>3. \A o \in Hooks : Carries(h, ev'[h], n, hook[h], o) => InHand(h, o)
    BY <1>1, <1>2, <2>1 DEF Carries, InHand
  <2>4. \A o, j, i : InStack(j, i, o)' => InStack(j, i, o)
    BY <2>1 DEF InStack
  <2> QED
    BY <1>1, <1>3, <2>1, <2>2, <2>3, <2>4, SourcesStep DEF Goto
<1>6. CASE q # <<>>
  <2>1. /\ k \in StackNames \X Gens /\ q \in Seq(Entry)
        /\ Len(q) \in 1 .. Len(q) /\ q[Len(q)] \in Entry /\ t \in Seq(Entry)
    BY <1>6, PopEntry
  <2>2. stacks' = [stacks EXCEPT ![k] = SubSeq(q, 1, Len(q) - 1)] /\ Continue(h, s, l)
    BY <1>6 DEF Pop
  <2>3. hook[h].taken \in Seq(Entry)
    BY <1>1 DEF HookType
  <2>4. Elems(t) = {q[Len(q)]} \cup Elems(hook[h].taken)
    BY <2>1, <2>3, ElemsFirst
  <2> DEFINE x == q[Len(q)].by
  <2>5. x \in Hooks /\ InStack(k, Len(q), x) /\ Len(q) \in Nat
    BY <2>1, LenProperties DEF InStack, Entry
  <2>6. ASSUME NEW j \in StackNames \X Gens, NEW n \in Nat, NEW o \in Hooks, InStack(j, n, o)'
        PROVE  InStack(j, n, o) /\ ~(j = k /\ n = Len(q))
    <3>1. CASE j = k
      <4>1. stacks'[j] = SubSeq(q, 1, Len(q) - 1)
        BY <2>1, <2>2, <3>1 DEF StateType
      <4>2. /\ DOMAIN SubSeq(q, 1, Len(q) - 1) = 1 .. Len(q) - 1
            /\ \A i \in 1 .. Len(q) - 1 : SubSeq(q, 1, Len(q) - 1)[i] = q[i]
            /\ DOMAIN q = 1 .. Len(q)
        BY <2>1, <2>5, LenProperties
      <4>3. n \in 1 .. Len(q) - 1
        BY <2>6, <4>1, <4>2 DEF InStack
      <4> QED
        BY <2>5, <2>6, <3>1, <4>1, <4>2, <4>3 DEF InStack
    <3>2. CASE j # k
      BY <2>2, <2>6, <3>2 DEF InStack, StateType
    <3> QED
      BY <3>1, <3>2
  <2>7. s \in Stages
    BY DEF Stages
  <2> HIDE DEF t
  <2>8. l \in HookType /\ l.mine = hook[h].mine /\ l.taken = t
    BY <1>1, <2>1 DEF HookType
  <2>9. TakenAt(ev'[h], s, l.taken)
    BY <1>1 DEF TakenAt
  <2>10. \A o \in Hooks : Carries(h, ev'[h], s, l, o) => InHand(h, o) \/ o = x
    BY <1>1, <1>2, <2>4, <2>8 DEF Carries, InHand
  <2> HIDE DEF l, s
  <2>11. /\ \A o \in Hooks : InHand(h, o)' => InHand(h, o) \/ o = x
         /\ \A p, o \in Hooks : p # h => (InHand(p, o)' <=> InHand(p, o))
         /\ \A o \in Hooks : hook[o].at = "done" => hook'[o].at = "done"
         /\ \A o \in Hooks : TakenAt(ev'[o], hook'[o].at, hook'[o].taken)
    BY <1>1, <2>2, <2>7, <2>8, <2>9, <2>10, HandStep DEF SourcesApart
  <2> HIDE DEF x, q, k
  <2>12. ASSUME NEW o \in Hooks PROVE OneHome(o)'
    <3>1. OneHome(o)
      BY DEF SourcesApart
    <3>2. CASE o = x
      <4>1. ~InActive(o) /\ ~Held(o) /\ ~Reported(o) /\ hook[o].at = "done"
        BY <2>1, <2>5, <3>1, <3>2 DEF OneHome, Stacked
      <4>2. ~InActive(o)' /\ ~Reported(o)'
        BY <1>1, <1>3, <4>1 DEF Reported
      <4>3. \A j \in StackNames \X Gens, n \in Nat : ~InStack(j, n, o)'
        BY <2>1, <2>5, <2>6, <3>1, <3>2 DEF OneHome
      <4>4. \A p \in Hooks : InHand(p, o)' => p = h
        BY <2>11, <4>1 DEF Held
      <4> QED
        BY <2>11, <4>1, <4>2, <4>3, <4>4, NewHome DEF Stacked
    <3>3. CASE o # x
      <4>1. \A p \in Hooks : InHand(p, o)' => InHand(p, o)
        BY <2>11, <3>3
      <4> QED
        BY <1>1, <1>3, <2>6, <2>11, <3>1, <4>1, KeptHome
    <3> QED
      BY <3>2, <3>3
  <2> QED
    BY <2>11, <2>12 DEF SourcesApart
<1> QED
  BY <1>5, <1>6

(* A span takes what its hook has in hand, or the event of the hook; the   *)
(* hook sends none of it again.                                            *)
LEMMA SendSources ==
  ASSUME NEW h \in Hooks, StateType, OneOwner, SourcesApart,
         NEW n, NEW t, NEW g, NEW f \in SUBSET Hooks, NEW d, Sent(h, n, t, g, f, d),
         NEW s \in Stages \ {"pop", "send", "llm", "root", "mark"}, Goto(h, s),
         hook[h].at # "done", UNCHANGED <<active, stacks, ev>>,
         TakenAt(ev[h], s, hook[h].taken),
         (f = {h} /\ s = "done") \/ \A o \in f : InHand(h, o)
  PROVE  SourcesApart'
<1> DEFINE x == [name |-> n, by |-> h, turn |-> t, trace |-> g, from |-> f, ends |-> d]
<1>1. spans' = spans \cup {x} /\ x.from = f
  BY DEF Sent
<1> HIDE DEF x
<1>2. hook[h] \in HookType /\ \A o \in Hooks : ~Carries(h, ev'[h], s, hook[h], o)
  BY DEF StateType, Carries
<1>3. /\ \A o \in Hooks : ~InHand(h, o)'
      /\ \A p, o \in Hooks : p # h => (InHand(p, o)' <=> InHand(p, o))
      /\ \A o \in Hooks : hook[o].at = "done" => hook'[o].at = "done"
      /\ hook'[h].at = s
      /\ \A o \in Hooks : TakenAt(ev'[o], hook'[o].at, hook'[o].taken)
  BY <1>2, HandStep DEF SourcesApart, Goto
<1>4. /\ \A o : InActive(o)' <=> InActive(o)
      /\ \A o, k, i : InStack(k, i, o)' <=> InStack(k, i, o)
  BY DEF InActive, InStack
<1>5. ASSUME NEW o \in Hooks PROVE OneHome(o)'
  <2>1. OneHome(o)
    BY DEF SourcesApart
  <2>2. CASE o \in f
    <3>1. /\ ~InActive(o) /\ ~Stacked(o) /\ ~Reported(o)
          /\ \A p \in Hooks : InHand(p, o) => p = h
      <4>1. CASE InHand(h, o)
        BY <2>1, <4>1 DEF OneHome, Held
      <4>2. CASE o = h
        BY <2>1, <4>2 DEF OneHome, Held
      <4> QED
        BY <2>2, <4>1, <4>2
    <3>2. hook'[o].at = "done"
      BY <1>3, <2>1, <2>2 DEF OneHome, Held
    <3>3. ~InActive(o)' /\ ~Stacked(o)' /\ ~Held(o)'
      BY <1>3, <1>4, <3>1 DEF Stacked, Held
    <3>4. \A y, z \in spans' : o \in y.from /\ o \in z.from => y = z
      BY <1>1, <3>1 DEF Reported
    <3> QED
      BY <3>2, <3>3, <3>4, NewHome
  <2>3. CASE o \notin f
    <3>1. \A p \in Hooks : InHand(p, o)' => InHand(p, o)
      BY <1>3
    <3>2. \A y \in spans' : o \in y.from => y \in spans
      BY <1>1, <2>3
    <3> QED
      BY <1>3, <1>4, <2>1, <3>1, <3>2, KeptHome
  <2> QED
    BY <2>2, <2>3
<1> QED
  BY <1>3, <1>5 DEF SourcesApart

(* What a hook has popped, or has in its turn, are hooks.                  *)
LEMMA HandHooks ==
  ASSUME StateType, NEW h \in Hooks
  PROVE  /\ \A x \in Elems(hook[h].taken) : x.by \in Hooks
         /\ hook[h].mine # NoTurn => Elems(hook[h].mine.responses) \subseteq Hooks
<1>1. hook[h] \in HookType
  BY DEF StateType
<1>2. \A x \in Elems(hook[h].taken) : x.by \in Hooks
  <2>1. hook[h].taken \in Seq(Entry)
    BY <1>1 DEF HookType
  <2>2. Elems(hook[h].taken) \subseteq Entry
    BY <2>1, LenProperties, ElementOfSeq DEF Elems
  <2> QED
    BY <2>2 DEF Entry
<1>3. ASSUME hook[h].mine # NoTurn
      PROVE  Elems(hook[h].mine.responses) \subseteq Hooks
  <2>1. hook[h].mine.responses \in Seq(Hooks)
    BY <1>1, <1>3 DEF HookType, Turn
  <2> QED
    BY <2>1, LenProperties, ElementOfSeq DEF Elems
<1> QED
  BY <1>2, <1>3

LEMMA PointSources ==
  ASSUME NEW h \in Hooks, StateType, Resolved, OneOwner, SourcesApart, SendPoint(h)
  PROVE  SourcesApart'
<1> DEFINE f == IF ev[h].kind = "response" THEN {h} ELSE {e.by : e \in Elems(hook[h].taken)}
           s == IF ev[h].kind = "sessionStart" /\ ev[h].gen # NoGen THEN "saveRoot" ELSE "done"
<1>1. /\ hook[h].at = "send" /\ UNCHANGED <<active, stacks, ev>>
      /\ Sent(h, ev[h].kind, ParentOf(h), TraceOf(h), f, {}) /\ Goto(h, s)
  BY DEF SendPoint, disk
<1>2. \A x \in Elems(hook[h].taken) : x.by \in Hooks
  BY HandHooks
<1>3. f \in SUBSET Hooks
  BY <1>2
<1>4. TakenAt(ev[h], s, hook[h].taken) /\ s \in Stages \ {"pop", "send", "llm", "root", "mark"}
  BY <1>1 DEF SourcesApart, TakenAt, Stages
<1>5. (f = {h} /\ s = "done") \/ \A o \in f : InHand(h, o)
  BY <1>1 DEF InHand, Carries
<1> HIDE DEF f, s
<1> QED
  BY <1>1, <1>3, <1>4, <1>5, SendSources

(* The steps of a stop.                                                    *)
LEMMA StopSources ==
  ASSUME NEW h \in Hooks, StateType, Resolved, OneOwner, SourcesApart,
         Claim(h) \/ ClearIfMatches(h) \/ SendRoot(h) \/ SendLlm(h) \/ SendStop(h)
  PROVE  SourcesApart'
<1>1. hook[h] \in HookType /\ UNCHANGED <<stacks, ev>>
  BY DEF Claim, ClearIfMatches, SendRoot, SendLlm, SendStop, disk, StateType
<1>2. TakenAt(ev[h], hook[h].at, hook[h].taken)
  BY DEF SourcesApart
<1>3. CASE Claim(h)
  <2>1. PICK s \in {"done", AfterClaim(ev[h], hook[h].seen)} : Goto(h, s)
    BY <1>3 DEF Claim
  <2>2. s \in Stages
    BY <2>1, StagesType DEF Stages
  <2>3. /\ hook[h].at \notin Closing \cup {"pop", "send", "done"} /\ UNCHANGED <<active, spans>>
        /\ \A o : InActive(o)' => InActive(o)
    BY <1>3 DEF Claim, Closing, history, InActive
  <2> QED
    BY <1>1, <2>1, <2>2, <2>3, SourcesEarlyGoto
<1>4. CASE ClearIfMatches(h)
  <2>1. hook[h].at \notin Closing \cup {"pop", "send", "done"} /\ UNCHANGED spans
    BY <1>4 DEF ClearIfMatches, Closing, history
  <2>2. \/ active' = NoTurn /\ Continue(h, "root", [hook[h] EXCEPT !.mine = active])
        \/ UNCHANGED active /\ Goto(h, "done")
    BY <1>4 DEF ClearIfMatches
  <2>3. CASE UNCHANGED active /\ Goto(h, "done")
    BY <1>1, <2>1, <2>3, SourcesEarlyGoto DEF Stages, InActive
  <2> QED
    BY <1>1, <2>1, <2>2, <2>3, TakeSources DEF Stages
<1>5. CASE SendRoot(h)
  <2>1. /\ hook[h].at = "root" /\ Goto(h, "llm") /\ "llm" \in Stages /\ UNCHANGED active
        /\ Sent(h, "root", hook[h].mine.root, hook[h].mine.gen, {}, Ids(hook[h].mine))
    BY <1>5 DEF SendRoot, disk, Stages
  <2>2. \A o \in Hooks : \A x \in spans' : o \in x.from => x \in spans
    BY <2>1 DEF Sent
  <2>3. hook[h].taken = <<>> /\ TakenAt(ev'[h], "llm", hook[h].taken)
    BY <1>2, <2>1 DEF TakenAt
  <2>4. Elems(hook[h].taken) = {}
    <3>1. Elems(<<>>) = {}
      BY DEF Elems
    <3> QED
      BY <2>3, <3>1, Zenon
  <2>5. \A o \in Hooks : Carries(h, ev'[h], "llm", hook[h], o) => InHand(h, o)
    BY <2>1, <2>4 DEF Carries, InHand
  <2>6. \A o, k, n : (InActive(o)' => InActive(o)) /\ (InStack(k, n, o)' => InStack(k, n, o))
    BY <1>1, <2>1 DEF InActive, InStack
  <2> QED
    BY <1>1, <2>1, <2>2, <2>3, <2>5, <2>6, SourcesStep DEF Goto
<1>6. CASE SendLlm(h)
  <2> DEFINE mine == hook[h].mine
             taken == hook[h].taken
             s == IF ev[h].kind = "stop" THEN "stop" ELSE "clean"
  <2>1. hook[h].at = "llm" /\ UNCHANGED active /\ Goto(h, s)
    BY <1>6 DEF SendLlm, disk
  <2>2. s \in Stages \ {"pop", "send", "llm", "root", "mark"} /\ TakenAt(ev[h], s, hook[h].taken)
    BY <1>2, <2>1 DEF Stages, TakenAt
  <2>3. PICK f, t, g :
          /\ Sent(h, "llm", t, g, f, {})
          /\ \/ mine # NoTurn /\ f = Elems(mine.responses)
             \/ f = {e.by : e \in Elems(taken)}
             \/ f = {}
    BY <1>6 DEF SendLlm
  <2>4. \A o \in f : InHand(h, o)
    BY <2>1, <2>3 DEF InHand, Carries
  <2>5. f \in SUBSET Hooks
    <3>1. \A x \in Elems(taken) : x.by \in Hooks
      BY HandHooks
    <3>2. mine # NoTurn => Elems(mine.responses) \subseteq Hooks
      BY HandHooks
    <3> QED
      BY <2>3, <3>1, <3>2
  <2> HIDE DEF s
  <2> QED
    BY <1>1, <2>1, <2>2, <2>3, <2>4, <2>5, SendSources
<1>7. CASE SendStop(h)
  <2>1. hook[h].at = "stop" /\ UNCHANGED active /\ Goto(h, "clean")
    BY <1>7 DEF SendStop, disk
  <2>2. TakenAt(ev[h], "clean", hook[h].taken)
    BY <1>2, <2>1 DEF TakenAt
  <2>3. PICK t, g, d : Sent(h, "stop", t, g, {}, d)
    BY <1>7 DEF SendStop
  <2> QED
    BY <1>1, <2>1, <2>2, <2>3, SendSources DEF Stages
<1> QED
  BY <1>3, <1>4, <1>5, <1>6, <1>7

(* The steps of a prompt, of a session end, and of every closing.          *)
LEMMA ClosingSources ==
  ASSUME NEW h \in Hooks, StateType, Resolved, OneOwner, SourcesApart,
         \/ Flush(h) \/ MarkClosed(h) \/ CleanUp(h) \/ ResetNogen(h)
         \/ SaveRoot(h) \/ SaveTurn(h) \/ EndSession(h) \/ RemoveActive(h)
  PROVE  SourcesApart'
<1>1. hook[h] \in HookType /\ UNCHANGED ev
  BY DEF Flush, MarkClosed, CleanUp, ResetNogen, SaveRoot, SaveTurn, EndSession, RemoveActive,
         StateType
<1>2. TakenAt(ev[h], hook[h].at, hook[h].taken)
  BY DEF SourcesApart
<1>3. AfterFlush(ev[h]) \in {"end", "reset", "saveRoot"}
  BY DEF AfterFlush
<1>4. CASE Flush(h)
  <2> DEFINE s == IF active = NoTurn THEN AfterFlush(ev[h]) ELSE "mark"
  <2>1. /\ hook[h].at \notin Closing \cup {"pop", "send", "done"}
        /\ UNCHANGED <<stacks, spans>> /\ active' = NoTurn
        /\ Continue(h, s, [hook[h] EXCEPT !.mine = active])
    BY <1>4 DEF Flush, Closing, history
  <2>2. s \in Stages
    BY <1>3 DEF Stages
  <2> HIDE DEF s
  <2> QED
    BY <1>1, <2>1, <2>2, TakeSources
<1>5. CASE MarkClosed(h)
  <2>1. /\ hook[h].at = "mark" /\ UNCHANGED <<active, stacks, spans>> /\ Goto(h, AfterMark(h))
        /\ AfterMark(h) \in Stages
    BY <1>5, StagesType DEF MarkClosed, history, Stages
  <2>2. TakenAt(ev'[h], AfterMark(h), hook[h].taken)
    BY <1>1, <1>2, <2>1 DEF TakenAt, AfterMark, Flushes
  <2>3. \A o \in Hooks : Carries(h, ev'[h], AfterMark(h), hook[h], o) => InHand(h, o)
    BY <1>1, <2>1 DEF Carries, InHand, AfterMark, Flushes
  <2>4. \A o, k, n : (InActive(o)' => InActive(o)) /\ (InStack(k, n, o)' => InStack(k, n, o))
    BY <2>1 DEF InActive, InStack
  <2> QED
    BY <1>1, <2>1, <2>2, <2>3, <2>4, SourcesStep DEF Goto
<1>6. CASE CleanUp(h)
  <2> DEFINE l == [hook[h] EXCEPT !.mine = NoTurn]
  <2>1. /\ hook[h].at = "clean" /\ UNCHANGED <<active, spans>>
        /\ \A o : InActive(o)' => InActive(o)
    BY <1>6 DEF CleanUp, history, InActive
  <2>2. \A o \in Hooks, k \in StackNames \X Gens, n \in Nat : InStack(k, n, o)' => InStack(k, n, o)
    <3>1. DOMAIN stacks = StackNames \X Gens
      BY DEF StateType
    <3>2. \A k \in StackNames \X Gens : stacks'[k] \in {<<>>, stacks[k]}
      BY <1>6, <3>1 DEF CleanUp
    <3>3. \A k \in StackNames \X Gens : stacks'[k] = <<>> \/ stacks'[k] = stacks[k]
      BY <3>2
    <3>4. DOMAIN <<>> = {}
      OBVIOUS
    <3>5. \A k \in StackNames \X Gens : DOMAIN stacks'[k] = {} \/ stacks'[k] = stacks[k]
      BY <3>3, <3>4, Zenon
    <3> QED
      BY <3>5 DEF InStack
  <2>3. \/ Continue(h, AfterFlush(ev[h]), l) /\ ev[h].kind # "stop"
        \/ Goto(h, IF ev[h].kind = "stop" THEN "done" ELSE "wipe")
        \/ Goto(h, "mark") /\ ~Flushes(h)
    BY <1>6 DEF CleanUp, Flushes
  <2>4. l \in HookType /\ l.mine = NoTurn /\ l.taken = hook[h].taken
    BY <1>1 DEF HookType
  <2>5. {"done", "wipe", "mark", "end", "reset", "saveRoot"} \subseteq Stages
    BY DEF Stages
  <2> HIDE DEF l
  <2>6. CASE Continue(h, AfterFlush(ev[h]), l) /\ ev[h].kind # "stop"
    <3>1. TakenAt(ev'[h], AfterFlush(ev[h]), l.taken)
      BY <1>1, <1>2, <2>1, <2>4, <2>6 DEF TakenAt
    <3>2. \A o \in Hooks : ~Carries(h, ev'[h], AfterFlush(ev[h]), l, o)
      BY <1>3 DEF Carries
    <3> QED
      BY <1>1, <1>3, <2>1, <2>2, <2>4, <2>5, <2>6, <3>1, <3>2, SourcesStep
  <2>7. CASE Goto(h, IF ev[h].kind = "stop" THEN "done" ELSE "wipe")
    <3> DEFINE s == IF ev[h].kind = "stop" THEN "done" ELSE "wipe"
    <3>1. TakenAt(ev'[h], s, hook[h].taken) /\ s \in Stages
      BY <1>1, <1>2, <2>1, <2>5 DEF TakenAt
    <3>2. \A o \in Hooks : ~Carries(h, ev'[h], s, hook[h], o)
      BY DEF Carries
    <3> HIDE DEF s
    <3>3. Continue(h, s, hook[h])
      BY <2>7 DEF Goto, s
    <3> QED
      BY <1>1, <2>1, <2>2, <3>1, <3>2, <3>3, SourcesStep
  <2>8. CASE Goto(h, "mark") /\ ~Flushes(h)
    <3>1. TakenAt(ev'[h], "mark", hook[h].taken)
      BY <1>1, <1>2, <2>1 DEF TakenAt
    <3>2. \A o \in Hooks : ~Carries(h, ev'[h], "mark", hook[h], o)
      BY <1>1, <2>8 DEF Carries, Flushes
    <3> QED
      BY <1>1, <2>1, <2>2, <2>5, <2>8, <3>1, <3>2, SourcesStep DEF Goto
  <2> QED
    BY <2>3, <2>6, <2>7, <2>8
<1>7. CASE ResetNogen(h) \/ SaveRoot(h) \/ SaveTurn(h) \/ EndSession(h) \/ RemoveActive(h)
  <2>1. PICK s \in {"save", "done", "wipe", "clean"} : Goto(h, s)
    BY <1>7 DEF ResetNogen, SaveRoot, SaveTurn, EndSession, RemoveActive
  <2>2. hook[h].at \notin Closing \cup {"pop", "send", "done"} /\ UNCHANGED stacks
    BY <1>7 DEF ResetNogen, SaveRoot, SaveTurn, EndSession, RemoveActive, Closing, disk
  <2>3. \A o \in Hooks : \A x \in spans' : o \in x.from => x \in spans
    BY <1>7 DEF ResetNogen, SaveRoot, SaveTurn, EndSession, RemoveActive, history, Sent
  <2>4. \A o \in Hooks : InActive(o)' => InActive(o)
    <3>1. Elems(<<>>) = {} /\ NewTurn(h).responses = <<>>
      BY DEF Elems, NewTurn
    <3>2. Elems(NewTurn(h).responses) = {}
      BY <3>1, Zenon
    <3>3. active' \in {active, NoTurn, NewTurn(h)}
      BY <1>7 DEF ResetNogen, SaveRoot, SaveTurn, EndSession, RemoveActive, disk
    <3> HIDE DEF NewTurn
    <3> QED
      BY <3>2, <3>3 DEF InActive
  <2> QED
    BY <1>1, <2>1, <2>2, <2>3, <2>4, SourcesEarlyGoto DEF Stages
<1> QED
  BY <1>4, <1>5, <1>6, <1>7

(* Starts and failures.                                                    *)
LEMMA OtherSources ==
  ASSUME NEW h \in Hooks, StateType, Resolved, OneOwner, SourcesApart,
         \/ \E k \in Kinds, g \in AnyGen, x \in Texts \cup {NoText} : Start(h, k, g, x)
         \/ FailOperation(h) \/ Crash(h)
  PROVE  SourcesApart'
<1>1. UNCHANGED <<active, stacks, spans>> /\ hook[h] \in HookType
  BY DEF Start, FailOperation, Crash, disk, history, StateType
<1>2. \A o, k, n : (InActive(o)' => InActive(o)) /\ (InStack(k, n, o)' => InStack(k, n, o))
  BY <1>1 DEF InActive, InStack
<1>3. TakenAt(ev[h], hook[h].at, hook[h].taken)
  BY DEF SourcesApart
<1>4. CASE \E k \in Kinds, g \in AnyGen, x \in Texts \cup {NoText} : Start(h, k, g, x)
  <2>1. PICK s \in {"flush", "send", "get"} : Goto(h, s) /\ hook[h].at = "new"
    BY <1>4, StagesType DEF Start
  <2>2. \A o \in Hooks : o # h => ev'[o] = ev[o]
    BY <1>4 DEF Start, StateType
  <2> QED
    BY <1>1, <1>2, <2>1, <2>2, SourcesEarlyGoto DEF Stages, Closing
<1>5. CASE Crash(h)
  <2>1. Goto(h, "done") /\ "done" \in Stages /\ UNCHANGED ev /\ hook[h].at # "done"
    BY <1>5 DEF Crash, Stages, Running
  <2>2. TakenAt(ev'[h], "done", hook[h].taken) /\ \A o \in Hooks : ~Carries(h, ev'[h], "done", hook[h], o)
    BY <1>3, <2>1 DEF TakenAt, Carries
  <2> QED
    BY <1>1, <1>2, <2>1, <2>2, SourcesStep DEF Goto
<1>6. CASE FailOperation(h)
  <2>1. UNCHANGED ev
    BY <1>6 DEF FailOperation
  <2>2. CASE hook[h].at = "mark"
    <3>1. Goto(h, AfterMark(h)) /\ AfterMark(h) \in Stages
      BY <1>6, <2>2, StagesType DEF FailOperation, Stages
    <3>2. TakenAt(ev'[h], AfterMark(h), hook[h].taken)
      BY <1>3, <2>1, <2>2 DEF TakenAt, AfterMark, Flushes
    <3>3. \A o \in Hooks : Carries(h, ev'[h], AfterMark(h), hook[h], o) => InHand(h, o)
      BY <2>1, <2>2 DEF Carries, InHand, AfterMark, Flushes
    <3> QED
      BY <1>1, <1>2, <2>1, <2>2, <3>1, <3>2, <3>3, SourcesStep DEF Goto
  <2>3. CASE hook[h].at = "save"
    <3> DEFINE l == [hook[h] EXCEPT !.mine = NewTurn(h)]
    <3>1. NewTurn(h) \in Turn
      <4>1. ev[h].gen \in AnyGen
        BY DEF StateType, Event
      <4> QED
        BY <4>1, EmptySeq DEF NewTurn, Turn
    <3>2. Elems(NewTurn(h).responses) = {}
      <4>1. Elems(<<>>) = {} /\ NewTurn(h).responses = <<>>
        BY DEF Elems, NewTurn
      <4> QED
        BY <4>1, Zenon
    <3>3. Continue(h, "root", l) /\ "root" \in Stages
      BY <1>6, <2>3 DEF FailOperation, Stages
    <3> HIDE DEF NewTurn
    <3>4. l \in HookType /\ l.mine = NewTurn(h) /\ l.taken = hook[h].taken
      BY <1>1, <3>1 DEF HookType
    <3>5. TakenAt(ev'[h], "root", l.taken) /\ \A o \in Hooks : ~Carries(h, ev'[h], "root", l, o)
      BY <1>3, <2>1, <2>3, <3>2, <3>4 DEF TakenAt, Carries
    <3> HIDE DEF l
    <3> QED
      BY <1>1, <1>2, <2>1, <2>3, <3>3, <3>4, <3>5, SourcesStep
  <2>4. CASE hook[h].at \notin {"mark", "save"}
    <3>1. PICK s : s \in Stages /\ Goto(h, s)
      <4>1. /\ Handle(ev[h], hook[h].seen) \in Stages /\ NotAppended(ev[h]) \in Stages
            /\ AfterClaim(ev[h], hook[h].seen) \in Stages /\ AfterFlush(ev[h]) \in Stages
        BY StagesType
      <4>2. {"readRoot", "done", "alias", "push", "send", "save"} \subseteq Stages
        BY DEF Stages
      <4> QED
        BY <1>6, <2>4, <4>1, <4>2 DEF FailOperation
    <3>2. hook[h].at \notin Closing \cup {"pop", "send", "done"}
      BY <1>6, <2>4 DEF FailOperation, Closing
    <3> QED
      BY <1>1, <1>2, <2>1, <3>1, <3>2, SourcesEarlyGoto
  <2> QED
    BY <2>2, <2>3, <2>4
<1> QED
  BY <1>4, <1>5, <1>6

LEMMA InitSources ==
  ASSUME Init
  PROVE  SourcesApart
<1>1. Idle("new").at = "new" /\ Idle("new").mine = NoTurn /\ Idle("new").taken = <<>>
  BY DEF Idle
<1>2. \A h \in Hooks : hook[h] = Idle("new")
  BY DEF Init
<1>3. \A h \in Hooks : hook[h].at = "new" /\ hook[h].mine = NoTurn /\ hook[h].taken = <<>>
  BY <1>1, <1>2, Zenon
<1>4. \A h \in Hooks : TakenAt(ev[h], hook[h].at, hook[h].taken)
  BY <1>3 DEF TakenAt
<1>5. \A h, o \in Hooks : ~InHand(h, o)
  BY <1>3 DEF InHand, Carries
<1>6. \A k \in StackNames \X Gens, n \in Nat, o \in Hooks : ~InStack(k, n, o)
  BY DEF Init, InStack
<1>7. \A o \in Hooks : ~InActive(o) /\ ~Reported(o)
  BY DEF Init, InActive, Reported
<1> QED
  BY <1>4, <1>5, <1>6, <1>7 DEF SourcesApart, OneHome, Held, Stacked, Reported

LEMMA NextSources ==
  ASSUME StateType, Resolved, OneOwner, SourcesApart, [Next]_vars
  PROVE  SourcesApart'
<1>1. CASE UNCHANGED vars
  <2>1. UNCHANGED <<active, stacks, ev, hook, spans>>
    BY <1>1 DEF vars, disk, history
  <2>2. /\ \A o : (InActive(o)' <=> InActive(o)) /\ (Reported(o)' <=> Reported(o))
        /\ \A h, o : InHand(h, o)' <=> InHand(h, o)
        /\ \A k, n, o : InStack(k, n, o)' <=> InStack(k, n, o)
    BY <2>1 DEF InActive, Reported, InHand, Carries, InStack
  <2>3. \A o \in Hooks : OneHome(o)'
    BY <2>1, <2>2 DEF SourcesApart, OneHome, Held, Stacked
  <2> QED
    BY <2>1, <2>3 DEF SourcesApart
<1>2. CASE Next
  BY <1>2, ReadingSources, WritingSources, PushSources, PopSources, PointSources, StopSources,
     ClosingSources, OtherSources DEF Next, Step
<1> QED
  BY <1>1, <1>2

(* What spans carry is the data of hooks.                                  *)
SpansFrom == \A s \in spans : s.from \in SUBSET Hooks

LEMMA NextFrom ==
  ASSUME StateType, SpansFrom, [Next]_vars
  PROVE  SpansFrom'
<1>1. ASSUME NEW h \in Hooks, NEW n, NEW t, NEW g, NEW f \in SUBSET Hooks, NEW d,
             Sent(h, n, t, g, f, d)
      PROVE  SpansFrom'
  BY <1>1 DEF SpansFrom, Sent
<1>2. ASSUME NEW h \in Hooks
      PROVE  /\ {e.by : e \in Elems(hook[h].taken)} \in SUBSET Hooks
             /\ hook[h].mine # NoTurn => Elems(hook[h].mine.responses) \in SUBSET Hooks
  BY HandHooks
<1>3. ASSUME NEW h \in Hooks, SendPoint(h)
      PROVE  SpansFrom'
  BY <1>1, <1>2, <1>3 DEF SendPoint
<1>4. ASSUME NEW h \in Hooks, SendLlm(h)
      PROVE  SpansFrom'
  BY <1>1, <1>2, <1>4 DEF SendLlm
<1>5. ASSUME NEW h \in Hooks, SendRoot(h) \/ SendStop(h) \/ EndSession(h)
      PROVE  SpansFrom'
  BY <1>1, <1>5 DEF SendRoot, SendStop, EndSession
<1>6. CASE UNCHANGED spans
  BY <1>6 DEF SpansFrom
<1>7. CASE UNCHANGED vars
  BY <1>6, <1>7 DEF vars, history
<1>8. CASE Next
  <2>1. PICK h \in Hooks :
          \/ \E k \in Kinds, g \in AnyGen, x \in Texts \cup {NoText} : Start(h, k, g, x)
          \/ Step(h) \/ FailOperation(h) \/ Crash(h)
    BY <1>8 DEF Next
  <2>2. CASE SendPoint(h) \/ SendLlm(h) \/ SendRoot(h) \/ SendStop(h) \/ EndSession(h)
    BY <1>3, <1>4, <1>5, <2>2
  <2>3. CASE ~(SendPoint(h) \/ SendLlm(h) \/ SendRoot(h) \/ SendStop(h) \/ EndSession(h))
    <3>1. UNCHANGED spans
      BY <2>1, <2>3 DEF Step, Start, FailOperation, Crash, GetActive, CheckMarked, ReadRoot,
         RecordAlias, AddResponse, CheckLate, Push, Pop, AddThought, Claim, ClearIfMatches, Flush,
         MarkClosed, CleanUp, ResetNogen, SaveRoot, SaveTurn, RemoveActive, history
    <3> QED
      BY <1>6, <3>1
  <2> QED
    BY <2>2, <2>3
<1> QED
  BY <1>7, <1>8

(* A response, or the start of a command, is in one span at most: while it *)
(* waits it is in the turn, with one hook or in one entry of one stack,    *)
(* and a step that moves it takes it from where it was.                    *)
THEOREM SourceInOneSpan == Spec => []SourcesUsedOnce
<1> DEFINE Inv == StateType /\ Resolved /\ OneOwner /\ SourcesApart /\ SpansFrom
<1>1. Init => Inv
  BY InitType, InitOwner, InitSources DEF Init, SpansFrom
<1>2. Inv /\ [Next]_vars => Inv'
  BY NextType, NextOwner, NextSources, NextFrom
<1>3. Inv => SourcesUsedOnce
  BY DEF SourcesApart, OneHome, SpansFrom, SourcesUsedOnce
<1> QED
  BY <1>1, <1>2, <1>3, PTL DEF Spec

-----------------------------------------------------------------------------
(* Lists without repetition *)

Distinct(q) == \A i, j \in DOMAIN q : q[i] = q[j] => i = j

LEMMA DistinctAppend ==
  ASSUME NEW S, NEW q \in Seq(S), NEW x \in S, Distinct(q), x \notin Elems(q)
  PROVE  Distinct(Append(q, x))
<1>1. q \in Seq(S) /\ Len(q) \in Nat /\ DOMAIN q = 1 .. Len(q)
  BY LenProperties
<1>2. /\ DOMAIN Append(q, x) = 1 .. Len(q) + 1 /\ Append(q, x)[Len(q) + 1] = x
      /\ \A i \in 1 .. Len(q) : Append(q, x)[i] = q[i]
  BY <1>1, AppendProperties
<1>3. DOMAIN Append(q, x) = DOMAIN q \cup {Len(q) + 1}
  BY <1>1, <1>2
<1> QED
  BY <1>1, <1>2, <1>3 DEF Elems, Distinct

(* What a capped list has: the last elements, n at most.                   *)
LEMMA CappedParts ==
  ASSUME NEW S, NEW q \in Seq(S), NEW n \in Nat \ {0}
  PROVE  /\ Len(Capped(q, n)) \in Nat /\ Len(Capped(q, n)) <= n
         /\ Len(q) <= n => Capped(q, n) = q
         /\ Distinct(q) => Distinct(Capped(q, n))
<1> DEFINE m == IF Len(q) > n THEN Len(q) - n + 1 ELSE 1
<1>1. q \in Seq(S) /\ Len(q) \in Nat /\ DOMAIN q = 1 .. Len(q)
  BY LenProperties
<1>2. m \in 1 .. Len(q) + 1 /\ Capped(q, n) = SubSeq(q, m, Len(q)) /\ Len(q) - m + 1 <= n
  BY <1>1 DEF Capped
<1>3. Len(q) <= n => Capped(q, n) = q
  <2>1. Len(q) <= n => ~(Len(q) > n)
    BY <1>1
  <2>2. Len(q) <= n => Capped(q, n) = SubSeq(q, 1, Len(q))
    BY <2>1, Zenon DEF Capped
  <2> QED
    BY <1>1, <2>2, SubSeqFull
<1> HIDE DEF m
<1>4. /\ DOMAIN Capped(q, n) = 1 .. Len(q) - m + 1 /\ Len(Capped(q, n)) = Len(q) - m + 1
      /\ \A i \in 1 .. Len(q) - m + 1 : Capped(q, n)[i] = q[m + i - 1]
  BY <1>1, <1>2, SubSeqProperties
<1>5. \A i, j \in 1 .. Len(q) - m + 1 :
        m + i - 1 \in 1 .. Len(q) /\ (m + i - 1 = m + j - 1 => i = j)
  BY <1>1, <1>2
<1>6. Distinct(q) => Distinct(Capped(q, n))
  BY <1>1, <1>4, <1>5 DEF Distinct
<1> QED
  BY <1>1, <1>2, <1>3, <1>4, <1>6

LEMMA DistinctConcat ==
  ASSUME NEW S, NEW q \in Seq(S), NEW r \in Seq(S)
  PROVE  /\ q \o r \in Seq(S)
         /\ Elems(q \o r) = Elems(q) \cup Elems(r)
         /\ Distinct(q) /\ Distinct(r) /\ Elems(q) \cap Elems(r) = {} => Distinct(q \o r)
<1> DEFINE p == q \o r
<1>1. /\ Len(q) \in Nat /\ DOMAIN q = 1 .. Len(q)
      /\ Len(r) \in Nat /\ DOMAIN r = 1 .. Len(r)
  BY LenProperties
<1>2. /\ p \in Seq(S) /\ Len(p) = Len(q) + Len(r) /\ DOMAIN p = 1 .. Len(q) + Len(r)
      /\ \A i \in 1 .. Len(q) + Len(r) : p[i] = IF i <= Len(q) THEN q[i] ELSE r[i - Len(q)]
  BY <1>1, ConcatProperties, LenProperties
<1> HIDE DEF p
<1>3. \A i \in DOMAIN p : \/ i \in DOMAIN q /\ p[i] = q[i]
                          \/ /\ i > Len(q) /\ i - Len(q) \in DOMAIN r
                             /\ p[i] = r[i - Len(q)]
  BY <1>1, <1>2
<1>4. \A i \in DOMAIN q : i \in DOMAIN p /\ p[i] = q[i]
  BY <1>1, <1>2
<1>5. \A i \in DOMAIN r : i + Len(q) \in DOMAIN p /\ p[i + Len(q)] = r[i]
  <2> SUFFICES ASSUME NEW i \in DOMAIN r
               PROVE  i + Len(q) \in DOMAIN p /\ p[i + Len(q)] = r[i]
    OBVIOUS
  <2>1. /\ i + Len(q) \in 1 .. Len(q) + Len(r) /\ ~(i + Len(q) <= Len(q))
        /\ i + Len(q) - Len(q) = i
    BY <1>1
  <2> QED
    BY <1>2, <2>1
<1>6. Elems(p) = Elems(q) \cup Elems(r)
  BY <1>3, <1>4, <1>5 DEF Elems
<1>7. ASSUME Distinct(q), Distinct(r), Elems(q) \cap Elems(r) = {}
      PROVE  Distinct(p)
  <2> SUFFICES ASSUME NEW i \in DOMAIN p, NEW j \in DOMAIN p, p[i] = p[j]
               PROVE  i = j
    BY DEF Distinct
  <2>1. \A a \in DOMAIN q, b \in DOMAIN r : q[a] # r[b]
    BY <1>7 DEF Elems
  <2>2. \/ i \in DOMAIN q /\ j \in DOMAIN q /\ q[i] = q[j]
        \/ /\ i > Len(q) /\ j > Len(q) /\ i - Len(q) \in DOMAIN r /\ j - Len(q) \in DOMAIN r
           /\ r[i - Len(q)] = r[j - Len(q)]
    BY <1>3, <2>1
  <2>3. \/ i \in DOMAIN q /\ j \in DOMAIN q /\ i = j
        \/ i > Len(q) /\ j > Len(q) /\ i - Len(q) = j - Len(q)
    BY <1>7, <2>2 DEF Distinct
  <2>4. i \in Int /\ j \in Int
    BY <1>1, <1>2
  <2> QED
    BY <1>1, <2>3, <2>4
<1> QED
  BY <1>2, <1>6, <1>7 DEF p

(* A list without repetition is not longer than the set of its elements.   *)
LEMMA DistinctShort ==
  ASSUME NEW T, IsFiniteSet(T), NEW q \in Seq(T), Distinct(q)
  PROVE  Len(q) <= Cardinality(T)
<1>1. Len(q) \in Nat /\ DOMAIN q = 1 .. Len(q) /\ q \in [1 .. Len(q) -> T]
  BY LenProperties
<1>2. q \in Injection(1 .. Len(q), T)
  <2>1. \A i, j \in 1 .. Len(q) : q[i] = q[j] => i = j
    BY <1>1 DEF Distinct
  <2> QED
    BY <1>1, <2>1, Zenon DEF Injection, IsInjective
<1>3. Cardinality(1 .. Len(q)) <= Cardinality(T)
  BY <1>2, FS_Injection, Zenon
<1>4. Cardinality(1 .. Len(q)) = Len(q)
  <2>1. 1 \in Int /\ Len(q) \in Int /\ Len(q) - 1 + 1 = Len(q) /\ (1 > Len(q) => Len(q) = 0)
    BY <1>1
  <2> QED
    BY <2>1, FS_Interval
<1> QED
  BY <1>3, <1>4

(* A list is over the set of its elements.                                 *)
LEMMA ElemsCover ==
  ASSUME NEW S, NEW q \in Seq(S), NEW T, Elems(q) \subseteq T
  PROVE  q \in Seq(T)
<1>1. Len(q) \in Nat /\ DOMAIN q = 1 .. Len(q) /\ q \in [1 .. Len(q) -> S]
  BY LenProperties
<1>2. \A i \in 1 .. Len(q) : q[i] \in T
  BY <1>1 DEF Elems
<1>3. q \in [1 .. Len(q) -> T]
  BY <1>1, <1>2
<1> QED
  BY <1>1, <1>3

-----------------------------------------------------------------------------
(* The way of a handler *)

Resolves == {"get", "check", "readRoot", "alias"}

StagesOf(k) ==
  CASE k = "prompt" -> {"flush", "mark", "root", "llm", "clean", "reset", "saveRoot", "save"}
    [] k = "sessionEnd" -> {"flush", "mark", "root", "llm", "clean", "end", "wipe"}
    [] k = "sessionStart" -> {"send", "saveRoot"}
    [] k = "stop" -> {"get", "check", "readRoot", "claim", "clear", "pop", "root", "llm", "stop",
                      "clean", "mark"}
    [] k = "response" -> Resolves \cup {"append", "late", "push", "send"}
    [] k = "thought" -> Resolves \cup {"hash", "send"}
    [] k = "before" -> Resolves \cup {"push"}
    [] k = "after" -> Resolves \cup {"pop", "send"}
    [] OTHER -> Resolves \cup {"send"}

(* A handler is at a stage of its kind of event, and a prompt at the       *)
(* closing of a turn has one.                                              *)
OnPath(e, l) ==
  l.at \notin {"new", "done"} =>
    /\ l.at \in StagesOf(e.kind)
    /\ e.kind = "prompt" /\ l.at \in Closing => l.mine # NoTurn

Paths == \A h \in Hooks : OnPath(ev[h], hook[h])

(* A step of hook h: it goes on at s, knows the turn t and holds m.        *)
Local(h, s, t, m) ==
  /\ hook'[h].at = s
  /\ hook'[h].seen = (IF s = "done" THEN NoTurn ELSE t)
  /\ hook'[h].mine = (IF s = "done" THEN NoTurn ELSE m)
  /\ \A o \in Hooks : o # h => hook'[o] = hook[o]

LEMMA LocalOfContinue ==
  ASSUME StateType, NEW h \in Hooks, NEW s \in Stages, NEW l \in HookType, Continue(h, s, l)
  PROVE  Local(h, s, l.seen, l.mine)
<1>1. /\ \A o \in Hooks : o # h => hook'[o] = hook[o]
      /\ s = "done" => hook'[h] = Idle("done")
      /\ s # "done" => hook'[h] = [l EXCEPT !.at = s]
      /\ hook'[h].at = s
  BY ContinueType DEF StateType
<1>2. Idle("done").seen = NoTurn /\ Idle("done").mine = NoTurn
  BY DEF Idle
<1>3. [l EXCEPT !.at = s].seen = l.seen /\ [l EXCEPT !.at = s].mine = l.mine
  BY DEF HookType
<1> QED
  BY <1>1, <1>2, <1>3 DEF Local

LEMMA LocalOfGoto ==
  ASSUME StateType, NEW h \in Hooks, NEW s \in Stages, Goto(h, s)
  PROVE  Local(h, s, hook[h].seen, hook[h].mine)
BY LocalOfContinue DEF Goto, StateType

(* The branches of the handlers, for the kinds of events that reach them.  *)
LEMMA Branches ==
  ASSUME NEW e, NEW t, NEW taken
  PROVE  /\ NotAppended(e) \in {"send", "late"}
         /\ Standalone(e, taken) \in {"llm", "stop"}
         /\ AfterClaim(e, t) \in {"clear", "pop", "llm", "stop"}
         /\ AfterFlush(e) \in {"end", "reset", "saveRoot"}
         /\ AfterFlush(e) = "end" <=> e.kind = "sessionEnd"
         /\ e.kind \in Kinds /\ "get" \in StagesOf(e.kind) =>
              Handle(e, t) \in StagesOf(e.kind) \cup {"done"}
<1>1. NotAppended(e) \in {"send", "late"}
  BY DEF NotAppended
<1>2. \A x : Standalone(e, x) \in {"llm", "stop"}
  BY DEF Standalone
<1>3. AfterClaim(e, t) \in {"clear", "pop", "llm", "stop"}
  BY <1>2 DEF AfterClaim
<1>4. AfterFlush(e) \in {"end", "reset", "saveRoot"} /\ (AfterFlush(e) = "end" <=> e.kind = "sessionEnd")
  BY DEF AfterFlush
<1>5. e.kind \in Kinds /\ "get" \in StagesOf(e.kind) =>
        Handle(e, t) \in StagesOf(e.kind) \cup {"done"}
  BY <1>1 DEF Handle, StagesOf, Kinds, Resolves
<1> QED
  BY <1>1, <1>2, <1>3, <1>4, <1>5

(* Which kinds of events reach a stage.                                    *)
LEMMA StageKinds ==
  ASSUME NEW k \in Kinds
  PROVE  /\ "get" \in StagesOf(k) <=>
              k \in {"response", "thought", "tool", "before", "after", "stop"}
         /\ \A s \in {"check", "readRoot"} : s \in StagesOf(k) <=> "get" \in StagesOf(k)
         /\ "alias" \in StagesOf(k) => "get" \in StagesOf(k) /\ k # "stop"
         /\ \A s \in {"append", "late"} : s \in StagesOf(k) => k = "response"
         /\ "push" \in StagesOf(k) => k \in {"response", "before"}
         /\ "hash" \in StagesOf(k) => k = "thought"
         /\ "pop" \in StagesOf(k) => k \in {"after", "stop"}
         /\ "send" \in StagesOf(k) => k \notin {"prompt", "before", "stop", "sessionEnd"}
         /\ \A s \in {"claim", "clear", "stop"} : s \in StagesOf(k) => k = "stop"
         /\ \A s \in {"root", "llm", "clean", "mark"} :
              s \in StagesOf(k) <=> k \in {"prompt", "sessionEnd", "stop"}
         /\ "flush" \in StagesOf(k) <=> k \in {"prompt", "sessionEnd"}
         /\ \A s \in {"end", "wipe"} : s \in StagesOf(k) <=> k = "sessionEnd"
         /\ \A s \in {"reset", "save"} : s \in StagesOf(k) <=> k = "prompt"
         /\ "saveRoot" \in StagesOf(k) <=> k \in {"prompt", "sessionStart"}
BY DEF StagesOf, Kinds, Resolves

(* What each step makes of the stage, the seen turn and the held turn.     *)
LEMMA ReadingLocal ==
  ASSUME StateType, Resolved, NEW h \in Hooks
  PROVE  /\ GetActive(h) =>
              Local(h, IF active = NoTurn THEN "readRoot"
                       ELSE IF Matches(active, ev[h].gen) THEN Handle(ev[h], active) ELSE "check",
                    active, hook[h].mine)
         /\ CheckMarked(h) =>
              IF IsMarked(ev[h].gen) THEN Local(h, "readRoot", NoTurn, hook[h].mine)
              ELSE Local(h, IF ev[h].kind = "stop" THEN "done" ELSE "alias",
                         hook[h].seen, hook[h].mine)
         /\ ReadRoot(h) => Local(h, Handle(ev[h], NoTurn), NoTurn, hook[h].mine)
         /\ CheckLate(h) =>
              Local(h, IF IsMarked(ev[h].gen) THEN "done" ELSE "push", hook[h].seen, hook[h].mine)
<1>1. hook[h] \in HookType /\ ev[h].gen \in AnyGen
  BY DEF StateType, Event
<1>2. ASSUME GetActive(h)
      PROVE  Local(h, IF active = NoTurn THEN "readRoot"
                      ELSE IF Matches(active, ev[h].gen) THEN Handle(ev[h], active) ELSE "check",
                   active, hook[h].mine)
  <2> DEFINE l == [hook[h] EXCEPT !.seen = active]
             s == IF active = NoTurn THEN "readRoot"
                  ELSE IF Matches(active, ev[h].gen) THEN Handle(ev[h], active) ELSE "check"
  <2>1. l \in HookType /\ l.seen = active /\ l.mine = hook[h].mine
    BY <1>1 DEF HookType, StateType
  <2>2. s \in Stages /\ Continue(h, s, l)
    BY <1>2, StagesType DEF GetActive, Stages
  <2> HIDE DEF l, s
  <2>3. Local(h, s, active, hook[h].mine)
    BY <2>1, <2>2, LocalOfContinue
  <2> QED
    BY <2>3 DEF s
<1>3. ASSUME CheckMarked(h)
      PROVE  IF IsMarked(ev[h].gen) THEN Local(h, "readRoot", NoTurn, hook[h].mine)
             ELSE Local(h, IF ev[h].kind = "stop" THEN "done" ELSE "alias",
                        hook[h].seen, hook[h].mine)
  <2> DEFINE l == [hook[h] EXCEPT !.seen = NoTurn]
             s == IF ev[h].kind = "stop" THEN "done" ELSE "alias"
  <2>1. l \in HookType /\ l.seen = NoTurn /\ l.mine = hook[h].mine
    BY <1>1 DEF HookType
  <2>2. s \in Stages /\ "readRoot" \in Stages
    BY DEF Stages
  <2>3. IF IsMarked(ev[h].gen) THEN Continue(h, "readRoot", l) ELSE Goto(h, s)
    BY <1>3 DEF CheckMarked
  <2> HIDE DEF l, s
  <2>4. IF IsMarked(ev[h].gen) THEN Local(h, "readRoot", NoTurn, hook[h].mine)
        ELSE Local(h, s, hook[h].seen, hook[h].mine)
    BY <2>1, <2>2, <2>3, LocalOfContinue, LocalOfGoto
  <2> QED
    BY <2>4 DEF s
<1>4. ASSUME ReadRoot(h)
      PROVE  Local(h, Handle(ev[h], NoTurn), NoTurn, hook[h].mine)
  <2> DEFINE l == [hook[h] EXCEPT
                     !.parent = IF ev[h].gen = NoGen THEN NoHook ELSE roots[ev[h].gen]]
  <2>1. hook[h].seen = NoTurn
    BY <1>4 DEF ReadRoot, Resolved, Knows
  <2>2. l \in HookType /\ l.seen = NoTurn /\ l.mine = hook[h].mine
    BY <1>1, <2>1 DEF HookType, StateType, AnyGen
  <2>3. Handle(ev[h], NoTurn) \in Stages /\ Continue(h, Handle(ev[h], NoTurn), l)
    BY <1>4, StagesType DEF ReadRoot
  <2> HIDE DEF l
  <2> QED
    BY <2>2, <2>3, LocalOfContinue
<1>5. ASSUME CheckLate(h)
      PROVE  Local(h, IF IsMarked(ev[h].gen) THEN "done" ELSE "push",
                   hook[h].seen, hook[h].mine)
  <2> DEFINE s == IF IsMarked(ev[h].gen) THEN "done" ELSE "push"
  <2>1. s \in Stages /\ Goto(h, s)
    BY <1>5 DEF CheckLate, Stages
  <2> HIDE DEF s
  <2>2. Local(h, s, hook[h].seen, hook[h].mine)
    BY <2>1, LocalOfGoto
  <2> QED
    BY <2>2 DEF s
<1> QED
  BY <1>2, <1>3, <1>4, <1>5

(* The active turn with one more id of hook h's event.                     *)
WithAlias(h) ==
  IF ev[h].gen \in Ids(active) THEN active
  ELSE [active EXCEPT !.aliases = Capped(Append(@, ev[h].gen), Cap.aliases)]

LEMMA WritingLocal ==
  ASSUME StateType, Resolved, NEW h \in Hooks
  PROVE  /\ RecordAlias(h) =>
              LET seen == IF SeenIsActive(h) THEN WithAlias(h) ELSE hook[h].seen
              IN /\ active' = IF SeenIsActive(h) THEN WithAlias(h) ELSE active
                 /\ seen \in Turn
                 /\ Local(h, Handle(ev[h], seen), seen, hook[h].mine)
         /\ AddResponse(h) =>
              Local(h, IF SeenIsActive(h) THEN "done" ELSE NotAppended(ev[h]),
                    hook[h].seen, hook[h].mine)
         /\ AddThought(h) =>
              \E s \in {"send", "done"} : Local(h, s, hook[h].seen, hook[h].mine)
         /\ Push(h) => Local(h, "done", hook[h].seen, hook[h].mine)
         /\ Pop(h) =>
              \E s \in IF ev[h].kind = "after" THEN {"send"} ELSE {"pop", "llm", "stop"} :
                Local(h, s, hook[h].seen, hook[h].mine)
         /\ SendPoint(h) =>
              Local(h, IF ev[h].kind = "sessionStart" /\ ev[h].gen # NoGen THEN "saveRoot" ELSE "done",
                    hook[h].seen, hook[h].mine)
<1>1. hook[h] \in HookType /\ ev[h] \in Event
  BY DEF StateType
<1>2. ASSUME RecordAlias(h)
      PROVE  LET seen == IF SeenIsActive(h) THEN WithAlias(h) ELSE hook[h].seen
             IN /\ active' = IF SeenIsActive(h) THEN WithAlias(h) ELSE active
                /\ seen \in Turn
                /\ Local(h, Handle(ev[h], seen), seen, hook[h].mine)
  <2> DEFINE seen == IF SeenIsActive(h) THEN WithAlias(h) ELSE hook[h].seen
             l == [hook[h] EXCEPT !.seen = seen]
  <2>1. hook[h].seen \in Turn /\ ev[h].gen \in Gens
    BY <1>1, <1>2 DEF RecordAlias, Resolved, Knows, HookType, Event, AnyGen
  <2>2. SeenIsActive(h) => active \in Turn
    BY DEF SeenIsActive, StateType
  <2>3. SeenIsActive(h) => WithAlias(h) \in Turn
    BY <2>1, <2>2, TurnGrows DEF WithAlias
  <2>4. /\ active' = IF SeenIsActive(h) THEN WithAlias(h) ELSE active
        /\ Continue(h, Handle(ev[h], seen), l)
    BY <1>2 DEF RecordAlias, WithAlias
  <2>5. seen \in Turn
    BY <2>1, <2>3
  <2> HIDE DEF seen
  <2>6. l \in HookType /\ l.seen = seen /\ l.mine = hook[h].mine
    BY <1>1, <2>5 DEF HookType
  <2> HIDE DEF l
  <2>7. Local(h, Handle(ev[h], seen), seen, hook[h].mine)
    BY <2>4, <2>6, LocalOfContinue, StagesType
  <2> QED
    BY <2>4, <2>5, <2>7 DEF seen
<1>3. ASSUME AddResponse(h)
      PROVE  Local(h, IF SeenIsActive(h) THEN "done" ELSE NotAppended(ev[h]),
                   hook[h].seen, hook[h].mine)
  <2>1. NotAppended(ev[h]) \in Stages /\ "done" \in Stages
    BY StagesType DEF Stages
  <2>2. Goto(h, IF SeenIsActive(h) THEN "done" ELSE NotAppended(ev[h]))
    BY <1>3 DEF AddResponse
  <2> QED
    BY <2>1, <2>2, LocalOfGoto
<1>4. ASSUME AddThought(h)
      PROVE  \E s \in {"send", "done"} : Local(h, s, hook[h].seen, hook[h].mine)
  <2>1. PICK s \in {"send", "done"} : Goto(h, s)
    BY <1>4 DEF AddThought
  <2> QED
    BY <2>1, LocalOfGoto DEF Stages
<1>5. ASSUME Push(h)
      PROVE  Local(h, "done", hook[h].seen, hook[h].mine)
  BY <1>5, LocalOfGoto DEF Push, Stages
<1>6. ASSUME Pop(h)
      PROVE  \E s \in IF ev[h].kind = "after" THEN {"send"} ELSE {"pop", "llm", "stop"} :
               Local(h, s, hook[h].seen, hook[h].mine)
  <2> DEFINE q == stacks[StackOf(h)]
             t == <<q[Len(q)]>> \o hook[h].taken
             l == [hook[h] EXCEPT !.taken = t]
             S == IF ev[h].kind = "after" THEN {"send"} ELSE {"pop", "llm", "stop"}
  <2>1. S \subseteq Stages
    BY DEF Stages
  <2>2. CASE q = <<>>
    <3>1. Standalone(ev[h], hook[h].taken) \in {"llm", "stop"}
      BY Branches
    <3>2. Goto(h, IF ev[h].kind = "after" THEN "send" ELSE Standalone(ev[h], hook[h].taken))
      BY <1>6, <2>2 DEF Pop
    <3>3. PICK s \in S : Goto(h, s)
      BY <3>1, <3>2
    <3> QED
      BY <2>1, <3>3, LocalOfGoto
  <2>3. CASE q # <<>>
    <3>1. t \in Seq(Entry)
      BY <1>6, <2>3, PopEntry
    <3>2. Continue(h, IF ev[h].kind = "after" THEN "send" ELSE "pop", l)
      BY <1>6, <2>3 DEF Pop
    <3> HIDE DEF t
    <3>3. l \in HookType /\ l.seen = hook[h].seen /\ l.mine = hook[h].mine
      BY <1>1, <3>1 DEF HookType
    <3> HIDE DEF l
    <3>4. PICK s \in S : Continue(h, s, l)
      BY <3>2
    <3> QED
      BY <2>1, <3>3, <3>4, LocalOfContinue
  <2> QED
    BY <2>2, <2>3
<1>7. ASSUME SendPoint(h)
      PROVE  Local(h, IF ev[h].kind = "sessionStart" /\ ev[h].gen # NoGen THEN "saveRoot" ELSE "done",
                   hook[h].seen, hook[h].mine)
  <2>1. "saveRoot" \in Stages /\ "done" \in Stages
    BY DEF Stages
  <2>2. Goto(h, IF ev[h].kind = "sessionStart" /\ ev[h].gen # NoGen THEN "saveRoot" ELSE "done")
    BY <1>7 DEF SendPoint
  <2> QED
    BY <2>1, <2>2, LocalOfGoto
<1> QED
  BY <1>2, <1>3, <1>4, <1>5, <1>6, <1>7

LEMMA StopLocal ==
  ASSUME StateType, Resolved, NEW h \in Hooks
  PROVE  /\ Claim(h) =>
              LET ids == StopIds(hook[h].seen, ev[h].gen)
              IN Local(h, IF (IF ids = <<>> THEN nogen ELSE \E g \in Elems(ids) : IsMarked(g))
                          THEN "done" ELSE AfterClaim(ev[h], hook[h].seen),
                       hook[h].seen, hook[h].mine)
         /\ ClearIfMatches(h) =>
              \/ /\ active # NoTurn /\ (SeenIsActive(h) \/ hook[h].seen.gen \in Ids(active))
                 /\ active' = NoTurn /\ Local(h, "root", hook[h].seen, active)
              \/ active' = active /\ Local(h, "done", hook[h].seen, hook[h].mine)
         /\ SendRoot(h) => Local(h, "llm", hook[h].seen, hook[h].mine)
         /\ SendLlm(h) => Local(h, IF ev[h].kind = "stop" THEN "stop" ELSE "clean",
                                hook[h].seen, hook[h].mine)
         /\ SendStop(h) => Local(h, "clean", hook[h].seen, hook[h].mine)
<1>1. hook[h] \in HookType
  BY DEF StateType
<1>2. {"done", "clear", "pop", "llm", "stop", "root", "clean"} \subseteq Stages
  BY DEF Stages
<1>3. ASSUME Claim(h)
      PROVE  LET ids == StopIds(hook[h].seen, ev[h].gen)
             IN Local(h, IF (IF ids = <<>> THEN nogen ELSE \E g \in Elems(ids) : IsMarked(g))
                         THEN "done" ELSE AfterClaim(ev[h], hook[h].seen),
                      hook[h].seen, hook[h].mine)
  <2> DEFINE ids == StopIds(hook[h].seen, ev[h].gen)
             s == IF (IF ids = <<>> THEN nogen ELSE \E g \in Elems(ids) : IsMarked(g))
                  THEN "done" ELSE AfterClaim(ev[h], hook[h].seen)
  <2>1. Goto(h, s)
    BY <1>3 DEF Claim
  <2>2. s \in Stages
    BY <1>2, Branches
  <2> HIDE DEF s
  <2>3. Local(h, s, hook[h].seen, hook[h].mine)
    BY <2>1, <2>2, LocalOfGoto
  <2> QED
    BY <2>3 DEF s
<1>4. ASSUME ClearIfMatches(h)
      PROVE  \/ /\ active # NoTurn /\ (SeenIsActive(h) \/ hook[h].seen.gen \in Ids(active))
                /\ active' = NoTurn /\ Local(h, "root", hook[h].seen, active)
             \/ active' = active /\ Local(h, "done", hook[h].seen, hook[h].mine)
  <2> DEFINE l == [hook[h] EXCEPT !.mine = active]
  <2>1. l \in HookType /\ l.seen = hook[h].seen /\ l.mine = active
    BY <1>1 DEF HookType, StateType
  <2>2. \/ /\ active # NoTurn /\ (SeenIsActive(h) \/ hook[h].seen.gen \in Ids(active))
           /\ active' = NoTurn /\ Continue(h, "root", l)
        \/ active' = active /\ Goto(h, "done")
    BY <1>4 DEF ClearIfMatches, SeenIsActive
  <2> HIDE DEF l
  <2>3. Continue(h, "root", l) => Local(h, "root", hook[h].seen, active)
    BY <1>2, <2>1, LocalOfContinue
  <2>4. Goto(h, "done") => Local(h, "done", hook[h].seen, hook[h].mine)
    BY <1>2, LocalOfGoto
  <2> QED
    BY <2>2, <2>3, <2>4
<1>5. SendRoot(h) => Local(h, "llm", hook[h].seen, hook[h].mine)
  BY <1>2, LocalOfGoto DEF SendRoot
<1>6. SendLlm(h) => Local(h, IF ev[h].kind = "stop" THEN "stop" ELSE "clean",
                          hook[h].seen, hook[h].mine)
  BY <1>2, LocalOfGoto DEF SendLlm
<1>7. SendStop(h) => Local(h, "clean", hook[h].seen, hook[h].mine)
  BY <1>2, LocalOfGoto DEF SendStop
<1> QED
  BY <1>3, <1>4, <1>5, <1>6, <1>7

LEMMA ClosingLocal ==
  ASSUME StateType, Resolved, NEW h \in Hooks
  PROVE  /\ Flush(h) => Local(h, IF active = NoTurn THEN AfterFlush(ev[h]) ELSE "mark",
                              hook[h].seen, active)
         /\ MarkClosed(h) => Local(h, IF Flushes(h) THEN "root" ELSE "done",
                                   hook[h].seen, hook[h].mine)
         /\ CleanUp(h) =>
              CASE hook[h].mine = NoTurn ->
                     Local(h, IF ev[h].kind = "stop" THEN "done" ELSE "wipe", hook[h].seen, NoTurn)
                [] hook[h].mine # NoTurn /\ Flushes(h) ->
                     Local(h, AfterFlush(ev[h]), hook[h].seen, NoTurn)
                [] OTHER -> Local(h, "mark", hook[h].seen, hook[h].mine)
         /\ ResetNogen(h) => Local(h, "save", hook[h].seen, hook[h].mine)
         /\ SaveRoot(h) => Local(h, IF ev[h].kind = "prompt" THEN "save" ELSE "done",
                                 hook[h].seen, hook[h].mine)
         /\ SaveTurn(h) => Local(h, "done", hook[h].seen, hook[h].mine)
         /\ EndSession(h) => Local(h, IF ev[h].gen = NoGen THEN "wipe" ELSE "clean",
                                   hook[h].seen, hook[h].mine)
         /\ RemoveActive(h) => Local(h, "done", hook[h].seen, hook[h].mine)
<1>1. hook[h] \in HookType /\ active \in Turn \cup {NoTurn}
  BY DEF StateType
<1>2. /\ {"done", "mark", "root", "wipe", "save", "clean"} \subseteq Stages
      /\ AfterFlush(ev[h]) \in Stages
  BY StagesType DEF Stages
<1>3. ASSUME Flush(h)
      PROVE  Local(h, IF active = NoTurn THEN AfterFlush(ev[h]) ELSE "mark", hook[h].seen, active)
  <2> DEFINE l == [hook[h] EXCEPT !.mine = active]
             s == IF active = NoTurn THEN AfterFlush(ev[h]) ELSE "mark"
  <2>1. l \in HookType /\ l.seen = hook[h].seen /\ l.mine = active
    BY <1>1 DEF HookType
  <2>2. s \in Stages /\ Continue(h, s, l)
    BY <1>2, <1>3 DEF Flush
  <2> HIDE DEF l, s
  <2>3. Local(h, s, hook[h].seen, active)
    BY <2>1, <2>2, LocalOfContinue
  <2> QED
    BY <2>3 DEF s
<1>4. ASSUME MarkClosed(h)
      PROVE  Local(h, IF Flushes(h) THEN "root" ELSE "done", hook[h].seen, hook[h].mine)
  <2>1. Goto(h, IF Flushes(h) THEN "root" ELSE "done")
    BY <1>4 DEF MarkClosed, AfterMark
  <2> QED
    BY <1>2, <2>1, LocalOfGoto
<1>5. ASSUME CleanUp(h)
      PROVE  CASE hook[h].mine = NoTurn ->
                    Local(h, IF ev[h].kind = "stop" THEN "done" ELSE "wipe", hook[h].seen, NoTurn)
               [] hook[h].mine # NoTurn /\ Flushes(h) ->
                    Local(h, AfterFlush(ev[h]), hook[h].seen, NoTurn)
               [] OTHER -> Local(h, "mark", hook[h].seen, hook[h].mine)
  <2> DEFINE l == [hook[h] EXCEPT !.mine = NoTurn]
             s == IF ev[h].kind = "stop" THEN "done" ELSE "wipe"
  <2>1. l \in HookType /\ l.seen = hook[h].seen /\ l.mine = NoTurn
    BY <1>1 DEF HookType
  <2>2. CASE hook[h].mine = NoTurn
    <3>1. Goto(h, s) /\ s \in Stages
      BY <1>2, <1>5, <2>2 DEF CleanUp
    <3> HIDE DEF s
    <3>2. Local(h, s, hook[h].seen, hook[h].mine)
      BY <3>1, LocalOfGoto
    <3> QED
      BY <2>2, <3>2 DEF s
  <2>3. CASE hook[h].mine # NoTurn /\ Flushes(h)
    <3>1. Continue(h, AfterFlush(ev[h]), l)
      BY <1>5, <2>3 DEF CleanUp
    <3> HIDE DEF l
    <3>2. Local(h, AfterFlush(ev[h]), hook[h].seen, NoTurn)
      BY <1>2, <2>1, <3>1, LocalOfContinue
    <3> QED
      BY <2>3, <3>2
  <2>4. CASE hook[h].mine # NoTurn /\ ~Flushes(h)
    <3>1. Goto(h, "mark")
      BY <1>5, <2>4 DEF CleanUp
    <3>2. Local(h, "mark", hook[h].seen, hook[h].mine)
      BY <1>2, <3>1, LocalOfGoto
    <3> QED
      BY <2>4, <3>2
  <2> QED
    BY <2>2, <2>3, <2>4
<1>6. ResetNogen(h) => Local(h, "save", hook[h].seen, hook[h].mine)
  BY <1>2, LocalOfGoto DEF ResetNogen
<1>7. SaveRoot(h) => Local(h, IF ev[h].kind = "prompt" THEN "save" ELSE "done",
                           hook[h].seen, hook[h].mine)
  BY <1>2, LocalOfGoto DEF SaveRoot
<1>8. SaveTurn(h) => Local(h, "done", hook[h].seen, hook[h].mine)
  BY <1>2, LocalOfGoto DEF SaveTurn
<1>9. EndSession(h) => Local(h, IF ev[h].gen = NoGen THEN "wipe" ELSE "clean",
                             hook[h].seen, hook[h].mine)
  BY <1>2, LocalOfGoto DEF EndSession
<1>10. RemoveActive(h) => Local(h, "done", hook[h].seen, hook[h].mine)
  BY <1>2, LocalOfGoto DEF RemoveActive
<1> QED
  BY <1>3, <1>4, <1>5, <1>6, <1>7, <1>8, <1>9, <1>10

(* An operation that fails, by the stage it is at.                         *)
FailedTo(h, s) ==
  LET at == hook[h].at
      e == ev[h]
  IN \/ at = "get" /\ s = "readRoot"
     \/ at = "check" /\ s = (IF e.kind = "stop" THEN "done" ELSE "alias")
     \/ at = "alias" /\ s = Handle(e, hook[h].seen)
     \/ at = "append" /\ s = NotAppended(e)
     \/ at = "late" /\ s = "push"
     \/ at = "hash" /\ s = "send"
     \/ at = "claim" /\ s = AfterClaim(e, hook[h].seen)
     \/ at \in {"clear", "wipe"} /\ s = "done"
     \/ at = "flush" /\ s = AfterFlush(e)
     \/ at = "mark" /\ s = (IF Flushes(h) THEN "root" ELSE "done")
     \/ at = "reset" /\ s = "save"

LEMMA OtherLocal ==
  ASSUME StateType, Resolved, NEW h \in Hooks
  PROVE  /\ FailOperation(h) =>
              \/ \E s \in Stages : FailedTo(h, s) /\ Local(h, s, hook[h].seen, hook[h].mine)
              \/ hook[h].at = "save" /\ NewTurn(h) \in Turn /\ Local(h, "root", hook[h].seen, NewTurn(h))
         /\ Crash(h) => Local(h, "done", hook[h].seen, hook[h].mine)
         /\ \A k \in Kinds, g \in AnyGen, x \in Texts \cup {NoText} :
              Start(h, k, g, x) => /\ Local(h, First(k), NoTurn, hook[h].mine)
                                   /\ ev' = [ev EXCEPT ![h] = [kind |-> k, gen |-> g, text |-> x]]
<1>1. hook[h] \in HookType /\ ev[h] \in Event
  BY DEF StateType
<1>2. {"done", "root"} \subseteq Stages
  BY DEF Stages
<1>3. ASSUME FailOperation(h)
      PROVE  \/ \E s \in Stages : FailedTo(h, s) /\ Local(h, s, hook[h].seen, hook[h].mine)
             \/ hook[h].at = "save" /\ NewTurn(h) \in Turn /\ Local(h, "root", hook[h].seen, NewTurn(h))
  <2> DEFINE l == [hook[h] EXCEPT !.mine = NewTurn(h)]
  <2>1. CASE hook[h].at # "save"
    <3>1. \E s : FailedTo(h, s) /\ Goto(h, s)
      BY <1>3, <2>1, Zenon DEF FailOperation, FailedTo, AfterMark
    <3>2. PICK s : FailedTo(h, s) /\ Goto(h, s)
      BY <3>1
    <3>3. s \in Stages
      BY <3>2, StagesType DEF FailedTo, Stages
    <3> QED
      BY <3>2, <3>3, LocalOfGoto
  <2>2. CASE hook[h].at = "save"
    <3>1. NewTurn(h) \in Turn
      BY <1>1, EmptySeq DEF NewTurn, Turn, Event
    <3>2. Continue(h, "root", l)
      BY <1>3, <2>2 DEF FailOperation
    <3>3. l \in HookType /\ l.seen = hook[h].seen /\ l.mine = NewTurn(h)
      BY <1>1, <3>1 DEF HookType
    <3> HIDE DEF l
    <3> QED
      BY <1>2, <2>2, <3>1, <3>2, <3>3, LocalOfContinue
  <2> QED
    BY <2>1, <2>2
<1>4. Crash(h) => Local(h, "done", hook[h].seen, hook[h].mine)
  BY <1>2, LocalOfGoto DEF Crash
<1>5. ASSUME NEW k \in Kinds, NEW g \in AnyGen, NEW x \in Texts \cup {NoText}, Start(h, k, g, x)
      PROVE  /\ Local(h, First(k), NoTurn, hook[h].mine)
             /\ ev' = [ev EXCEPT ![h] = [kind |-> k, gen |-> g, text |-> x]]
  <2>1. hook[h].seen = NoTurn
    BY <1>5 DEF Start, Resolved, Knows
  <2>2. First(k) \in Stages /\ Goto(h, First(k))
    BY <1>5, StagesType DEF Start, Stages
  <2> QED
    BY <1>5, <2>1, <2>2, LocalOfGoto DEF Start
<1> QED
  BY <1>3, <1>4, <1>5

LEMMA PathsStep ==
  ASSUME Paths, NEW h \in Hooks, NEW s, NEW t, NEW m, Local(h, s, t, m),
         \A o \in Hooks : o # h => ev'[o] = ev[o],
         s \in StagesOf(ev'[h].kind) \cup {"done"},
         ev'[h].kind = "prompt" /\ s \in Closing => m # NoTurn
  PROVE  Paths'
<1>1. \A o \in Hooks : o # h => OnPath(ev[o], hook[o])'
  BY DEF Paths, Local
<1>2. OnPath(ev'[h], hook'[h])
  BY DEF OnPath, Local, Closing
<1> QED
  BY <1>1, <1>2 DEF Paths

(* Handlers stay on their paths.                                           *)
LEMMA NextPaths ==
  ASSUME StateType, Resolved, Paths, [Next]_vars
  PROVE  Paths'
<1>1. CASE UNCHANGED vars
  BY <1>1 DEF vars, Paths
<1>2. CASE Next
  <2>1. PICK h \in Hooks :
          \/ \E k \in Kinds, g \in AnyGen, x \in Texts \cup {NoText} : Start(h, k, g, x)
          \/ Step(h) \/ FailOperation(h) \/ Crash(h)
    BY <1>2 DEF Next
  <2>2. ev[h] \in Event /\ ev[h].kind \in Kinds
    BY DEF StateType, Event
  <2> DEFINE k == ev[h].kind
             at == hook[h].at
  <2>3. at \notin {"new", "done"} =>
          at \in StagesOf(k) /\ (k = "prompt" /\ at \in Closing => hook[h].mine # NoTurn)
    BY DEF Paths, OnPath
  <2>4. \A t, taken :
          /\ NotAppended(ev[h]) \in {"send", "late"}
          /\ Standalone(ev[h], taken) \in {"llm", "stop"}
          /\ AfterClaim(ev[h], t) \in {"clear", "pop", "llm", "stop"}
          /\ AfterFlush(ev[h]) \in {"end", "reset", "saveRoot"}
          /\ AfterFlush(ev[h]) = "end" <=> ev[h].kind = "sessionEnd"
          /\ "get" \in StagesOf(k) => Handle(ev[h], t) \in StagesOf(k) \cup {"done"}
    BY <2>2, Branches
  <2>5. \A t : Handle(ev[h], t) \notin Closing
    BY <2>4 DEF Handle, Closing
  <2>6. CASE GetActive(h) \/ CheckMarked(h) \/ ReadRoot(h) \/ CheckLate(h)
    <3>1. at \in {"get", "check", "readRoot", "late"} /\ UNCHANGED ev
      BY <2>6 DEF GetActive, CheckMarked, ReadRoot, CheckLate
    <3>2. k # "prompt"
      BY <2>2, <2>3, <3>1 DEF StagesOf, Resolves
    <3>3. at # "late" => "get" \in StagesOf(k)
      BY <2>2, <2>3, <3>1, StageKinds
    <3>4. "get" \in StagesOf(k) => "readRoot" \in StagesOf(k) /\ "check" \in StagesOf(k)
                                   /\ (k = "stop" \/ "alias" \in StagesOf(k))
      BY <2>2 DEF StagesOf, Resolves, Kinds
    <3>5. at = "late" => "push" \in StagesOf(k)
      BY <2>2, <2>3 DEF StagesOf, Resolves, Kinds
    <3>6. PICK s \in StagesOf(k) \cup {"done"} : \E t \in Turn \cup {NoTurn} : Local(h, s, t, hook[h].mine)
      BY <2>4, <2>6, <3>1, <3>3, <3>4, <3>5, ReadingLocal
         DEF GetActive, CheckMarked, ReadRoot, CheckLate, StateType, HookType
    <3> QED
      BY <3>1, <3>2, <3>6, PathsStep
  <2>7. CASE RecordAlias(h) \/ AddResponse(h) \/ AddThought(h)
    <3>1. at \in {"alias", "append", "hash"} /\ UNCHANGED ev
      BY <2>7 DEF RecordAlias, AddResponse, AddThought
    <3>2. /\ at = "alias" => "get" \in StagesOf(k)
          /\ at = "append" => {"send", "late"} \subseteq StagesOf(k)
          /\ at = "hash" => "send" \in StagesOf(k)
          /\ k # "prompt"
      BY <2>2, <2>3, <3>1 DEF StagesOf, Resolves, Kinds
    <3>3. PICK s \in StagesOf(k) \cup {"done"} : \E t : Local(h, s, t, hook[h].mine)
      <4>1. CASE RecordAlias(h)
        BY <2>4, <3>2, <4>1, WritingLocal DEF RecordAlias
      <4>2. CASE AddResponse(h)
        BY <2>4, <3>2, <4>2, WritingLocal DEF AddResponse
      <4>3. CASE AddThought(h)
        BY <3>2, <4>3, WritingLocal DEF AddThought
      <4> QED
        BY <2>7, <4>1, <4>2, <4>3
    <3> QED
      BY <3>1, <3>2, <3>3, PathsStep
  <2>8. CASE Push(h) \/ Pop(h) \/ SendPoint(h)
    <3>1. at \in {"push", "pop", "send"} /\ UNCHANGED ev
      BY <2>8 DEF Push, Pop, SendPoint
    <3>2. /\ at = "pop" => k \in {"after", "stop"}
          /\ k = "after" => "send" \in StagesOf(k)
          /\ k = "stop" => {"pop", "llm", "stop"} \subseteq StagesOf(k)
          /\ k = "sessionStart" => "saveRoot" \in StagesOf(k)
          /\ k # "prompt"
      BY <2>2, <2>3, <3>1 DEF StagesOf, Resolves, Kinds
    <3>3. PICK s \in StagesOf(k) \cup {"done"} : Local(h, s, hook[h].seen, hook[h].mine)
      <4>1. CASE Push(h)
        BY <4>1, WritingLocal
      <4>2. CASE Pop(h)
        <5>1. PICK s \in IF k = "after" THEN {"send"} ELSE {"pop", "llm", "stop"} :
                 Local(h, s, hook[h].seen, hook[h].mine)
          BY <4>2, WritingLocal
        <5>2. at = "pop"
          BY <4>2 DEF Pop
        <5> QED
          BY <3>2, <5>1, <5>2
      <4>3. CASE SendPoint(h)
        BY <3>2, <4>3, WritingLocal
      <4> QED
        BY <2>8, <4>1, <4>2, <4>3
    <3> QED
      BY <3>1, <3>2, <3>3, PathsStep
  <2>9. CASE Claim(h) \/ ClearIfMatches(h) \/ SendRoot(h) \/ SendLlm(h) \/ SendStop(h)
    <3>1. /\ at \in {"claim", "clear", "root", "llm", "stop"} /\ UNCHANGED ev
          /\ Claim(h) => at = "claim"
          /\ ClearIfMatches(h) => at = "clear"
          /\ SendRoot(h) => at = "root"
          /\ SendLlm(h) => at = "llm"
          /\ SendStop(h) => at = "stop"
      BY <2>9 DEF Claim, ClearIfMatches, SendRoot, SendLlm, SendStop
    <3>2. /\ at \in {"claim", "clear", "stop"} => k = "stop"
          /\ at \in {"root", "llm"} => k \in {"stop", "prompt", "sessionEnd"}
          /\ k = "stop" => {"clear", "pop", "root", "llm", "stop", "clean"} \subseteq StagesOf(k)
          /\ k \in {"prompt", "sessionEnd"} => {"llm", "clean"} \subseteq StagesOf(k)
      BY <2>2, <2>3, <3>1 DEF StagesOf, Resolves, Kinds
    <3>3. PICK s \in StagesOf(k) \cup {"done"} :
            \E m : Local(h, s, hook[h].seen, m) /\ (k = "prompt" => m = hook[h].mine)
      <4>1. CASE Claim(h)
        BY <2>4, <3>1, <3>2, <4>1, StopLocal
      <4>2. CASE ClearIfMatches(h)
        BY <3>1, <3>2, <4>2, StopLocal
      <4>3. CASE SendRoot(h) \/ SendLlm(h) \/ SendStop(h)
        BY <3>1, <3>2, <4>3, StopLocal
      <4> QED
        BY <2>9, <4>1, <4>2, <4>3
    <3>4. k = "prompt" => at \in Closing
      BY <3>1, <3>2 DEF Closing
    <3> QED
      BY <2>3, <3>1, <3>3, <3>4, PathsStep DEF Closing
  <2>10. CASE \/ Flush(h) \/ MarkClosed(h) \/ CleanUp(h) \/ ResetNogen(h)
              \/ SaveRoot(h) \/ SaveTurn(h) \/ EndSession(h) \/ RemoveActive(h)
    <3>1. /\ UNCHANGED ev
          /\ Flush(h) => at = "flush"
          /\ MarkClosed(h) => at = "mark"
          /\ CleanUp(h) => at = "clean"
          /\ ResetNogen(h) => at = "reset"
          /\ SaveRoot(h) => at = "saveRoot"
          /\ EndSession(h) => at = "end"
      BY <2>10 DEF Flush, MarkClosed, CleanUp, ResetNogen, SaveRoot, SaveTurn, EndSession,
                   RemoveActive
    <3>2. /\ at \in {"flush", "reset", "end"} => k \in {"prompt", "sessionEnd"}
          /\ at \in {"mark", "clean"} => k \in {"stop", "prompt", "sessionEnd"}
          /\ at = "end" => k = "sessionEnd"
          /\ at = "reset" => k = "prompt"
          /\ k = "stop" => {"root", "mark"} \subseteq StagesOf(k)
          /\ k = "prompt" => {"mark", "root", "reset", "saveRoot", "save"} \subseteq StagesOf(k)
          /\ k = "sessionEnd" => {"mark", "root", "end", "wipe", "clean"} \subseteq StagesOf(k)
          /\ k = "sessionEnd" => "saveRoot" \notin StagesOf(k)
      BY <2>2, <2>3, <3>1 DEF StagesOf, Resolves, Kinds
    <3>3. /\ k = "sessionEnd" => AfterFlush(ev[h]) = "end"
          /\ k = "prompt" => AfterFlush(ev[h]) \in {"reset", "saveRoot"}
      BY <2>4
    <3>4. Flushes(h) => k # "stop"
      BY DEF Flushes
    <3>5. PICK s \in StagesOf(k) \cup {"done"} :
            \E t, m : Local(h, s, t, m) /\ (k = "prompt" /\ s \in Closing => m # NoTurn)
      <4>1. CASE Flush(h)
        BY <3>1, <3>2, <3>3, <4>1, ClosingLocal DEF Closing
      <4>2. CASE MarkClosed(h)
        <5>1. at \in Closing /\ at \notin {"new", "done"} /\ k \in {"stop", "prompt", "sessionEnd"}
          BY <3>1, <3>2, <4>2 DEF Closing
        <5>2. PICK s \in {"root", "done"} : Local(h, s, hook[h].seen, hook[h].mine)
          BY <4>2, ClosingLocal
        <5>3. s \in StagesOf(k) \cup {"done"}
          BY <3>2, <5>1, <5>2
        <5> QED
          BY <2>3, <5>1, <5>2, <5>3
      <4>3. CASE CleanUp(h)
        <5>1. at \in Closing /\ at \notin {"new", "done"} /\ k \in {"stop", "prompt", "sessionEnd"}
          BY <3>1, <3>2, <4>3 DEF Closing
        <5>2. CASE hook[h].mine = NoTurn
          <6>1. Local(h, IF k = "stop" THEN "done" ELSE "wipe", hook[h].seen, NoTurn)
            BY <4>3, <5>2, ClosingLocal
          <6>2. k # "prompt"
            BY <2>3, <5>1, <5>2
          <6> QED
            BY <3>2, <5>1, <6>1, <6>2
        <5>3. CASE hook[h].mine # NoTurn /\ Flushes(h)
          <6>1. Local(h, AfterFlush(ev[h]), hook[h].seen, NoTurn)
            BY <4>3, <5>3, ClosingLocal
          <6>2. AfterFlush(ev[h]) \notin Closing /\ AfterFlush(ev[h]) \in StagesOf(k)
            BY <2>4, <3>2, <3>3, <3>4, <5>1, <5>3 DEF Closing
          <6> QED
            BY <6>1, <6>2
        <5>4. CASE hook[h].mine # NoTurn /\ ~Flushes(h)
          <6>1. Local(h, "mark", hook[h].seen, hook[h].mine)
            BY <4>3, <5>4, ClosingLocal
          <6>2. "mark" \in StagesOf(k)
            BY <3>2, <5>1
          <6> QED
            BY <5>4, <6>1, <6>2
        <5> QED
          BY <5>2, <5>3, <5>4
      <4>4. CASE ResetNogen(h) \/ SaveRoot(h) \/ SaveTurn(h) \/ EndSession(h) \/ RemoveActive(h)
        <5>1. PICK s \in {"save", "done", "wipe", "clean"} :
                /\ Local(h, s, hook[h].seen, hook[h].mine)
                /\ s = "save" => k = "prompt"
                /\ s \in {"wipe", "clean"} => k = "sessionEnd"
          BY <3>1, <3>2, <4>4, ClosingLocal
        <5>2. s \in StagesOf(k) \cup {"done"} /\ (k = "prompt" => s \notin Closing)
          BY <3>2, <5>1 DEF Closing
        <5> QED
          BY <5>1, <5>2
      <4> QED
        BY <2>10, <4>1, <4>2, <4>3, <4>4
    <3> QED
      BY <3>1, <3>5, PathsStep
  <2>11. CASE \E j \in Kinds, g \in AnyGen, x \in Texts \cup {NoText} : Start(h, j, g, x)
    <3>1. PICK j \in Kinds, g \in AnyGen, x \in Texts \cup {NoText} : Start(h, j, g, x)
      BY <2>11
    <3>2. Local(h, First(j), NoTurn, hook[h].mine)
      BY <3>1, OtherLocal
    <3>3. ev' = [ev EXCEPT ![h] = [kind |-> j, gen |-> g, text |-> x]]
      BY <3>1, OtherLocal
    <3>4. ev'[h].kind = j /\ \A o \in Hooks : o # h => ev'[o] = ev[o]
      BY <3>3 DEF StateType
    <3>5. First(j) \in StagesOf(j) /\ First(j) \notin Closing
      BY DEF First, StagesOf, Kinds, Resolves, Closing
    <3> QED
      BY <3>2, <3>4, <3>5, PathsStep
  <2>12. CASE FailOperation(h)
    <3>1. UNCHANGED ev
      BY <2>12 DEF FailOperation
    <3>2. CASE \E s \in Stages : FailedTo(h, s) /\ Local(h, s, hook[h].seen, hook[h].mine)
      <4>1. PICK s \in Stages : FailedTo(h, s) /\ Local(h, s, hook[h].seen, hook[h].mine)
        BY <3>2
      <4>2. at \notin {"new", "done"}
        BY <4>1 DEF FailedTo
      <4>3. /\ at \in {"get", "check", "alias"} => "get" \in StagesOf(k)
            /\ "get" \in StagesOf(k) => "readRoot" \in StagesOf(k)
            /\ at = "check" => k = "stop" \/ "alias" \in StagesOf(k)
            /\ at = "append" => {"send", "late"} \subseteq StagesOf(k)
            /\ at = "late" => "push" \in StagesOf(k)
            /\ at = "hash" => "send" \in StagesOf(k)
            /\ at \in {"claim", "clear"} => k = "stop"
            /\ at \in {"flush", "reset"} => k \in {"prompt", "sessionEnd"}
            /\ at = "reset" => k = "prompt"
            /\ at = "mark" => k \in {"stop", "prompt", "sessionEnd"}
        BY <2>2, <2>3, <4>2 DEF StagesOf, Resolves, Kinds
      <4>4. /\ k = "stop" => {"clear", "pop", "llm", "stop", "root"} \subseteq StagesOf(k)
            /\ k = "prompt" => {"root", "reset", "saveRoot", "save"} \subseteq StagesOf(k)
            /\ k = "sessionEnd" => {"end", "root"} \subseteq StagesOf(k)
        BY DEF StagesOf
      <4>5. /\ k = "sessionEnd" => AfterFlush(ev[h]) = "end"
            /\ k = "prompt" => AfterFlush(ev[h]) \in {"reset", "saveRoot"}
        BY <2>4
      <4>6. CASE at \in {"get", "check", "alias"}
        <5>1. s \in StagesOf(k) \cup {"done"}
          BY <2>4, <4>1, <4>3, <4>6 DEF FailedTo
        <5>2. k # "prompt"
          BY <2>2, <4>3, <4>6, StageKinds
        <5> QED
          BY <3>1, <4>1, <5>1, <5>2, PathsStep
      <4>7. CASE at \in {"append", "late", "hash", "claim", "clear", "wipe"}
        <5>1. s \in StagesOf(k) \cup {"done"}
          BY <2>4, <4>1, <4>3, <4>4, <4>7 DEF FailedTo
        <5>2. k # "prompt"
          BY <2>2, <2>3, <4>7 DEF StagesOf
        <5> QED
          BY <3>1, <4>1, <5>1, <5>2, PathsStep
      <4>8. CASE at \in {"flush", "reset"}
        <5>1. s \in StagesOf(k) /\ s \notin Closing
          BY <2>4, <4>1, <4>3, <4>4, <4>5, <4>8 DEF FailedTo, Closing
        <5> QED
          BY <3>1, <4>1, <5>1, PathsStep
      <4>9. CASE at = "mark"
        <5>1. s \in StagesOf(k) \cup {"done"} /\ (k = "prompt" => hook[h].mine # NoTurn)
          BY <2>3, <4>1, <4>3, <4>4, <4>9 DEF FailedTo, Closing
        <5> QED
          BY <3>1, <4>1, <5>1, PathsStep
      <4> QED
        BY <4>1, <4>6, <4>7, <4>8, <4>9 DEF FailedTo
    <3>3. CASE hook[h].at = "save" /\ NewTurn(h) \in Turn /\ Local(h, "root", hook[h].seen, NewTurn(h))
      <4>1. k = "prompt"
        BY <2>2, <2>3, <3>3, StageKinds
      <4>2. "root" \in StagesOf(k) /\ NewTurn(h) # NoTurn
        BY <3>3, <4>1, NoTurnAssumption DEF StagesOf
      <4> QED
        BY <3>1, <3>3, <4>2, PathsStep
    <3> QED
      BY <2>12, <3>2, <3>3, OtherLocal
  <2>13. CASE Crash(h)
    <3>1. UNCHANGED ev /\ Local(h, "done", hook[h].seen, hook[h].mine)
      BY <2>13, OtherLocal DEF Crash
    <3> QED
      BY <3>1, PathsStep DEF Closing
  <2> QED
    BY <2>1, <2>6, <2>7, <2>8, <2>9, <2>10, <2>11, <2>12, <2>13 DEF Step
<1> QED
  BY <1>1, <1>2

-----------------------------------------------------------------------------
(* Ids and markers *)

(* No marker has been pushed out: the list has room for every generation   *)
(* that an event has carried so far.                                       *)
Few == Cardinality(used) <= Cap.markers

(* The ids of a turn are different, and events have carried them.          *)
KnownTurn(t) ==
  t # NoTurn => Distinct(t.aliases) /\ t.gen \notin Elems(t.aliases) /\ Ids(t) \subseteq used

MarkersKnown ==
  /\ markers \in Seq(Gens) /\ Len(markers) <= Cap.markers
  /\ Distinct(markers) /\ Elems(markers) \subseteq used

IdsKnown ==
  /\ used \subseteq Gens /\ IsFiniteSet(used)
  /\ \A h \in Hooks : hook[h].at # "new" => ev[h].gen \in used \cup {NoGen}
  /\ KnownTurn(active)
  /\ \A h \in Hooks : KnownTurn(hook[h].seen) /\ KnownTurn(hook[h].mine)
  /\ MarkersKnown

(* The list of a turn's ids, and that of a stop.                           *)
LEMMA IdListParts ==
  ASSUME NEW t \in Turn
  PROVE  /\ IdList(t) \in Seq(Gens) /\ Elems(IdList(t)) = Ids(t) /\ Ids(t) \subseteq Gens
         /\ KnownTurn(t) => Distinct(IdList(t))
<1> DEFINE q == IF t.gen = NoGen THEN <<>> ELSE <<t.gen>>
<1>1. t.aliases \in Seq(Gens) /\ t.gen \in AnyGen /\ Elems(t.aliases) \subseteq Gens
  <2>1. t.aliases \in Seq(Gens) /\ t.gen \in AnyGen
    BY DEF Turn
  <2>2. \A i \in DOMAIN t.aliases : t.aliases[i] \in Gens
    BY <2>1, LenProperties, ElementOfSeq
  <2> QED
    BY <2>1, <2>2 DEF Elems
<1>2. q \in Seq(Gens) /\ Elems(q) = {t.gen} \ {NoGen} /\ Distinct(q)
  <2>1. CASE t.gen = NoGen
    <3>1. q = <<>> /\ DOMAIN q = {}
      BY <2>1, EmptySeq
    <3> QED
      BY <2>1, <3>1, EmptySeq, Zenon DEF Elems, Distinct
  <2>2. CASE t.gen # NoGen
    <3>1. q = <<t.gen>> /\ t.gen \in Gens
      BY <1>1, <2>2 DEF AnyGen
    <3>2. q \in Seq(Gens) /\ DOMAIN q = {1} /\ q[1] = t.gen
      BY <3>1
    <3> HIDE DEF q
    <3> QED
      BY <2>2, <3>2 DEF Elems, Distinct
  <2> QED
    BY <2>1, <2>2
<1> HIDE DEF q
<1>3. q \o t.aliases \in Seq(Gens) /\ Elems(q \o t.aliases) = Elems(q) \cup Elems(t.aliases)
  BY <1>1, <1>2, DistinctConcat
<1>4. IdList(t) = q \o t.aliases
  BY DEF IdList, q
<1>5. Elems(IdList(t)) = Ids(t)
  BY <1>2, <1>3, <1>4 DEF Ids
<1>6. ASSUME KnownTurn(t)
      PROVE  Distinct(IdList(t))
  <2>1. t # NoTurn
    BY NoTurnAssumption
  <2>2. Distinct(t.aliases) /\ Elems(q) \cap Elems(t.aliases) = {}
    BY <1>2, <1>6, <2>1 DEF KnownTurn
  <2>3. Distinct(q \o t.aliases)
    BY <1>1, <1>2, <2>2, DistinctConcat
  <2> QED
    BY <1>4, <2>3
<1>7. Ids(t) \subseteq Gens
  BY <1>1, <1>2, <1>3, <1>5 DEF Ids, AnyGen
<1> QED
  BY <1>3, <1>4, <1>5, <1>6, <1>7

TurnIds(t) == IF t = NoTurn THEN {} ELSE Ids(t)

LEMMA StopIdsParts ==
  ASSUME NEW t \in Turn \cup {NoTurn}, NEW g \in AnyGen
  PROVE  /\ StopIds(t, g) \in Seq(Gens)
         /\ Elems(StopIds(t, g)) = TurnIds(t) \cup ({g} \ {NoGen})
         /\ KnownTurn(t) => Distinct(StopIds(t, g))
<1>1. CASE t = NoTurn /\ g = NoGen
  <2>1. StopIds(t, g) = <<>>
    BY <1>1 DEF StopIds
  <2>2. DOMAIN <<>> = {} /\ <<>> \in Seq(Gens)
    BY EmptySeq
  <2> QED
    BY <1>1, <2>1, <2>2, Zenon DEF Elems, Distinct, TurnIds
<1>2. CASE t = NoTurn /\ g # NoGen
  <2> DEFINE q == <<g>>
  <2>1. StopIds(t, g) = q /\ g \in Gens
    BY <1>2 DEF StopIds, AnyGen
  <2>2. q \in Seq(Gens) /\ DOMAIN q = {1} /\ q[1] = g
    BY <2>1
  <2> HIDE DEF q
  <2> QED
    BY <1>2, <2>1, <2>2 DEF Elems, Distinct, TurnIds
<1>3. CASE t \in Turn /\ Matches(t, g)
  <2>1. t # NoTurn
    BY <1>3, NoTurnAssumption
  <2>2. StopIds(t, g) = IdList(t)
    BY <1>3, <2>1 DEF StopIds
  <2>3. {g} \ {NoGen} \subseteq Ids(t)
    BY <1>3 DEF Matches
  <2>4. /\ IdList(t) \in Seq(Gens) /\ Elems(IdList(t)) = Ids(t)
        /\ KnownTurn(t) => Distinct(IdList(t))
    BY <1>3, IdListParts
  <2> QED
    BY <2>1, <2>2, <2>3, <2>4 DEF TurnIds
<1>4. CASE t \in Turn /\ ~Matches(t, g)
  <2>1. t # NoTurn
    BY <1>4, NoTurnAssumption
  <2>2. StopIds(t, g) = Append(IdList(t), g) /\ g # NoGen /\ g \in Gens /\ g \notin Ids(t)
    BY <1>4, <2>1 DEF StopIds, Matches, AnyGen
  <2>3. /\ IdList(t) \in Seq(Gens) /\ Elems(IdList(t)) = Ids(t)
        /\ KnownTurn(t) => Distinct(IdList(t))
    BY <1>4, IdListParts
  <2>4. /\ Append(IdList(t), g) \in Seq(Gens)
        /\ Elems(Append(IdList(t), g)) = Ids(t) \cup {g}
        /\ KnownTurn(t) => Distinct(Append(IdList(t), g))
    BY <2>2, <2>3, AppendProperties, ElemsAppend, DistinctAppend
  <2> QED
    BY <2>1, <2>2, <2>4 DEF TurnIds
<1> QED
  BY <1>1, <1>2, <1>3, <1>4

LEMMA UnmarkedParts ==
  ASSUME NEW ids \in Seq(Gens)
  PROVE  /\ Unmarked(ids) \in Seq(Gens)
         /\ Elems(Unmarked(ids)) = Elems(ids) \ Elems(markers)
         /\ Distinct(ids) => Distinct(Unmarked(ids))
<1> DEFINE I == {i \in DOMAIN ids : ~IsMarked(ids[i])}
           q == ElementsAt(ids, I)
<1>1. I \in SUBSET DOMAIN ids
  OBVIOUS
<1>2. /\ q \in Seq(Gens)
      /\ \A n \in DOMAIN q : Nth(I, n) \in I /\ q[n] = ids[Nth(I, n)]
      /\ \A i \in I : \E n \in DOMAIN q : Nth(I, n) = i
      /\ \A n, k \in DOMAIN q : Nth(I, n) < Nth(I, k) <=> n < k
  <2> HIDE DEF I
  <2> QED
    BY <1>1, ElementsOfPositions
<1>3. \A i \in DOMAIN ids : i \in I <=> ids[i] \notin Elems(markers)
  BY DEF IsMarked
<1>4. DOMAIN q \subseteq Int /\ I \subseteq Int
  <2>1. DOMAIN q = 1 .. Len(q) /\ DOMAIN ids = 1 .. Len(ids) /\ Len(q) \in Nat /\ Len(ids) \in Nat
    BY <1>2, LenProperties
  <2> HIDE DEF q, I
  <2> QED
    BY <1>1, <2>1
<1> HIDE DEF q, I
<1>5. Elems(q) = Elems(ids) \ Elems(markers)
  BY <1>1, <1>2, <1>3 DEF Elems
<1>6. Distinct(ids) => Distinct(q)
  <2> SUFFICES ASSUME Distinct(ids), NEW n \in DOMAIN q, NEW k \in DOMAIN q, q[n] = q[k]
               PROVE  n = k
    BY DEF Distinct
  <2>1. Nth(I, n) \in I /\ Nth(I, k) \in I /\ ids[Nth(I, n)] = ids[Nth(I, k)]
    BY <1>2
  <2>2. Nth(I, n) = Nth(I, k) /\ Nth(I, n) \in Int
    BY <1>1, <1>4, <2>1 DEF Distinct
  <2>3. ~(n < k) /\ ~(k < n)
    BY <1>2, <2>2
  <2> QED
    BY <1>4, <2>3
<1>7. Unmarked(ids) = q
  BY DEF Unmarked, q, I
<1> QED
  BY <1>2, <1>5, <1>6, <1>7

(* What terminal_turn_mark_many does to the markers.                       *)
LEMMA MarkWrites ==
  ASSUME IdsKnown, NEW ids \in Seq(Gens), Distinct(ids), Elems(ids) \subseteq used,
         Mark(ids), used' = used
  PROVE  MarkersKnown' /\ (Few => Elems(markers') = Elems(markers) \cup Elems(ids))
<1> DEFINE q == markers \o Unmarked(ids)
<1>1. /\ Unmarked(ids) \in Seq(Gens) /\ Distinct(Unmarked(ids))
      /\ Elems(Unmarked(ids)) = Elems(ids) \ Elems(markers)
  BY UnmarkedParts
<1>2. markers \in Seq(Gens) /\ Distinct(markers) /\ Elems(markers) \subseteq used
  BY DEF IdsKnown, MarkersKnown
<1>3. q \in Seq(Gens) /\ Elems(q) = Elems(markers) \cup Elems(ids) /\ Distinct(q)
  BY <1>1, <1>2, DistinctConcat
<1>4. Cap.markers \in Nat \ {0} /\ markers' = Capped(q, Cap.markers)
  BY CursorAssumption DEF Mark
<1>5. q \in Seq(used)
  BY <1>2, <1>3, ElemsCover
<1> HIDE DEF q
<1>6. /\ markers' \in Seq(Gens) /\ Len(markers') <= Cap.markers /\ Distinct(markers')
      /\ Elems(markers') \subseteq Elems(q)
      /\ Len(q) <= Cap.markers => markers' = q
  BY <1>3, <1>4, CappedType, CappedParts, ElemsCapped
<1>7. IsFiniteSet(used) /\ Cardinality(used) \in Nat
  BY FS_CardinalityType DEF IdsKnown
<1>8. Len(q) <= Cardinality(used) /\ Len(q) \in Nat
  BY <1>3, <1>5, <1>7, DistinctShort, LenProperties
<1>9. Few => Len(q) <= Cap.markers
  BY <1>4, <1>7, <1>8 DEF Few
<1> QED
  BY <1>2, <1>3, <1>6, <1>9 DEF MarkersKnown

(* The turn that RecordAlias leaves: it has the event's id, and at most    *)
(* that one is new.                                                        *)
LEMMA WithAliasParts ==
  ASSUME NEW h \in Hooks, active \in Turn, ev[h].gen \in Gens
  PROVE  /\ WithAlias(h).root = active.root /\ WithAlias(h).gen = active.gen
         /\ Ids(WithAlias(h)) \subseteq Ids(active) \cup {ev[h].gen}
         /\ KnownTurn(active) /\ ev[h].gen \in used => KnownTurn(WithAlias(h))
<1> DEFINE g == ev[h].gen
           q == Append(active.aliases, g)
           r == Capped(q, Cap.aliases)
           t == [active EXCEPT !.aliases = r]
<1>1. active.aliases \in Seq(Gens) /\ Cap.aliases \in Nat \ {0} /\ NoGen \notin Gens
  BY CursorAssumption DEF Turn
<1>2. q \in Seq(Gens) /\ Elems(q) = Elems(active.aliases) \cup {g}
  BY <1>1, AppendProperties, ElemsAppend
<1>3. Elems(r) \subseteq Elems(active.aliases) \cup {g}
  BY <1>1, <1>2, ElemsCapped
<1>4. Distinct(active.aliases) /\ g \notin Elems(active.aliases) => Distinct(r)
  BY <1>1, <1>2, DistinctAppend, CappedParts
<1>5. t.root = active.root /\ t.gen = active.gen /\ t.aliases = r
  BY DEF Turn
<1>6. WithAlias(h) = IF g \in Ids(active) THEN active ELSE t
  BY DEF WithAlias
<1> HIDE DEF q, r, t
<1>7. CASE g \in Ids(active)
  BY <1>6, <1>7
<1>8. CASE g \notin Ids(active)
  <2>1. WithAlias(h) = t
    BY <1>6, <1>8
  <2>2. Ids(t) \subseteq Ids(active) \cup {g}
    BY <1>3, <1>5 DEF Ids
  <2>3. g # active.gen /\ g \notin Elems(active.aliases)
    BY <1>1, <1>8 DEF Ids
  <2>4. ASSUME KnownTurn(active), g \in used
        PROVE  KnownTurn(t)
    <3>1. Distinct(active.aliases) /\ active.gen \notin Elems(active.aliases)
          /\ Ids(active) \subseteq used
      BY <2>4, NoTurnAssumption DEF KnownTurn
    <3>2. Distinct(t.aliases) /\ t.gen \notin Elems(t.aliases)
      BY <1>3, <1>4, <1>5, <2>3, <3>1
    <3> QED
      BY <2>2, <2>4, <3>1, <3>2 DEF KnownTurn
  <2> QED
    BY <1>5, <2>1, <2>2, <2>4
<1> QED
  BY <1>7, <1>8

LEMMA NewTurnKnown ==
  ASSUME NEW h \in Hooks, ev[h].gen \in used \cup {NoGen}
  PROVE  /\ Ids(NewTurn(h)) = {ev[h].gen} \ {NoGen}
         /\ KnownTurn(NewTurn(h))
<1>1. NewTurn(h).aliases = <<>> /\ NewTurn(h).gen = ev[h].gen
  BY DEF NewTurn
<1>2. DOMAIN <<>> = {} /\ <<>> \in Seq(Gens)
  BY EmptySeq
<1>3. Elems(<<>>) = {} /\ Distinct(<<>>)
  BY <1>2, Zenon DEF Elems, Distinct
<1>4. Elems(NewTurn(h).aliases) = {} /\ Distinct(NewTurn(h).aliases)
  BY <1>1, <1>3, Zenon
<1>5. Ids(NewTurn(h)) = {ev[h].gen} \ {NoGen}
  BY <1>1, <1>4 DEF Ids
<1> QED
  BY <1>4, <1>5 DEF KnownTurn

LEMMA KnownStep ==
  ASSUME IdsKnown, NEW h \in Hooks, NEW s, NEW t, NEW m, Local(h, s, t, m),
         hook[h].at # "new", UNCHANGED <<ev, used>>,
         KnownTurn(t), KnownTurn(m), KnownTurn(active'), MarkersKnown'
  PROVE  IdsKnown'
<1>1. used' = used /\ ev' = ev
  OBVIOUS
<1>3. KnownTurn(NoTurn)
  BY DEF KnownTurn
<1>4. \A o \in Hooks : /\ hook'[o].at # "new" => hook[o].at # "new"
                       /\ KnownTurn(hook'[o].seen) /\ KnownTurn(hook'[o].mine)
  BY <1>3 DEF IdsKnown, Local
<1>5. \A o \in Hooks : hook'[o].at # "new" => ev'[o].gen \in used' \cup {NoGen}
  BY <1>1, <1>4 DEF IdsKnown
<1>6. /\ KnownTurn(active)'
      /\ \A o \in Hooks : KnownTurn(hook[o].seen)' /\ KnownTurn(hook[o].mine)'
  BY <1>1, <1>4 DEF KnownTurn, Ids, Elems
<1> QED
  BY <1>1, <1>5, <1>6 DEF IdsKnown

(* The ids of turns are known, and so are the markers; as long as there    *)
(* is room, no marker goes.                                                *)
LEMMA StepKnown ==
  ASSUME StateType, Resolved, Paths, IdsKnown, NEW h \in Hooks, Step(h) \/ FailOperation(h) \/ Crash(h)
  PROVE  IdsKnown' /\ (Few => Elems(markers) \subseteq Elems(markers'))
<1>1. hook[h] \in HookType /\ ev[h] \in Event /\ active \in Turn \cup {NoTurn}
  BY DEF StateType
<1>2. UNCHANGED <<ev, used>>
  BY DEF Step, FailOperation, Crash, history, GetActive, CheckMarked, ReadRoot, RecordAlias,
         AddResponse, CheckLate, Push, Pop, AddThought, SendPoint, Claim, ClearIfMatches, SendRoot,
         SendLlm, SendStop, Flush, MarkClosed, CleanUp, ResetNogen, SaveRoot, SaveTurn, EndSession,
         RemoveActive
<1>3. hook[h].at # "new"
  BY DEF Step, FailOperation, Crash, Running, GetActive, CheckMarked, ReadRoot, RecordAlias,
         AddResponse, CheckLate, Push, Pop, AddThought, SendPoint, Claim, ClearIfMatches, SendRoot,
         SendLlm, SendStop, Flush, MarkClosed, CleanUp, ResetNogen, SaveRoot, SaveTurn, EndSession,
         RemoveActive
<1>4. KnownTurn(active) /\ KnownTurn(hook[h].seen) /\ KnownTurn(hook[h].mine) /\ KnownTurn(NoTurn)
  BY DEF IdsKnown, KnownTurn
<1>5. ev[h].gen \in used \cup {NoGen}
  BY <1>3 DEF IdsKnown
<1>6. markers' = markers => MarkersKnown'
  BY <1>2 DEF IdsKnown, MarkersKnown
<1>7. CASE GetActive(h) \/ CheckMarked(h) \/ ReadRoot(h) \/ CheckLate(h)
  <2>1. UNCHANGED <<active, markers>>
    BY <1>7 DEF GetActive, CheckMarked, ReadRoot, CheckLate, disk
  <2>2. PICK t \in {NoTurn, active, hook[h].seen} : \E s : Local(h, s, t, hook[h].mine)
    BY <1>7, ReadingLocal
  <2>3. KnownTurn(active')
    BY <1>4, <2>1
  <2> QED
    BY <1>2, <1>3, <1>4, <1>6, <2>1, <2>2, <2>3, KnownStep
<1>8. CASE RecordAlias(h)
  <2> DEFINE seen == IF SeenIsActive(h) THEN WithAlias(h) ELSE hook[h].seen
  <2>1. /\ active' = IF SeenIsActive(h) THEN WithAlias(h) ELSE active
        /\ Local(h, Handle(ev[h], seen), seen, hook[h].mine)
    BY <1>8, WritingLocal
  <2>2. markers' = markers
    BY <1>8 DEF RecordAlias
  <2>3. ev[h].gen \in Gens /\ ev[h].gen \in used
    BY <1>1, <1>5, <1>8 DEF RecordAlias, Resolved, Knows, Event, AnyGen
  <2>4. SeenIsActive(h) => KnownTurn(WithAlias(h))
    BY <1>1, <1>4, <2>3, WithAliasParts DEF SeenIsActive
  <2>5. KnownTurn(seen) /\ KnownTurn(active')
    BY <1>4, <2>1, <2>4
  <2> HIDE DEF seen
  <2> QED
    BY <1>2, <1>3, <1>4, <1>6, <2>1, <2>2, <2>5, KnownStep
<1>9. CASE AddResponse(h) \/ AddThought(h)
  <2>1. markers' = markers
    BY <1>9 DEF AddResponse, AddThought
  <2>2. PICK s : Local(h, s, hook[h].seen, hook[h].mine)
    BY <1>9, WritingLocal
  <2>3. \/ active' = active
        \/ /\ active # NoTurn
           /\ active'.gen = active.gen /\ active'.aliases = active.aliases
    BY <1>1, <1>9 DEF AddResponse, AddThought, SeenIsActive, Turn
  <2>4. KnownTurn(active')
    BY <1>4, <2>3 DEF KnownTurn, Ids
  <2> QED
    BY <1>2, <1>3, <1>4, <1>6, <2>1, <2>2, <2>4, KnownStep
<1>10. CASE Push(h) \/ Pop(h) \/ SendPoint(h) \/ Crash(h)
  <2>1. UNCHANGED <<active, markers>>
    BY <1>10 DEF Push, Pop, SendPoint, Crash, disk
  <2>2. PICK s : Local(h, s, hook[h].seen, hook[h].mine)
    BY <1>10, WritingLocal, OtherLocal
  <2>3. KnownTurn(active')
    BY <1>4, <2>1
  <2> QED
    BY <1>2, <1>3, <1>4, <1>6, <2>1, <2>2, <2>3, KnownStep
<1>11. CASE Claim(h)
  <2> DEFINE ids == StopIds(hook[h].seen, ev[h].gen)
  <2>1. active' = active /\ (markers' = markers \/ Mark(ids))
    BY <1>11 DEF Claim
  <2>2. PICK s : Local(h, s, hook[h].seen, hook[h].mine)
    BY <1>11, StopLocal
  <2>3. hook[h].seen \in Turn \cup {NoTurn} /\ ev[h].gen \in AnyGen
    BY <1>1 DEF HookType, Event
  <2>4. ids \in Seq(Gens) /\ Distinct(ids) /\ Elems(ids) = TurnIds(hook[h].seen) \cup ({ev[h].gen} \ {NoGen})
    BY <1>4, <2>3, StopIdsParts
  <2>5. Elems(ids) \subseteq used
    BY <1>4, <1>5, <2>4 DEF TurnIds, KnownTurn
  <2> HIDE DEF ids
  <2>6. MarkersKnown' /\ (Few => Elems(markers) \subseteq Elems(markers'))
    BY <1>2, <1>6, <2>1, <2>4, <2>5, MarkWrites
  <2>7. KnownTurn(active')
    BY <1>4, <2>1
  <2> QED
    BY <1>2, <1>3, <1>4, <2>2, <2>6, <2>7, KnownStep
<1>12. CASE ClearIfMatches(h) \/ Flush(h)
  <2>1. markers' = markers
    BY <1>12 DEF ClearIfMatches, Flush
  <2>2. PICK m \in {hook[h].mine, active} : \E s : Local(h, s, hook[h].seen, m)
    BY <1>12, StopLocal, ClosingLocal
  <2>3. active' \in {active, NoTurn}
    BY <1>12 DEF ClearIfMatches, Flush
  <2>4. KnownTurn(active') /\ KnownTurn(m)
    BY <1>4, <2>2, <2>3
  <2> QED
    BY <1>2, <1>3, <1>4, <1>6, <2>1, <2>2, <2>4, KnownStep
<1>13. CASE \/ SendRoot(h) \/ SendLlm(h) \/ SendStop(h) \/ CleanUp(h) \/ ResetNogen(h) \/ SaveRoot(h)
            \/ EndSession(h) \/ RemoveActive(h)
  <2>1. active' \in {active, NoTurn} /\ markers' = markers
    BY <1>13 DEF SendRoot, SendLlm, SendStop, CleanUp, ResetNogen, SaveRoot, EndSession, RemoveActive, disk
  <2>2. PICK m \in {hook[h].mine, NoTurn} : \E s : Local(h, s, hook[h].seen, m)
    BY <1>13, StopLocal, ClosingLocal
  <2>3. KnownTurn(active') /\ KnownTurn(m)
    BY <1>4, <2>1, <2>2
  <2> QED
    BY <1>2, <1>3, <1>4, <1>6, <2>1, <2>2, <2>3, KnownStep
<1>14. CASE MarkClosed(h)
  <2> DEFINE t == hook[h].mine
             ids == IF ev[h].kind = "stop" THEN StopIds(t, ev[h].gen) ELSE IdList(t)
  <2>1. active' = active /\ Mark(ids)
    BY <1>14 DEF MarkClosed
  <2>2. PICK s : Local(h, s, hook[h].seen, hook[h].mine)
    BY <1>14, ClosingLocal
  <2>3. t \in Turn /\ t # NoTurn /\ ev[h].gen \in AnyGen
    BY <1>1, <1>14 DEF MarkClosed, Resolved, Knows, HookType, Event
  <2>4. ids \in Seq(Gens) /\ Distinct(ids) /\ Elems(ids) \subseteq Ids(t) \cup ({ev[h].gen} \ {NoGen})
    BY <1>4, <2>3, StopIdsParts, IdListParts DEF TurnIds
  <2>5. Elems(ids) \subseteq used
    BY <1>4, <1>5, <2>3, <2>4 DEF KnownTurn
  <2> HIDE DEF ids
  <2>6. MarkersKnown' /\ (Few => Elems(markers) \subseteq Elems(markers'))
    BY <1>2, <2>1, <2>4, <2>5, MarkWrites
  <2>7. KnownTurn(active')
    BY <1>4, <2>1
  <2> QED
    BY <1>2, <1>3, <1>4, <2>2, <2>6, <2>7, KnownStep
<1>15. CASE SaveTurn(h)
  <2>1. active' = NewTurn(h) /\ markers' = markers
    BY <1>15 DEF SaveTurn
  <2>2. Local(h, "done", hook[h].seen, hook[h].mine)
    BY <1>15, ClosingLocal
  <2>3. KnownTurn(NewTurn(h))
    BY <1>5, NewTurnKnown
  <2> QED
    BY <1>2, <1>3, <1>4, <1>6, <2>1, <2>2, <2>3, KnownStep
<1>16. CASE FailOperation(h)
  <2>1. UNCHANGED <<active, markers>>
    BY <1>16 DEF FailOperation, disk
  <2>2. KnownTurn(NewTurn(h))
    BY <1>5, NewTurnKnown
  <2>3. PICK m \in {hook[h].mine, NewTurn(h)} : \E s : Local(h, s, hook[h].seen, m)
    BY <1>16, OtherLocal
  <2>4. KnownTurn(active') /\ KnownTurn(m)
    BY <1>4, <2>1, <2>2, <2>3
  <2> QED
    BY <1>2, <1>3, <1>4, <1>6, <2>1, <2>3, <2>4, KnownStep
<1> QED
  BY <1>7, <1>8, <1>9, <1>10, <1>11, <1>12, <1>13, <1>14, <1>15, <1>16 DEF Step

LEMMA StartKnown ==
  ASSUME StateType, Resolved, IdsKnown, NEW h \in Hooks,
         NEW k \in Kinds, NEW g \in AnyGen, NEW x \in Texts \cup {NoText}, Start(h, k, g, x)
  PROVE  IdsKnown' /\ (Few' => Few) /\ Elems(markers) \subseteq Elems(markers')
<1>1. used' = used \cup ({g} \ {NoGen}) /\ UNCHANGED <<active, markers>>
  BY DEF Start, disk
<1>2. Local(h, First(k), NoTurn, hook[h].mine)
  BY OtherLocal
<1>3. ev' = [ev EXCEPT ![h] = [kind |-> k, gen |-> g, text |-> x]]
  BY OtherLocal
<1>4. used' \subseteq Gens /\ used \subseteq used'
  BY <1>1 DEF IdsKnown, AnyGen
<1>5. IsFiniteSet(used') /\ IsFiniteSet(used)
  <2>1. used' = used \/ used' = used \cup {g}
    BY <1>1
  <2>2. IsFiniteSet(used) /\ IsFiniteSet(used \cup {g})
    BY FS_AddElement DEF IdsKnown
  <2> QED
    BY <2>1, <2>2, Zenon
<1>6. /\ Cardinality(used') \in Nat /\ Cardinality(used) \in Nat
      /\ Cardinality(used) <= Cardinality(used')
  BY <1>4, <1>5, FS_Subset, FS_CardinalityType
<1>7. Few' => Few
  BY <1>6, CursorAssumption DEF Few
<1>8. ev'[h].gen = g /\ \A o \in Hooks : o # h => ev'[o] = ev[o]
  BY <1>3 DEF StateType
<1>9. \A o \in Hooks : hook'[o].at # "new" => ev'[o].gen \in used' \cup {NoGen}
  BY <1>1, <1>2, <1>4, <1>8 DEF IdsKnown, Local
<1>10. \A o \in Hooks : /\ hook'[o].seen \in {hook[o].seen, NoTurn}
                        /\ hook'[o].mine \in {hook[o].mine, NoTurn}
  BY <1>2 DEF Local
<1>11. KnownTurn(active)' /\ \A o \in Hooks : KnownTurn(hook[o].seen)' /\ KnownTurn(hook[o].mine)'
  BY <1>1, <1>4, <1>10 DEF IdsKnown, KnownTurn, Ids, Elems, Distinct
<1>12. MarkersKnown'
  BY <1>1, <1>4 DEF IdsKnown, MarkersKnown
<1> QED
  BY <1>1, <1>4, <1>5, <1>7, <1>9, <1>11, <1>12 DEF IdsKnown

LEMMA InitKnown ==
  ASSUME Init
  PROVE  Paths /\ IdsKnown
<1>1. DOMAIN <<>> = {} /\ <<>> \in Seq(Gens) /\ Len(<<>>) = 0
  BY EmptySeq
<1>2. Elems(<<>>) = {} /\ Distinct(<<>>)
  BY <1>1, Zenon DEF Elems, Distinct
<1>3. /\ Idle("new").at = "new" /\ Idle("new").seen = NoTurn /\ Idle("new").mine = NoTurn
      /\ markers = <<>> /\ used = {} /\ active = NoTurn
      /\ \A h \in Hooks : hook[h] = Idle("new")
  BY DEF Init, Idle
<1>4. Cap.markers \in Nat \ {0}
  BY CursorAssumption
<1>5. MarkersKnown
  <2>1. Elems(markers) = {} /\ Distinct(markers) /\ markers \in Seq(Gens) /\ Len(markers) = 0
    BY <1>1, <1>2, <1>3, Zenon
  <2> QED
    BY <1>4, <2>1 DEF MarkersKnown
<1>6. KnownTurn(NoTurn)
  BY DEF KnownTurn
<1>7. IsFiniteSet(used)
  BY <1>3, FS_EmptySet, Zenon
<1> QED
  BY <1>3, <1>5, <1>6, <1>7 DEF IdsKnown, Paths, OnPath

LEMMA NextKnown ==
  ASSUME StateType, Resolved, Paths, IdsKnown, [Next]_vars
  PROVE  /\ IdsKnown'
         /\ Few' => Few /\ Elems(markers) \subseteq Elems(markers')
<1>1. CASE UNCHANGED vars
  BY <1>1 DEF vars, disk, history, IdsKnown, MarkersKnown, KnownTurn, Few
<1>2. CASE Next
  <2>1. PICK h \in Hooks :
          \/ \E k \in Kinds, g \in AnyGen, x \in Texts \cup {NoText} : Start(h, k, g, x)
          \/ Step(h) \/ FailOperation(h) \/ Crash(h)
    BY <1>2 DEF Next
  <2>2. CASE Step(h) \/ FailOperation(h) \/ Crash(h)
    <3>1. used' = used
      BY <2>2 DEF Step, FailOperation, Crash, history, GetActive, CheckMarked, ReadRoot, RecordAlias,
         AddResponse, CheckLate, Push, Pop, AddThought, SendPoint, Claim, ClearIfMatches, SendRoot,
         SendLlm, SendStop, Flush, MarkClosed, CleanUp, ResetNogen, SaveRoot, SaveTurn, EndSession,
         RemoveActive
    <3>2. Few' => Few
      BY <3>1 DEF Few
    <3> QED
      BY <2>2, <3>2, StepKnown
  <2>3. CASE \E k \in Kinds, g \in AnyGen, x \in Texts \cup {NoText} : Start(h, k, g, x)
    BY <2>3, StartKnown
  <2> QED
    BY <2>1, <2>2, <2>3
<1> QED
  BY <1>1, <1>2

-----------------------------------------------------------------------------
(* The type invariant the runs check                                       *)

Short(t) ==
  t # NoTurn => /\ Len(t.aliases) <= Cap.aliases /\ Len(t.responses) <= Cap.responses
                /\ Len(t.thoughts) <= Cap.thoughts

Shapes == mode \in Modes /\ nogen \in BOOLEAN /\ Short(active) /\ spans \subseteq SpanType

LEMMA SpanShapes ==
  ASSUME StateType, Resolved, Paths, spans \subseteq SpanType, NEW h \in Hooks,
         SendPoint(h) \/ SendLlm(h) \/ SendRoot(h) \/ SendStop(h) \/ EndSession(h)
  PROVE  spans' \subseteq SpanType
<1>1. /\ ev[h] \in Event /\ ev[h].kind \in Kinds /\ ev[h].gen \in AnyGen
      /\ hook[h] \in HookType /\ hook[h].seen \in Turn \cup {NoTurn}
      /\ hook[h].mine \in Turn \cup {NoTurn} /\ hook[h].taken \in Seq(Entry)
  BY DEF StateType, Event, HookType
<1>2. ASSUME NEW n \in (Kinds \ {"prompt", "before"}) \cup {"root", "llm"},
             NEW t \in Hooks \cup {NoHook}, NEW g \in AnyGen, NEW f \in SUBSET Hooks,
             NEW d \in SUBSET Gens, Sent(h, n, t, g, f, d)
      PROVE  spans' \subseteq SpanType
  BY <1>2 DEF SpanType, Sent
<1>3. /\ {e.by : e \in Elems(hook[h].taken)} \in SUBSET Hooks
      /\ hook[h].mine # NoTurn => Elems(hook[h].mine.responses) \in SUBSET Hooks
  BY HandHooks
<1>4. ParentOf(h) \in Hooks \cup {NoHook} /\ TraceOf(h) \in AnyGen
  BY <1>1 DEF ParentOf, TraceOf, Turn, HookType
<1>5. \A t \in Turn : t.root \in Hooks /\ t.gen \in AnyGen /\ Ids(t) \in SUBSET Gens
  BY IdListParts DEF Turn
<1>6. CASE SendPoint(h)
  <2>1. "send" \in StagesOf(ev[h].kind)
    BY <1>6 DEF SendPoint, Paths, OnPath
  <2>2. ev[h].kind \in Kinds \ {"prompt", "before"}
    BY <1>1, <2>1, StageKinds
  <2>3. (IF ev[h].kind = "response" THEN {h} ELSE {e.by : e \in Elems(hook[h].taken)}) \in SUBSET Hooks
    BY <1>3
  <2> QED
    BY <1>2, <1>4, <1>6, <2>2, <2>3 DEF SendPoint
<1>7. CASE SendLlm(h)
  <2>1. CASE hook[h].mine # NoTurn
    <3>1. Sent(h, "llm", hook[h].mine.root, hook[h].mine.gen, Elems(hook[h].mine.responses), {})
      BY <1>7, <2>1 DEF SendLlm
    <3>2. {} \in SUBSET Gens
      OBVIOUS
    <3> QED
      BY <1>1, <1>2, <1>3, <1>5, <2>1, <3>1, <3>2
  <2>2. CASE hook[h].mine = NoTurn /\ hook[h].taken # <<>>
    <3>1. hook[h].taken[1] \in Entry
      BY <1>1, <2>2, EmptySeq, ElementOfSeq, LenProperties
    <3>2. hook[h].taken[1].turn \in Hooks \cup {NoHook} /\ hook[h].taken[1].trace \in AnyGen
      BY <3>1 DEF Entry
    <3>3. Sent(h, "llm", hook[h].taken[1].turn, hook[h].taken[1].trace,
               {e.by : e \in Elems(hook[h].taken)}, {})
      BY <1>7, <2>2 DEF SendLlm
    <3>4. {} \in SUBSET Gens
      OBVIOUS
    <3> QED
      BY <1>2, <1>3, <3>2, <3>3, <3>4
  <2>3. CASE hook[h].mine = NoTurn /\ hook[h].taken = <<>>
    BY <1>2, <1>4, <1>7, <2>3 DEF SendLlm
  <2> QED
    BY <2>1, <2>2, <2>3
<1>8. CASE SendRoot(h)
  <2>1. hook[h].mine \in Turn
    BY <1>1, <1>8 DEF SendRoot, Resolved, Knows
  <2>2. {} \in SUBSET Hooks
    OBVIOUS
  <2> QED
    BY <1>2, <1>5, <1>8, <2>1, <2>2 DEF SendRoot
<1>9. CASE SendStop(h)
  <2> DEFINE ids == StopIds(hook[h].seen, ev[h].gen)
             d == Elems(ids)
  <2>1. ids \in Seq(Gens)
    BY <1>1, StopIdsParts
  <2>2. d \in SUBSET Gens
    <3>1. \A i \in DOMAIN ids : ids[i] \in Gens
      BY <2>1, LenProperties, ElementOfSeq
    <3> QED
      BY <3>1 DEF Elems
  <2>3. "stop" \in Kinds \ {"prompt", "before"} /\ {} \in SUBSET Hooks
    BY DEF Kinds
  <2>4. \/ hook[h].mine = NoTurn /\ Sent(h, "stop", ParentOf(h), TraceOf(h), {}, d)
        \/ hook[h].mine # NoTurn /\ Sent(h, "stop", hook[h].mine.root, hook[h].mine.gen, {}, d)
    BY <1>9 DEF SendStop
  <2> HIDE DEF d, ids
  <2>5. ASSUME hook[h].mine = NoTurn, Sent(h, "stop", ParentOf(h), TraceOf(h), {}, d)
        PROVE  spans' \subseteq SpanType
    BY <1>2, <1>4, <2>2, <2>3, <2>5
  <2>6. ASSUME hook[h].mine # NoTurn, Sent(h, "stop", hook[h].mine.root, hook[h].mine.gen, {}, d)
        PROVE  spans' \subseteq SpanType
    BY <1>1, <1>2, <1>5, <2>2, <2>3, <2>6
  <2> QED
    BY <2>4, <2>5, <2>6
<1>10. CASE EndSession(h)
  <2>1. "sessionEnd" \in Kinds \ {"prompt", "before"} /\ {} \in SUBSET Hooks /\ {} \in SUBSET Gens
    BY DEF Kinds
  <2> QED
    BY <1>1, <1>2, <1>10, <2>1 DEF EndSession
<1> QED
  BY <1>6, <1>7, <1>8, <1>9, <1>10

LEMMA ShortLists ==
  ASSUME StateType, Resolved, Short(active), NEW h \in Hooks,
         RecordAlias(h) \/ AddResponse(h) \/ AddThought(h)
  PROVE  Short(active')
<1>1. /\ Cap.aliases \in Nat \ {0} /\ Cap.responses \in Nat \ {0} /\ Cap.thoughts \in Nat \ {0}
      /\ hook[h] \in HookType /\ ev[h] \in Event /\ active \in Turn \cup {NoTurn}
  BY CursorAssumption DEF StateType
<1>2. CASE active' = active
  BY <1>2
<1>3. CASE active' # active
  <2>1. active \in Turn /\ active # NoTurn
    BY <1>1, <1>3 DEF RecordAlias, AddResponse, AddThought, SeenIsActive
  <2>2. /\ active.aliases \in Seq(Gens) /\ active.responses \in Seq(Hooks)
        /\ active.thoughts \in Seq(Texts)
        /\ Len(active.aliases) <= Cap.aliases /\ Len(active.responses) <= Cap.responses
        /\ Len(active.thoughts) <= Cap.thoughts
    BY <2>1 DEF Turn, Short
  <2>3. \A g \in Gens : Append(active.aliases, g) \in Seq(Gens)
    BY <2>2, AppendProperties
  <2>4. \A o \in Hooks : Append(active.responses, o) \in Seq(Hooks)
    BY <2>2, AppendProperties
  <2>5. \A x \in Texts : Append(active.thoughts, x) \in Seq(Texts)
    BY <2>2, AppendProperties
  <2>6. CASE RecordAlias(h)
    <3>1. ev[h].gen \in Gens
      BY <1>1, <2>6 DEF RecordAlias, Resolved, Knows, Event, AnyGen
    <3>2. active' = [active EXCEPT !.aliases = Capped(Append(@, ev[h].gen), Cap.aliases)]
      BY <1>3, <2>6 DEF RecordAlias
    <3>3. Len(Capped(Append(active.aliases, ev[h].gen), Cap.aliases)) <= Cap.aliases
      BY <1>1, <2>3, <3>1, CappedParts
    <3>4. /\ active'.aliases = Capped(Append(active.aliases, ev[h].gen), Cap.aliases)
          /\ active'.responses = active.responses /\ active'.thoughts = active.thoughts
      BY <2>1, <3>2 DEF Turn
    <3> QED
      BY <2>2, <3>3, <3>4 DEF Short
  <2>7. CASE AddResponse(h)
    <3>2. active' = [active EXCEPT !.responses = Capped(Append(@, h), Cap.responses)]
      BY <1>3, <2>7 DEF AddResponse
    <3>3. Len(Capped(Append(active.responses, h), Cap.responses)) <= Cap.responses
      BY <1>1, <2>4, CappedParts
    <3>4. /\ active'.responses = Capped(Append(active.responses, h), Cap.responses)
          /\ active'.aliases = active.aliases /\ active'.thoughts = active.thoughts
      BY <2>1, <3>2 DEF Turn
    <3> QED
      BY <2>2, <3>3, <3>4 DEF Short
  <2>8. CASE AddThought(h)
    <3>1. ev[h].text \in Texts
      BY <1>1, <2>8 DEF AddThought, Resolved, Knows, Event
    <3>2. active' = [active EXCEPT !.thoughts = Capped(Append(@, ev[h].text), Cap.thoughts)]
      BY <1>3, <2>8 DEF AddThought
    <3>3. Len(Capped(Append(active.thoughts, ev[h].text), Cap.thoughts)) <= Cap.thoughts
      BY <1>1, <2>5, <3>1, CappedParts
    <3>4. /\ active'.thoughts = Capped(Append(active.thoughts, ev[h].text), Cap.thoughts)
          /\ active'.aliases = active.aliases /\ active'.responses = active.responses
      BY <2>1, <3>2 DEF Turn
    <3> QED
      BY <2>2, <3>3, <3>4 DEF Short
  <2> QED
    BY <2>6, <2>7, <2>8
<1> QED
  BY <1>2, <1>3

LEMMA NextShapes ==
  ASSUME StateType, Resolved, Paths, Shapes, [Next]_vars
  PROVE  Shapes'
<1>1. CASE UNCHANGED vars
  BY <1>1 DEF vars, disk, history, Shapes, Short
<1>2. CASE Next
  <2>1. PICK h \in Hooks :
          \/ \E k \in Kinds, g \in AnyGen, x \in Texts \cup {NoText} : Start(h, k, g, x)
          \/ Step(h) \/ FailOperation(h) \/ Crash(h)
    BY <1>2 DEF Next
  <2>2. mode' = mode /\ nogen' \in {nogen, TRUE, FALSE}
    BY <2>1 DEF Step, Start, FailOperation, Crash, disk, GetActive, CheckMarked, ReadRoot, RecordAlias,
         AddResponse, CheckLate, Push, Pop, AddThought, SendPoint, Claim, ClearIfMatches, SendRoot,
         SendLlm, SendStop, Flush, MarkClosed, CleanUp, ResetNogen, SaveRoot, SaveTurn, EndSession,
         RemoveActive
  <2>3. Short(active')
    <3>1. Len(<<>>) = 0 /\ Short(NoTurn)
      BY EmptySeq DEF Short
    <3>2. Short(NewTurn(h))
      <4>1. /\ NewTurn(h).aliases = <<>> /\ NewTurn(h).responses = <<>> /\ NewTurn(h).thoughts = <<>>
        BY DEF NewTurn
      <4>2. /\ Len(NewTurn(h).aliases) = 0 /\ Len(NewTurn(h).responses) = 0
            /\ Len(NewTurn(h).thoughts) = 0
        BY <3>1, <4>1, Zenon
      <4> QED
        BY <4>2, CursorAssumption DEF Short
    <3>3. CASE RecordAlias(h) \/ AddResponse(h) \/ AddThought(h)
      BY <3>3, ShortLists DEF Shapes
    <3>4. CASE ~(RecordAlias(h) \/ AddResponse(h) \/ AddThought(h))
      <4>1. active' \in {active, NoTurn, NewTurn(h)}
        BY <2>1, <3>4 DEF Step, Start, FailOperation, Crash, disk, GetActive, CheckMarked, ReadRoot,
           CheckLate, Push, Pop, SendPoint, Claim, ClearIfMatches, SendRoot, SendLlm, SendStop, Flush,
           MarkClosed, CleanUp, ResetNogen, SaveRoot, SaveTurn, EndSession, RemoveActive
      <4> QED
        BY <3>1, <3>2, <4>1 DEF Shapes
    <3> QED
      BY <3>3, <3>4
  <2>4. spans' \subseteq SpanType
    <3>1. CASE SendPoint(h) \/ SendLlm(h) \/ SendRoot(h) \/ SendStop(h) \/ EndSession(h)
      BY <3>1, SpanShapes DEF Shapes
    <3>2. CASE ~(SendPoint(h) \/ SendLlm(h) \/ SendRoot(h) \/ SendStop(h) \/ EndSession(h))
      <4>1. UNCHANGED spans
        BY <2>1, <3>2 DEF Step, Start, FailOperation, Crash, GetActive, CheckMarked, ReadRoot,
           RecordAlias, AddResponse, CheckLate, Push, Pop, AddThought, Claim, ClearIfMatches, Flush,
           MarkClosed, CleanUp, ResetNogen, SaveRoot, SaveTurn, RemoveActive, history
      <4> QED
        BY <4>1 DEF Shapes
    <3> QED
      BY <3>1, <3>2
  <2> QED
    BY <2>2, <2>3, <2>4 DEF Shapes, Short
<1> QED
  BY <1>1, <1>2

(* The inductive invariant of this module's theorems, without the parts    *)
(* that only hold where nothing fails.                                     *)
Grounds == StateType /\ Resolved /\ OneOwner /\ TracesAgree /\ Paths /\ IdsKnown /\ Shapes

LEMMA InitGrounds ==
  ASSUME Init
  PROVE  Grounds
<1>1. Shapes
  BY DEF Init, Shapes, Short
<1> QED
  BY <1>1, InitType, InitOwner, InitTraces, InitKnown DEF Grounds

LEMMA NextGrounds ==
  ASSUME Grounds, [Next]_vars
  PROVE  Grounds'
<1> USE DEF Grounds
<1>1. StateType' /\ Resolved'
  BY NextType
<1> QED
  BY <1>1, NextOwner, NextTraces, NextPaths, NextKnown, NextShapes

THEOREM GroundsHold == Spec => []Grounds
<1>1. Init => Grounds
  BY InitGrounds
<1>2. Grounds /\ [Next]_vars => Grounds'
  BY NextGrounds
<1> QED
  BY <1>1, <1>2, PTL DEF Spec

(* The state is well formed, the lists stay within their caps, whatever    *)
(* MAX_GENERATION_ALIASES and its like are, and a handler has a turn       *)
(* wherever it uses one: no step applies to data it is not made for.       *)
THEOREM TypeCorrect == Spec => []CursorTypeOK
<1>1. ASSUME Grounds
      PROVE  CursorTypeOK
  <2>1. /\ mode \in Modes /\ active \in Turn \cup {NoTurn} /\ nogen \in BOOLEAN
        /\ active # NoTurn => /\ Len(active.aliases) <= Cap.aliases
                              /\ Len(active.responses) <= Cap.responses
                              /\ Len(active.thoughts) <= Cap.thoughts
        /\ spans \subseteq SpanType
    BY <1>1 DEF Grounds, Shapes, Short, StateType
  <2>2. markers \in Seq(Gens) /\ Len(markers) <= Cap.markers /\ used \subseteq Gens
    BY <1>1 DEF Grounds, IdsKnown, MarkersKnown
  <2>3. /\ roots \in [Gens -> Hooks \cup {NoHook}]
        /\ stacks \in [StackNames \X Gens -> Seq(Entry)]
        /\ hook \in [Hooks -> HookType]
    BY <1>1 DEF Grounds, StateType
  <2>4. ev \in [Hooks -> [kind : Kinds, gen : AnyGen, text : Texts \cup {NoText}]]
    BY <1>1 DEF Grounds, StateType, Event
  <2>5. \A h \in Hooks :
          /\ hook[h].at \in {"check", "alias", "append", "hash", "clear"} => hook[h].seen # NoTurn
          /\ hook[h].at \in {"root", "mark"} => hook[h].mine # NoTurn
    BY <1>1 DEF Grounds, Resolved, Knows
  <2> QED
    BY <2>1, <2>2, <2>3, <2>4, <2>5 DEF CursorTypeOK
<1> QED
  BY <1>1, GroundsHold, PTL

-----------------------------------------------------------------------------
(* Each generation's end is claimed once                                   *)

Claimed == {"clear", "pop", "root", "llm", "stop"}

(* Hook h is a stop that has claimed its ids and will report them.         *)
Claimant(h) == ev[h].kind = "stop" /\ hook[h].at \in Claimed

Claims(h) == TurnIds(hook[h].seen) \cup ({ev[h].gen} \ {NoGen})

StopSpans == {s \in spans : s.name = "stop"}

(* The inductive invariant behind StopOncePerGeneration: what has been     *)
(* claimed or reported is marked, and nobody else claims or reports it.    *)
ClaimsMarked ==
  /\ \A s \in StopSpans : s.ends \subseteq Elems(markers)
  /\ \A h \in Hooks : Claimant(h) => Claims(h) \subseteq Elems(markers)
ClaimsApart ==
  /\ \A h, o \in Hooks : Claimant(h) /\ Claimant(o) /\ h # o => Claims(h) \cap Claims(o) = {}
  /\ \A h \in Hooks, s \in StopSpans : Claimant(h) => Claims(h) \cap s.ends = {}
  /\ \A s, t \in StopSpans : s # t => s.ends \cap t.ends = {}

OneClaim == ~mode.faults /\ Few => ClaimsMarked /\ ClaimsApart

LEMMA StopIdsClaims ==
  ASSUME StateType, NEW h \in Hooks
  PROVE  Elems(StopIds(hook[h].seen, ev[h].gen)) = Claims(h)
<1>1. hook[h].seen \in Turn \cup {NoTurn} /\ ev[h].gen \in AnyGen
  BY DEF StateType, HookType, Event
<1> QED
  BY <1>1, StopIdsParts DEF Claims

(* Where a handler of the event e that reads its turn goes, if it is a stop. *)
LEMMA StopHandle ==
  ASSUME NEW e, NEW t, e.kind = "stop"
  PROVE  Handle(e, t) \in {"done", "claim"}
BY DEF Handle

(* A step of a hook goes on with that hook, and no event changes.          *)
LEMMA StepGoesOn ==
  ASSUME NEW h, Step(h) \/ FailOperation(h) \/ Crash(h)
  PROVE  ev' = ev /\ \E s, l : Continue(h, s, l)
<1>1. CASE GetActive(h) \/ CheckMarked(h) \/ ReadRoot(h) \/ RecordAlias(h) \/ AddResponse(h) \/ CheckLate(h)
  <2>1. ev' = ev
    BY <1>1 DEF GetActive, CheckMarked, ReadRoot, RecordAlias, AddResponse, CheckLate
  <2>2. \E s, l : Continue(h, s, l)
    BY <1>1 DEF Goto, GetActive, CheckMarked, ReadRoot, RecordAlias, AddResponse, CheckLate
  <2> QED
    BY <2>1, <2>2
<1>2. CASE Push(h) \/ Pop(h) \/ AddThought(h) \/ SendPoint(h) \/ Claim(h) \/ ClearIfMatches(h)
  <2>1. ev' = ev
    BY <1>2 DEF Push, Pop, AddThought, SendPoint, Claim, ClearIfMatches
  <2>2. \E s, l : Continue(h, s, l)
    BY <1>2 DEF Goto, Push, Pop, AddThought, SendPoint, Claim, ClearIfMatches
  <2> QED
    BY <2>1, <2>2
<1>3. CASE SendRoot(h) \/ SendLlm(h) \/ SendStop(h) \/ Flush(h) \/ MarkClosed(h) \/ CleanUp(h)
  <2>1. ev' = ev
    BY <1>3 DEF SendRoot, SendLlm, SendStop, Flush, MarkClosed, CleanUp
  <2>2. \E s, l : Continue(h, s, l)
    BY <1>3 DEF Goto, SendRoot, SendLlm, SendStop, Flush, MarkClosed, CleanUp
  <2> QED
    BY <2>1, <2>2
<1>4. CASE ResetNogen(h) \/ SaveRoot(h) \/ SaveTurn(h) \/ EndSession(h) \/ RemoveActive(h) \/ Crash(h)
  <2>1. ev' = ev
    BY <1>4 DEF ResetNogen, SaveRoot, SaveTurn, EndSession, RemoveActive, Crash
  <2>2. \E s, l : Continue(h, s, l)
    BY <1>4 DEF Goto, ResetNogen, SaveRoot, SaveTurn, EndSession, RemoveActive, Crash
  <2> QED
    BY <2>1, <2>2
<1>5. CASE FailOperation(h)
  <2>1. ev' = ev
    BY <1>5 DEF FailOperation
  <2>2. \E s, l : Continue(h, s, l)
    BY <1>5 DEF FailOperation, Goto
  <2> QED
    BY <2>1, <2>2
<1> QED
  BY <1>1, <1>2, <1>3, <1>4, <1>5, Zenon DEF Step

(* A step is that of one hook.                                             *)
LEMMA OtherSteps ==
  ASSUME StateType, Resolved, NEW h \in Hooks,
         \/ \E k \in Kinds, g \in AnyGen, x \in Texts \cup {NoText} : Start(h, k, g, x)
         \/ Step(h) \/ FailOperation(h) \/ Crash(h)
  PROVE  \A o \in Hooks : o # h => hook'[o] = hook[o] /\ ev'[o] = ev[o]
<1>1. ASSUME NEW k \in Kinds, NEW g \in AnyGen, NEW x \in Texts \cup {NoText}, Start(h, k, g, x)
      PROVE  \A o \in Hooks : o # h => hook'[o] = hook[o] /\ ev'[o] = ev[o]
  <2>1. Local(h, First(k), NoTurn, hook[h].mine)
    BY <1>1, OtherLocal
  <2>2. \A o \in Hooks : o # h => ev'[o] = ev[o]
    BY <1>1 DEF StateType, Start
  <2> QED
    BY <2>1, <2>2 DEF Local
<1>2. ASSUME Step(h) \/ FailOperation(h) \/ Crash(h)
      PROVE  \A o \in Hooks : o # h => hook'[o] = hook[o] /\ ev'[o] = ev[o]
  <2>1. ev' = ev
    BY <1>2, StepGoesOn, Zenon
  <2>2. \E s, l : Continue(h, s, l)
    BY <1>2, StepGoesOn, Zenon
  <2>3. \A o \in Hooks : o # h => hook'[o] = hook[o]
    BY <2>2 DEF Continue, StateType
  <2> QED
    BY <2>1, <2>3
<1> QED
  BY <1>1, <1>2

(* Only Claim makes a claimant, and a claimant keeps its ids.              *)
LEMMA ClaimantStep ==
  ASSUME Grounds, ~mode.faults, NEW h \in Hooks, ~Claim(h),
         \/ \E k \in Kinds, g \in AnyGen, x \in Texts \cup {NoText} : Start(h, k, g, x)
         \/ Step(h) \/ Crash(h),
         Claimant(h)'
  PROVE  Claimant(h) /\ Claims(h)' = Claims(h)
<1> USE DEF Grounds
<1>1. hook'[h].at \in Claimed /\ ev'[h].kind = "stop"
  BY DEF Claimant
<1>2. hook'[h].at \notin {"done", "claim", "readRoot", "check", "alias", "get", "clean", "mark"}
  BY <1>1 DEF Claimed
<1>3. ASSUME hook[h].at \in Claimed, ev' = ev, hook'[h].seen = hook[h].seen
      PROVE  Claimant(h) /\ Claims(h)' = Claims(h)
  BY <1>1, <1>3 DEF Claimant, Claims, TurnIds
<1>4. ASSUME NEW k \in Kinds, NEW g \in AnyGen, NEW x \in Texts \cup {NoText}, Start(h, k, g, x)
      PROVE  FALSE
  <2>1. Local(h, First(k), NoTurn, hook[h].mine)
    BY <1>4, OtherLocal
  <2>2. ev'[h].kind = k
    BY <1>4 DEF StateType, Start
  <2>3. First("stop") = "get"
    BY DEF First
  <2> QED
    BY <1>1, <1>2, <2>1, <2>2, <2>3 DEF Local
<1>5. ASSUME Step(h) \/ Crash(h)
      PROVE  ev' = ev /\ ev[h].kind = "stop"
  <2>1. ev' = ev
    BY <1>5, StepGoesOn, Zenon
  <2> QED
    BY <1>1, <2>1
<1>6. ASSUME Step(h) \/ Crash(h)
      PROVE  hook[h].at \notin {"new", "done"} => hook[h].at \in StagesOf("stop")
  BY <1>5, <1>6 DEF Paths, OnPath
<1>7. ASSUME GetActive(h) \/ CheckMarked(h) \/ ReadRoot(h) \/ CheckLate(h)
      PROVE  FALSE
  <2>1. ev[h].kind = "stop"
    BY <1>5, <1>7 DEF Step
  <2>2. \A t : Handle(ev[h], t) \in {"done", "claim"}
    BY <2>1, StopHandle
  <2>3. ~CheckLate(h)
    BY <1>6, <1>7 DEF Step, CheckLate, StagesOf
  <2>4. PICK s \in {"done", "claim", "readRoot", "check", "alias"} : \E t : Local(h, s, t, hook[h].mine)
    BY <1>7, <2>2, <2>3, ReadingLocal
  <2> QED
    BY <1>2, <2>4 DEF Local
<1>8. ~(RecordAlias(h) \/ AddResponse(h) \/ AddThought(h) \/ Push(h) \/ SendPoint(h))
  BY <1>6 DEF Step, RecordAlias, AddResponse, AddThought, Push, SendPoint, StagesOf
<1>9. ASSUME Pop(h) \/ ClearIfMatches(h) \/ SendRoot(h) \/ SendLlm(h) \/ SendStop(h)
      PROVE  Claimant(h) /\ Claims(h)' = Claims(h)
  <2>1. hook[h].at \in Claimed /\ ev' = ev
    BY <1>9 DEF Pop, ClearIfMatches, SendRoot, SendLlm, SendStop, Claimed
  <2>2. \E s, m : Local(h, s, hook[h].seen, m)
    BY <1>9, WritingLocal, StopLocal
  <2>3. hook'[h].seen = hook[h].seen
    BY <1>2, <2>2 DEF Local
  <2> QED
    BY <1>3, <2>1, <2>3
<1>10. ~(Flush(h) \/ ResetNogen(h) \/ SaveRoot(h) \/ SaveTurn(h) \/ EndSession(h) \/ RemoveActive(h))
  BY <1>6 DEF Step, Flush, ResetNogen, SaveRoot, SaveTurn, EndSession, RemoveActive, StagesOf
<1>11. ASSUME MarkClosed(h) \/ CleanUp(h)
       PROVE  FALSE
  <2>1. ~Flushes(h) /\ ev[h].kind = "stop"
    BY <1>5, <1>11 DEF Step, Flushes
  <2>2. \E s \in {"done", "mark"} : \E m : Local(h, s, hook[h].seen, m)
    BY <1>11, <2>1, ClosingLocal
  <2> QED
    BY <1>2, <2>2 DEF Local
<1>12. ASSUME Crash(h)
       PROVE  FALSE
  BY <1>2, <1>12, OtherLocal DEF Local
<1> QED
  BY <1>4, <1>7, <1>8, <1>9, <1>10, <1>11, <1>12 DEF Step

(* A step that neither claims nor reports.                                 *)
LEMMA ClaimsStep ==
  ASSUME Grounds, OneClaim, ~mode.faults, Few, NEW h \in Hooks,
         \A o \in Hooks : o # h => hook'[o] = hook[o] /\ ev'[o] = ev[o],
         Claimant(h)' => Claimant(h) /\ Claims(h)' = Claims(h),
         StopSpans' = StopSpans, Elems(markers) \subseteq Elems(markers')
  PROVE  ClaimsMarked' /\ ClaimsApart'
<1>1. \A o \in Hooks : Claimant(o)' => Claimant(o) /\ Claims(o)' = Claims(o)
  BY DEF Claimant, Claims, TurnIds
<1>2. Elems(markers)' = Elems(markers')
  BY DEF Elems
<1> QED
  BY <1>1, <1>2 DEF OneClaim, ClaimsMarked, ClaimsApart

LEMMA NextClaims ==
  ASSUME Grounds, OneClaim, [Next]_vars
  PROVE  OneClaim'
<1> USE DEF Grounds
<1>1. CASE UNCHANGED vars
  BY <1>1 DEF vars, disk, history, OneClaim, ClaimsMarked, ClaimsApart, Few, Claimant, Claims,
              TurnIds, StopSpans
<1>2. CASE Next
  <2> SUFFICES ASSUME ~mode'.faults, Few'
               PROVE  ClaimsMarked' /\ ClaimsApart'
    BY DEF OneClaim
  <2>1. PICK h \in Hooks :
          \/ \E k \in Kinds, g \in AnyGen, x \in Texts \cup {NoText} : Start(h, k, g, x)
          \/ Step(h) \/ FailOperation(h) \/ Crash(h)
    BY <1>2 DEF Next
  <2>2. mode' = mode
    BY <2>1 DEF Step, Start, FailOperation, Crash, disk, GetActive, CheckMarked, ReadRoot, RecordAlias,
         AddResponse, CheckLate, Push, Pop, AddThought, SendPoint, Claim, ClearIfMatches, SendRoot,
         SendLlm, SendStop, Flush, MarkClosed, CleanUp, ResetNogen, SaveRoot, SaveTurn, EndSession,
         RemoveActive
  <2>3. ~mode.faults /\ ~FailOperation(h)
    BY <2>2 DEF FailOperation
  <2>4. Few /\ Elems(markers) \subseteq Elems(markers')
    BY NextKnown
  <2>5. ClaimsMarked /\ ClaimsApart
    BY <2>3, <2>4 DEF OneClaim
  <2>6. \A o \in Hooks : o # h => hook'[o] = hook[o] /\ ev'[o] = ev[o]
    BY <2>1, <2>3, OtherSteps
  <2>7. CASE ~Claim(h) /\ ~SendStop(h)
    <3>1. Claimant(h)' => Claimant(h) /\ Claims(h)' = Claims(h)
      BY <2>1, <2>3, <2>7, ClaimantStep
    <3>2. StopSpans' = StopSpans
      <4>1. \A n, t, g, f, d : n # "stop" /\ Sent(h, n, t, g, f, d) => StopSpans' = StopSpans
        BY DEF Sent, StopSpans
      <4>2. CASE SendPoint(h)
        <5>1. "send" \in StagesOf(ev[h].kind)
          BY <4>2 DEF SendPoint, Paths, OnPath
        <5>2. ev[h].kind # "stop"
          BY <5>1 DEF StagesOf
        <5> QED
          BY <4>1, <4>2, <5>2 DEF SendPoint
      <4>3. CASE SendLlm(h)
        <5>1. \E t, g, f : Sent(h, "llm", t, g, f, {})
          BY <4>3 DEF SendLlm
        <5> QED
          BY <4>1, <5>1
      <4>4. CASE SendRoot(h) \/ EndSession(h)
        BY <4>1, <4>4 DEF SendRoot, EndSession
      <4>5. CASE ~(SendPoint(h) \/ SendLlm(h) \/ SendRoot(h) \/ SendStop(h) \/ EndSession(h))
        BY <2>1, <2>3, <4>5 DEF Step, Start, Crash, GetActive, CheckMarked, ReadRoot, StopSpans,
           RecordAlias, AddResponse, CheckLate, Push, Pop, AddThought, Claim, ClearIfMatches, Flush,
           MarkClosed, CleanUp, ResetNogen, SaveRoot, SaveTurn, RemoveActive, history
      <4> QED
        BY <2>7, <4>2, <4>3, <4>4, <4>5
    <3> QED
      BY <2>3, <2>4, <2>6, <3>1, <3>2, ClaimsStep
  <2>8. CASE Claim(h)
    <3> DEFINE ids == StopIds(hook[h].seen, ev[h].gen)
               taken == IF ids = <<>> THEN nogen ELSE \E g \in Elems(ids) : IsMarked(g)
    <3>1. StopSpans' = StopSpans /\ ev' = ev /\ used' = used
      BY <2>8 DEF Claim, StopSpans, history
    <3>2. Local(h, IF taken THEN "done" ELSE AfterClaim(ev[h], hook[h].seen), hook[h].seen, hook[h].mine)
      BY <2>8, StopLocal
    <3>3. CASE taken
      <4>1. ~Claimant(h)'
        BY <3>2, <3>3 DEF Local, Claimant, Claimed
      <4> QED
        BY <2>3, <2>4, <2>6, <3>1, <4>1, ClaimsStep
    <3>4. CASE ~taken
      <4>1. Elems(ids) = Claims(h) /\ Claims(h)' = Claims(h)
        <5>1. hook'[h].seen = hook[h].seen
          BY <3>2, <3>4, Branches DEF Local
        <5> QED
          BY <3>1, <5>1, StopIdsClaims DEF Claims, TurnIds
      <4>2. Claims(h) \cap Elems(markers) = {}
        <5>1. CASE ids = <<>>
          <6>1. DOMAIN <<>> = {}
            BY EmptySeq
          <6>2. Elems(ids) = {}
            BY <5>1, <6>1, Zenon DEF Elems
          <6> QED
            BY <4>1, <6>2
        <5>2. CASE ids # <<>>
          BY <3>4, <4>1, <5>2 DEF IsMarked
        <5> QED
          BY <5>1, <5>2
      <4>3. Elems(markers)' = Elems(markers) \cup Claims(h)
        <5>1. CASE ids = <<>>
          <6>1. DOMAIN <<>> = {}
            BY EmptySeq
          <6>2. Elems(ids) = {}
            BY <5>1, <6>1, Zenon DEF Elems
          <6>3. markers' = markers
            BY <2>8, <3>4, <5>1 DEF Claim
          <6> QED
            BY <4>1, <6>2, <6>3 DEF Elems
        <5>2. CASE ids # <<>>
          <6>1. Mark(ids)
            BY <2>8, <3>4, <5>2 DEF Claim
          <6>2. /\ hook[h].seen \in Turn \cup {NoTurn} /\ ev[h].gen \in AnyGen
                /\ KnownTurn(hook[h].seen)
            BY DEF StateType, HookType, Event, IdsKnown
          <6>3. ids \in Seq(Gens) /\ Distinct(ids)
            BY <6>2, StopIdsParts
          <6>4. hook[h].at # "new"
            BY <2>8 DEF Claim
          <6>5. Claims(h) \subseteq used
            BY <6>2, <6>4 DEF Claims, TurnIds, KnownTurn, IdsKnown
          <6> HIDE DEF ids
          <6>6. Elems(markers') = Elems(markers) \cup Elems(ids)
            BY <2>4, <3>1, <4>1, <6>1, <6>3, <6>5, MarkWrites
          <6> QED
            BY <4>1, <6>6 DEF Elems
        <5> QED
          BY <5>1, <5>2
      <4> HIDE DEF ids, taken
      <4>4. \A o \in Hooks : o # h => /\ Claimant(o)' <=> Claimant(o)
                                      /\ Claims(o)' = Claims(o)
        BY <2>6 DEF Claimant, Claims, TurnIds
      <4>5. ClaimsMarked'
        BY <2>5, <3>1, <4>1, <4>3, <4>4 DEF ClaimsMarked
      <4>6. /\ \A o \in Hooks : Claimant(o) => Claims(h) \cap Claims(o) = {}
            /\ \A s \in StopSpans : Claims(h) \cap s.ends = {}
        BY <2>5, <4>2 DEF ClaimsMarked
      <4>7. ClaimsApart'
        BY <2>5, <3>1, <4>1, <4>4, <4>6 DEF ClaimsApart
      <4> QED
        BY <4>5, <4>7
    <3> QED
      BY <3>3, <3>4
  <2>9. CASE SendStop(h)
    <3>1. /\ ev' = ev /\ markers' = markers
          /\ Local(h, "clean", hook[h].seen, hook[h].mine) /\ hook[h].at = "stop"
      BY <2>9, StopLocal DEF SendStop, disk
    <3>2. ~Claimant(h)'
      BY <3>1 DEF Local, Claimant, Claimed
    <3>3. "stop" \in StagesOf(ev[h].kind)
      BY <3>1 DEF Paths, OnPath
    <3>4. Claimant(h)
      BY <3>1, <3>3 DEF Claimant, Claimed, StagesOf, Resolves
    <3>5. PICK s : StopSpans' = StopSpans \cup {s} /\ s.ends = Claims(h)
      <4> DEFINE d == Elems(StopIds(hook[h].seen, ev[h].gen))
      <4>1. PICK t, g : Sent(h, "stop", t, g, {}, d)
        BY <2>9 DEF SendStop
      <4>2. d = Claims(h)
        BY StopIdsClaims
      <4> HIDE DEF d
      <4> DEFINE s == [name |-> "stop", by |-> h, turn |-> t, trace |-> g, from |-> {}, ends |-> d]
      <4>3. spans' = spans \cup {s} /\ s.name = "stop" /\ s.ends = d
        BY <4>1 DEF Sent
      <4> HIDE DEF s
      <4> QED
        BY <4>2, <4>3 DEF StopSpans
    <3>6. \A o \in Hooks : o # h => /\ Claimant(o)' <=> Claimant(o)
                                    /\ Claims(o)' = Claims(o)
      BY <2>6 DEF Claimant, Claims, TurnIds
    <3>7. Elems(markers)' = Elems(markers)
      BY <3>1 DEF Elems
    <3>8. ClaimsMarked'
      BY <2>5, <3>2, <3>4, <3>5, <3>6, <3>7 DEF ClaimsMarked
    <3>9. ClaimsApart'
      BY <2>5, <3>2, <3>4, <3>5, <3>6 DEF ClaimsApart
    <3> QED
      BY <3>8, <3>9
  <2> QED
    BY <2>7, <2>8, <2>9
<1> QED
  BY <1>1, <1>2

(* A generation's end is reported by one Agent Stop span, whatever runs    *)
(* beside the stops and whichever hooks die, until more generations have   *)
(* been seen than the marker file has room for.                            *)
THEOREM StopOnce == Spec => [](Few => StopOncePerGeneration)
<1>1. Init => Grounds /\ OneClaim
  <2>1. ASSUME Init
        PROVE  OneClaim
    <3>1. \A h \in Hooks : hook[h].at = "new"
      BY <2>1 DEF Init, Idle
    <3>2. StopSpans = {} /\ \A h \in Hooks : ~Claimant(h)
      BY <2>1, <3>1 DEF Init, StopSpans, Claimant, Claimed
    <3> QED
      BY <3>2 DEF OneClaim, ClaimsMarked, ClaimsApart
  <2> QED
    BY <2>1, InitGrounds
<1>2. Grounds /\ OneClaim /\ [Next]_vars => (Grounds /\ OneClaim)'
  BY NextGrounds, NextClaims
<1>3. Grounds /\ OneClaim => (Few => StopOncePerGeneration)
  BY DEF OneClaim, ClaimsApart, StopSpans, StopOncePerGeneration
<1> QED
  BY <1>1, <1>2, <1>3, PTL DEF Spec

-----------------------------------------------------------------------------
(* How turns flow: from a prompt to the file, to what a hook has seen and  *)
(* to the hook that closes them                                            *)

SameTurn(t, u) == t # NoTurn /\ u # NoTurn /\ t.root = u.root /\ t.gen = u.gen

(* The id that a step of hook h may add to the active turn.                *)
NewId(h) == IF hook[h].at = "alias" THEN {ev[h].gen} ELSE {}

ActiveFlow(h) ==
  \/ active' = active
  \/ /\ SameTurn(active', active) /\ Ids(active') \subseteq Ids(active) \cup NewId(h)
     /\ hook[h].at \in {"alias", "append", "hash"} /\ hook[h].seen.root = active.root
  \/ /\ active # NoTurn /\ active' = NoTurn /\ hook'[h].mine = active
     /\ \/ /\ hook[h].at = "clear" /\ hook'[h].at = "root"
           /\ hook[h].seen.root = active.root \/ hook[h].seen.gen \in Ids(active)
        \/ hook[h].at = "flush" /\ hook'[h].at = "mark"
  \/ active' = NoTurn /\ hook[h].at = "wipe"
  \/ active' = NewTurn(h) /\ hook[h].at = "save" /\ hook'[h].at = "done"

SeenFlow(h) ==
  \/ hook'[h].seen \in {NoTurn, hook[h].seen}
  \/ hook[h].at = "get" /\ hook'[h].seen = active /\ active # NoTurn
  \/ /\ hook[h].at = "alias" /\ hook'[h].seen = active' /\ SameTurn(active', active)
     /\ hook[h].seen.root = active.root

MineFlow(h) ==
  \/ hook'[h].mine \in {NoTurn, hook[h].mine}
  \/ /\ hook[h].at \in {"flush", "clear"} /\ active # NoTurn
     /\ hook'[h].mine = active /\ active' = NoTurn

(* Which steps lead to the stages that matter below.                       *)
Arrival(h) ==
  /\ hook'[h].at \notin {"new", "get", "flush"}
  /\ hook'[h].at = "check" => /\ hook[h].at = "get" /\ active # NoTurn /\ hook'[h].seen = active
                              /\ ~Matches(active, ev[h].gen)
  /\ hook'[h].at = "alias" => /\ hook[h].at = "check" /\ ~IsMarked(ev[h].gen)
                              /\ hook'[h].seen = hook[h].seen
  /\ hook'[h].at = "done" /\ ev[h].kind = "prompt" =>
       hook[h].at = "save" \/ (hook[h].at = "mark" /\ hook[h].mine.root = h)

LEMMA Flow ==
  ASSUME Grounds, NEW h \in Hooks, Step(h)
  PROVE  /\ ev' = ev /\ used' = used /\ mode' = mode
         /\ hook[h].at \in StagesOf(ev[h].kind) /\ hook[h].at \notin {"new", "done"}
         /\ ev[h].kind \in Kinds /\ ev[h].gen \in AnyGen
         /\ ActiveFlow(h) /\ SeenFlow(h) /\ MineFlow(h) /\ Arrival(h)
<1> USE DEF Grounds
<1>1. ev' = ev /\ used' = used /\ mode' = mode /\ hook[h].at \notin {"new", "done"}
  BY DEF Step, history, GetActive, CheckMarked, ReadRoot, RecordAlias, disk,
         AddResponse, CheckLate, Push, Pop, AddThought, SendPoint, Claim, ClearIfMatches, SendRoot,
         SendLlm, SendStop, Flush, MarkClosed, CleanUp, ResetNogen, SaveRoot, SaveTurn, EndSession,
         RemoveActive
<1>2. hook[h].at \in StagesOf(ev[h].kind) /\ ev[h].kind \in Kinds /\ ev[h].gen \in AnyGen
  BY <1>1 DEF Paths, OnPath, StateType, Event
<1>3. /\ \A t : Handle(ev[h], t) \notin {"new", "get", "flush", "check", "alias", "mark"}
      /\ AfterFlush(ev[h]) \in {"end", "reset", "saveRoot"}
  BY Branches DEF Handle, NotAppended
<1>4. active \in Turn \cup {NoTurn} /\ hook[h] \in HookType
  BY DEF StateType
<1>5. ASSUME ev[h].kind = "prompt"
      PROVE  hook[h].at \in {"flush", "mark", "root", "llm", "clean", "reset", "saveRoot", "save"}
  BY <1>2, <1>5 DEF StagesOf
<1>6. CASE GetActive(h)
  <2> DEFINE s == IF active = NoTurn THEN "readRoot"
                  ELSE IF Matches(active, ev[h].gen) THEN Handle(ev[h], active) ELSE "check"
  <2>1. Local(h, s, active, hook[h].mine) /\ active' = active /\ hook[h].at = "get"
    BY <1>6, ReadingLocal DEF GetActive, disk
  <2>2. ActiveFlow(h) /\ SeenFlow(h) /\ MineFlow(h)
    BY <2>1 DEF ActiveFlow, SeenFlow, MineFlow, Local
  <2>3. s \notin {"new", "get", "flush", "alias"}
        /\ (s = "check" => active # NoTurn /\ ~Matches(active, ev[h].gen))
    BY <1>3
  <2> HIDE DEF s
  <2>4. Arrival(h)
    BY <1>5, <2>1, <2>3 DEF Arrival, Local
  <2> QED
    BY <1>1, <1>2, <2>2, <2>4
<1>7. CASE CheckMarked(h)
  <2>1. active' = active /\ hook[h].at = "check"
    BY <1>7 DEF CheckMarked, disk
  <2>2. \/ Local(h, "readRoot", NoTurn, hook[h].mine)
        \/ Local(h, "done", hook[h].seen, hook[h].mine)
        \/ ~IsMarked(ev[h].gen) /\ Local(h, "alias", hook[h].seen, hook[h].mine)
    BY <1>7, ReadingLocal
  <2>3. ActiveFlow(h) /\ SeenFlow(h) /\ MineFlow(h)
    BY <2>1, <2>2 DEF ActiveFlow, SeenFlow, MineFlow, Local
  <2>4. Arrival(h)
    BY <1>5, <2>1, <2>2 DEF Arrival, Local
  <2> QED
    BY <1>1, <1>2, <2>3, <2>4
<1>8. CASE ReadRoot(h) \/ CheckLate(h) \/ Push(h) \/ Pop(h) \/ SendPoint(h) \/ Claim(h)
  <2>1. active' = active /\ hook[h].at \in {"readRoot", "late", "push", "pop", "send", "claim"}
    BY <1>8 DEF ReadRoot, CheckLate, Push, Pop, SendPoint, Claim, disk
  <2>2. \A t : AfterClaim(ev[h], t) \in {"clear", "pop", "llm", "stop"}
    BY Branches
  <2>3. ASSUME ReadRoot(h)
        PROVE  Local(h, Handle(ev[h], NoTurn), NoTurn, hook[h].mine)
    BY <2>3, ReadingLocal
  <2>4. ASSUME ~ReadRoot(h)
        PROVE  \E s \in Stages \ {"new", "get", "flush", "check", "alias", "mark"} :
                 Local(h, s, hook[h].seen, hook[h].mine)
    <3>1. CASE CheckLate(h)
      BY <3>1, ReadingLocal DEF Stages
    <3>2. CASE Push(h) \/ SendPoint(h)
      BY <3>2, WritingLocal DEF Stages
    <3>3. CASE Pop(h)
      BY <3>3, WritingLocal DEF Stages
    <3>4. CASE Claim(h)
      BY <2>2, <3>4, StopLocal DEF Stages
    <3> QED
      BY <1>8, <2>4, <3>1, <3>2, <3>3, <3>4
  <2>5. \E s : /\ s \notin {"new", "get", "flush", "check", "alias", "mark"}
               /\ \E t \in {NoTurn, hook[h].seen} : Local(h, s, t, hook[h].mine)
    BY <1>3, <2>3, <2>4
  <2>6. ActiveFlow(h) /\ SeenFlow(h) /\ MineFlow(h)
    BY <2>1, <2>5 DEF ActiveFlow, SeenFlow, MineFlow, Local
  <2>7. Arrival(h)
    BY <1>5, <2>1, <2>5 DEF Arrival, Local
  <2> QED
    BY <1>1, <1>2, <2>6, <2>7
<1>9. CASE RecordAlias(h)
  <2> DEFINE seen == IF SeenIsActive(h) THEN WithAlias(h) ELSE hook[h].seen
  <2>1. /\ active' = IF SeenIsActive(h) THEN WithAlias(h) ELSE active
        /\ Local(h, Handle(ev[h], seen), seen, hook[h].mine) /\ hook[h].at = "alias"
        /\ seen \in Turn
    BY <1>9, WritingLocal DEF RecordAlias
  <2>2. ev[h].gen \in Gens
    BY <1>2, <2>1 DEF Resolved, Knows, AnyGen
  <2>3. SeenIsActive(h) => /\ SameTurn(WithAlias(h), active) /\ hook[h].seen.root = active.root
                           /\ Ids(WithAlias(h)) \subseteq Ids(active) \cup {ev[h].gen}
    BY <1>4, <2>1, <2>2, WithAliasParts, NoTurnAssumption DEF SeenIsActive, SameTurn
  <2>4. ActiveFlow(h)
    BY <2>1, <2>3 DEF ActiveFlow, NewId
  <2>5. SeenFlow(h)
    BY <2>1, <2>3 DEF SeenFlow, Local
  <2>6. MineFlow(h)
    BY <2>1 DEF MineFlow, Local
  <2> HIDE DEF seen
  <2>7. Arrival(h)
    BY <1>3, <1>5, <2>1 DEF Arrival, Local
  <2> QED
    BY <1>1, <1>2, <2>4, <2>5, <2>6, <2>7
<1>10. CASE AddResponse(h) \/ AddThought(h)
  <2>1. hook[h].at \in {"append", "hash"}
    BY <1>10 DEF AddResponse, AddThought
  <2>2. \E s \in {"done", "send", "late"} : Local(h, s, hook[h].seen, hook[h].mine)
    BY <1>10, Branches, WritingLocal
  <2>3. \/ active' = active
        \/ /\ SeenIsActive(h) /\ active \in Turn /\ active' \in Turn
           /\ active'.root = active.root /\ active'.gen = active.gen
           /\ active'.aliases = active.aliases
    <3>1. SeenIsActive(h) => active \in Turn
      BY <1>4 DEF SeenIsActive
    <3>2. CASE AddResponse(h)
      <4>1. active' = active \/ (SeenIsActive(h)
              /\ active' = [active EXCEPT !.responses = Capped(Append(@, h), Cap.responses)])
        BY <3>2 DEF AddResponse
      <4>2. active \in Turn => [active EXCEPT !.responses = Capped(Append(@, h), Cap.responses)] \in Turn
        BY TurnGrows
      <4>3. active \in Turn =>
              LET t == [active EXCEPT !.responses = Capped(Append(@, h), Cap.responses)]
              IN t.root = active.root /\ t.gen = active.gen /\ t.aliases = active.aliases
        BY DEF Turn
      <4> QED
        BY <3>1, <4>1, <4>2, <4>3
    <3>3. CASE AddThought(h)
      <4>1. active' = active \/ (SeenIsActive(h)
              /\ active' = [active EXCEPT !.thoughts = Capped(Append(@, ev[h].text), Cap.thoughts)])
        BY <3>3 DEF AddThought
      <4>2. active \in Turn => [active EXCEPT !.thoughts = Capped(Append(@, ev[h].text), Cap.thoughts)] \in Turn
        <5>1. ev[h].text \in Texts
          BY <3>3 DEF AddThought, Resolved, Knows, StateType, Event
        <5> QED
          BY <5>1, TurnGrows
      <4>3. active \in Turn =>
              LET t == [active EXCEPT !.thoughts = Capped(Append(@, ev[h].text), Cap.thoughts)]
              IN t.root = active.root /\ t.gen = active.gen /\ t.aliases = active.aliases
        BY DEF Turn
      <4> QED
        BY <3>1, <4>1, <4>2, <4>3
    <3> QED
      BY <1>10, <3>2, <3>3
  <2>4. ActiveFlow(h)
    BY <2>1, <2>3, NoTurnAssumption DEF ActiveFlow, SameTurn, Ids, SeenIsActive
  <2>5. SeenFlow(h) /\ MineFlow(h)
    BY <2>2 DEF SeenFlow, MineFlow, Local
  <2>6. Arrival(h)
    BY <1>5, <2>1, <2>2 DEF Arrival, Local
  <2> QED
    BY <1>1, <1>2, <2>4, <2>5, <2>6
<1>11. CASE ClearIfMatches(h)
  <2>1. \/ /\ active # NoTurn /\ (SeenIsActive(h) \/ hook[h].seen.gen \in Ids(active))
           /\ active' = NoTurn /\ Local(h, "root", hook[h].seen, active)
        \/ active' = active /\ Local(h, "done", hook[h].seen, hook[h].mine)
    BY <1>11, StopLocal
  <2>2. hook[h].at = "clear"
    BY <1>11 DEF ClearIfMatches
  <2>3. ActiveFlow(h) /\ SeenFlow(h) /\ MineFlow(h)
    BY <2>1, <2>2 DEF ActiveFlow, SeenFlow, MineFlow, Local, SeenIsActive
  <2>4. Arrival(h)
    BY <1>5, <2>1, <2>2 DEF Arrival, Local
  <2> QED
    BY <1>1, <1>2, <2>3, <2>4
<1>12. CASE SendRoot(h) \/ SendLlm(h) \/ SendStop(h) \/ ResetNogen(h) \/ SaveRoot(h) \/ EndSession(h)
  <2>1. active' = active
    BY <1>12 DEF SendRoot, SendLlm, SendStop, ResetNogen, SaveRoot, EndSession, disk
  <2>2. \E s \in {"llm", "stop", "clean", "save", "done", "wipe"} :
          /\ Local(h, s, hook[h].seen, hook[h].mine)
          /\ s = "done" => ev[h].kind # "prompt"
    BY <1>12, StopLocal, ClosingLocal
  <2>3. ActiveFlow(h) /\ SeenFlow(h) /\ MineFlow(h)
    BY <2>1, <2>2 DEF ActiveFlow, SeenFlow, MineFlow, Local
  <2>4. Arrival(h)
    BY <2>2 DEF Arrival, Local
  <2> QED
    BY <1>1, <1>2, <2>3, <2>4
<1>13. CASE Flush(h)
  <2>1. /\ active' = NoTurn /\ hook[h].at = "flush"
        /\ Local(h, IF active = NoTurn THEN AfterFlush(ev[h]) ELSE "mark", hook[h].seen, active)
    BY <1>13, ClosingLocal DEF Flush
  <2>2. ActiveFlow(h) /\ SeenFlow(h) /\ MineFlow(h)
    BY <1>3, <2>1 DEF ActiveFlow, SeenFlow, MineFlow, Local
  <2>3. Arrival(h)
    BY <1>3, <2>1 DEF Arrival, Local
  <2> QED
    BY <1>1, <1>2, <2>2, <2>3
<1>14. CASE MarkClosed(h)
  <2>1. /\ active' = active /\ hook[h].at = "mark"
        /\ Local(h, IF Flushes(h) THEN "root" ELSE "done", hook[h].seen, hook[h].mine)
    BY <1>14, ClosingLocal DEF MarkClosed
  <2>2. ActiveFlow(h) /\ SeenFlow(h) /\ MineFlow(h)
    BY <2>1 DEF ActiveFlow, SeenFlow, MineFlow, Local
  <2>3. ev[h].kind = "prompt" => (Flushes(h) <=> hook[h].mine.root # h)
    BY DEF Flushes
  <2>4. Arrival(h)
    BY <2>1, <2>3 DEF Arrival, Local
  <2> QED
    BY <1>1, <1>2, <2>2, <2>4
<1>15. CASE CleanUp(h)
  <2>1. active' = active /\ hook[h].at = "clean"
    BY <1>15 DEF CleanUp
  <2>2. ev[h].kind = "prompt" => hook[h].mine # NoTurn
    BY <2>1 DEF Paths, OnPath, Closing
  <2>3. \E s \in {"done", "wipe", "mark", "end", "reset", "saveRoot"} :
          /\ \E m \in {hook[h].mine, NoTurn} : Local(h, s, hook[h].seen, m)
          /\ s = "done" => ev[h].kind # "prompt"
    <3>1. CASE hook[h].mine = NoTurn
      BY <1>15, <2>2, <3>1, ClosingLocal
    <3>2. CASE hook[h].mine # NoTurn /\ Flushes(h)
      BY <1>3, <1>15, <3>2, ClosingLocal
    <3>3. CASE hook[h].mine # NoTurn /\ ~Flushes(h)
      BY <1>15, <3>3, ClosingLocal
    <3> QED
      BY <3>1, <3>2, <3>3
  <2>4. ActiveFlow(h) /\ SeenFlow(h) /\ MineFlow(h)
    BY <2>1, <2>3 DEF ActiveFlow, SeenFlow, MineFlow, Local
  <2>5. Arrival(h)
    BY <2>3 DEF Arrival, Local
  <2> QED
    BY <1>1, <1>2, <2>4, <2>5
<1>16. CASE SaveTurn(h) \/ RemoveActive(h)
  <2>1. /\ Local(h, "done", hook[h].seen, hook[h].mine)
        /\ \/ active' = NewTurn(h) /\ hook[h].at = "save"
           \/ active' = NoTurn /\ hook[h].at = "wipe"
    BY <1>16, ClosingLocal DEF SaveTurn, RemoveActive
  <2>2. ActiveFlow(h) /\ SeenFlow(h) /\ MineFlow(h)
    BY <2>1 DEF ActiveFlow, SeenFlow, MineFlow, Local
  <2>3. Arrival(h)
    BY <1>5, <2>1 DEF Arrival, Local
  <2> QED
    BY <1>1, <1>2, <2>2, <2>3
<1> QED
  BY <1>6, <1>7, <1>8, <1>9, <1>10, <1>11, <1>12, <1>13, <1>14, <1>15, <1>16 DEF Step

(* A turn is that of a prompt.                                             *)
OfPrompt(t) == t # NoTurn => ev[t.root].kind = "prompt"

TurnsOfPrompts ==
  /\ \A h \in Hooks : ev[h].kind = "prompt" => hook[h].at # "new"
  /\ OfPrompt(active)
  /\ \A h \in Hooks : OfPrompt(hook[h].seen) /\ OfPrompt(hook[h].mine)

LEMMA NextPrompts ==
  ASSUME Grounds, TurnsOfPrompts, [Next]_vars
  PROVE  TurnsOfPrompts'
<1> USE DEF Grounds
<1>1. CASE UNCHANGED vars
  BY <1>1 DEF vars, disk, TurnsOfPrompts, OfPrompt
<1>2. CASE Next
  <2>1. PICK h \in Hooks :
          \/ \E k \in Kinds, g \in AnyGen, x \in Texts \cup {NoText} : Start(h, k, g, x)
          \/ Step(h) \/ FailOperation(h) \/ Crash(h)
    BY <1>2 DEF Next
  <2>2. \A o \in Hooks : o # h => hook'[o] = hook[o] /\ ev'[o] = ev[o]
    BY <2>1, OtherSteps
  <2>3. NewTurn(h).root = h
    BY DEF NewTurn
  <2>4. active \in Turn \cup {NoTurn} /\ \A t \in Turn : t.root \in Hooks
    BY DEF StateType, Turn
  (* A step after the first: no event changes. *)
  <2>5. ASSUME ev' = ev, hook'[h].at # "new",
               OfPrompt(active'), OfPrompt(hook'[h].seen), OfPrompt(hook'[h].mine)
        PROVE  TurnsOfPrompts'
    <3>1. \A o \in Hooks : OfPrompt(hook'[o].seen) /\ OfPrompt(hook'[o].mine)
      BY <2>2, <2>5 DEF TurnsOfPrompts
    <3>2. \A o \in Hooks : ev[o].kind = "prompt" => hook'[o].at # "new"
      BY <2>2, <2>5 DEF TurnsOfPrompts
    <3> QED
      BY <2>5, <3>1, <3>2 DEF TurnsOfPrompts, OfPrompt
  <2>6. CASE Step(h)
    <3>1. /\ ev' = ev /\ ev[h].kind \in Kinds /\ hook[h].at \in StagesOf(ev[h].kind)
          /\ ActiveFlow(h) /\ SeenFlow(h) /\ MineFlow(h) /\ Arrival(h)
      BY <2>6, Flow
    <3>2. hook[h].at = "save" => ev[h].kind = "prompt"
      BY <3>1, StageKinds
    <3>3. OfPrompt(active')
      BY <2>3, <3>1, <3>2 DEF ActiveFlow, TurnsOfPrompts, OfPrompt, SameTurn
    <3>4. OfPrompt(hook'[h].seen)
      BY <3>1, <3>3 DEF SeenFlow, TurnsOfPrompts, OfPrompt
    <3>5. OfPrompt(hook'[h].mine)
      BY <3>1 DEF MineFlow, TurnsOfPrompts, OfPrompt
    <3> QED
      BY <2>5, <3>1, <3>3, <3>4, <3>5 DEF Arrival
  <2>7. CASE FailOperation(h) \/ Crash(h)
    <3>1. UNCHANGED <<active, ev>> /\ hook[h].at # "new"
      BY <2>7 DEF FailOperation, Crash, disk, Running
    <3>2. \/ \E s \in Stages : FailedTo(h, s) /\ Local(h, s, hook[h].seen, hook[h].mine)
          \/ hook[h].at = "save" /\ Local(h, "root", hook[h].seen, NewTurn(h))
          \/ Local(h, "done", hook[h].seen, hook[h].mine)
      BY <2>7, OtherLocal
    <3>3. \A s : FailedTo(h, s) => s # "new"
      BY Branches DEF FailedTo, Handle, NotAppended
    <3>4. hook[h].at = "save" => ev[h].kind = "prompt"
      <4>1. hook[h].at = "save" => hook[h].at \in StagesOf(ev[h].kind) /\ ev[h].kind \in Kinds
        BY DEF Paths, OnPath, StateType, Event
      <4> QED
        BY <4>1, StageKinds
    <3>5. hook'[h].at # "new"
      BY <3>2, <3>3 DEF Local
    <3>6. OfPrompt(hook'[h].seen) /\ OfPrompt(hook'[h].mine)
      BY <2>3, <3>2, <3>4 DEF Local, TurnsOfPrompts, OfPrompt
    <3>7. OfPrompt(active')
      BY <3>1 DEF TurnsOfPrompts
    <3> QED
      BY <2>5, <3>1, <3>5, <3>6, <3>7
  <2>8. CASE \E k \in Kinds, g \in AnyGen, x \in Texts \cup {NoText} : Start(h, k, g, x)
    <3>1. PICK k \in Kinds, g \in AnyGen, x \in Texts \cup {NoText} : Start(h, k, g, x)
      BY <2>8
    <3>2. Local(h, First(k), NoTurn, hook[h].mine)
      BY <3>1, OtherLocal
    <3>3. hook[h].at = "new" /\ active' = active
      BY <3>1 DEF Start, disk
    <3>4. First(k) \in {"flush", "send", "get"}
      BY StagesType
    <3>5. ev[h].kind # "prompt"
      BY <3>3 DEF TurnsOfPrompts
    <3>6. \A t \in Turn : OfPrompt(t) => t.root # h /\ ev'[t.root] = ev[t.root]
      BY <2>2, <2>4, <3>5, NoTurnAssumption DEF OfPrompt
    <3>7. \A o \in Hooks : /\ hook'[o].seen \in {hook[o].seen, NoTurn}
                           /\ hook'[o].mine \in {hook[o].mine, NoTurn}
                           /\ hook[o].seen \in Turn \cup {NoTurn} /\ hook[o].mine \in Turn \cup {NoTurn}
      BY <3>2 DEF Local, StateType, HookType
    <3>8. OfPrompt(active)' /\ \A o \in Hooks : OfPrompt(hook[o].seen)' /\ OfPrompt(hook[o].mine)'
      BY <2>4, <3>3, <3>6, <3>7 DEF OfPrompt, TurnsOfPrompts
    <3>9. \A o \in Hooks : ev'[o].kind = "prompt" => hook'[o].at # "new"
      BY <2>2, <3>2, <3>4 DEF Local, TurnsOfPrompts
    <3> QED
      BY <3>8, <3>9 DEF TurnsOfPrompts
  <2> QED
    BY <2>1, <2>6, <2>7, <2>8
<1> QED
  BY <1>1, <1>2

-----------------------------------------------------------------------------
(* Where prompts and session ends come one after the other                 *)

Closers == {"prompt", "sessionEnd"}

Prompts == {p \in Hooks : ev[p].kind = "prompt"}

PromptsApart ==
  \A p, q \in Prompts : ev[p].gen = ev[q].gen /\ ev[p].gen # NoGen => p = q

PromptFirst ==
  \A p \in Prompts, h \in Hooks :
    h # p /\ hook[h].at # "new" /\ ev[h].gen = ev[p].gen /\ ev[p].gen # NoGen => hook[p].at = "done"

OneCloser ==
  \A h, o \in Hooks :
    Running(h) /\ Running(o) /\ ev[h].kind \in Closers /\ ev[o].kind \in Closers => h = o

(* From the flush on, no turn is open while a prompt or session end runs.  *)
NoneOpen ==
  \A h \in Hooks :
    Running(h) /\ ev[h].kind \in Closers /\ hook[h].at # "flush" => active = NoTurn

SavedByDone(t) == t # NoTurn => hook[t.root].at = "done"

TurnsDone ==
  SavedByDone(active) /\ \A h \in Hooks : SavedByDone(hook[h].seen) /\ SavedByDone(hook[h].mine)

SteadyOrder ==
  Steady => PromptsApart /\ PromptFirst /\ OneCloser /\ NoneOpen /\ TurnsDone

LEMMA NextOrder ==
  ASSUME Grounds, TurnsOfPrompts, SteadyOrder, [Next]_vars
  PROVE  SteadyOrder'
<1> USE DEF Grounds
<1>1. CASE UNCHANGED vars
  BY <1>1 DEF vars, disk, SteadyOrder, Steady, PromptsApart, PromptFirst, OneCloser, NoneOpen,
              TurnsDone, SavedByDone, Prompts, Running
<1>2. CASE Next
  <2> SUFFICES ASSUME Steady'
               PROVE  (PromptsApart /\ PromptFirst /\ OneCloser /\ NoneOpen /\ TurnsDone)'
    BY DEF SteadyOrder
  <2>1. PICK h \in Hooks :
          \/ \E k \in Kinds, g \in AnyGen, x \in Texts \cup {NoText} : Start(h, k, g, x)
          \/ Step(h) \/ FailOperation(h) \/ Crash(h)
    BY <1>2 DEF Next
  <2>2. \A o \in Hooks : o # h => hook'[o] = hook[o] /\ ev'[o] = ev[o]
    BY <2>1, OtherSteps
  <2>3. mode' = mode
    BY <2>1 DEF Step, Start, FailOperation, Crash, disk, GetActive, CheckMarked, ReadRoot, RecordAlias,
         AddResponse, CheckLate, Push, Pop, AddThought, SendPoint, Claim, ClearIfMatches, SendRoot,
         SendLlm, SendStop, Flush, MarkClosed, CleanUp, ResetNogen, SaveRoot, SaveTurn, EndSession,
         RemoveActive
  <2>4. Steady /\ ~FailOperation(h) /\ ~Crash(h)
    BY <2>3 DEF Steady, FailOperation, Crash
  <2>5. PromptsApart /\ PromptFirst /\ OneCloser /\ NoneOpen /\ TurnsDone
    BY <2>4 DEF SteadyOrder
  <2>6. /\ active \in Turn \cup {NoTurn}
        /\ \A o \in Hooks : hook[o].seen \in Turn \cup {NoTurn} /\ hook[o].mine \in Turn \cup {NoTurn}
        /\ \A t \in Turn : t.root \in Hooks
    BY DEF StateType, HookType, Turn
  <2>7. CASE Step(h)
    <3>1. /\ ev' = ev /\ ev[h].kind \in Kinds /\ hook[h].at \in StagesOf(ev[h].kind)
          /\ hook[h].at \notin {"new", "done"}
          /\ ActiveFlow(h) /\ SeenFlow(h) /\ MineFlow(h) /\ Arrival(h)
      BY <2>7, Flow
    <3>2. \A o \in Hooks : /\ hook[o].at = "done" => hook'[o].at = "done"
                           /\ hook'[o].at # "new" <=> hook[o].at # "new"
                           /\ Running(o)' => Running(o)
      BY <2>2, <3>1 DEF Arrival, Running
    <3>3. PromptsApart' /\ PromptFirst' /\ OneCloser'
      BY <2>5, <3>1, <3>2 DEF PromptsApart, PromptFirst, OneCloser, Prompts
    <3>4. hook[h].at = "save" => ev[h].kind = "prompt"
      BY <3>1, StageKinds
    <3>5. NoneOpen'
      <4> SUFFICES ASSUME NEW o \in Hooks, Running(o)', ev'[o].kind \in Closers, hook'[o].at # "flush"
                   PROVE  active' = NoTurn
        BY DEF NoneOpen
      <4>1. Running(o) /\ ev[o].kind \in Closers
        BY <3>1, <3>2
      <4>2. CASE o = h /\ hook[h].at = "flush"
        <5>1. Flush(h)
          BY <2>7, <4>2 DEF Step, GetActive, CheckMarked, ReadRoot, RecordAlias, AddResponse, CheckLate,
             Push, Pop, AddThought, SendPoint, Claim, ClearIfMatches, SendRoot, SendLlm, SendStop,
             MarkClosed, CleanUp, ResetNogen, SaveRoot, SaveTurn, EndSession, RemoveActive
        <5> QED
          BY <5>1 DEF Flush
      <4>3. CASE ~(o = h /\ hook[h].at = "flush")
        <5>1. active = NoTurn
          BY <2>2, <2>5, <4>1, <4>3 DEF NoneOpen
        <5>2. ~(active' = NewTurn(h) /\ hook[h].at = "save" /\ hook'[h].at = "done")
          <6>1. SUFFICES ASSUME hook[h].at = "save", hook'[h].at = "done"
                         PROVE  FALSE
            OBVIOUS
          <6>2. Running(h) /\ ev[h].kind \in Closers
            BY <3>4, <6>1 DEF Running, Closers
          <6>3. o = h
            BY <2>5, <4>1, <6>2 DEF OneCloser
          <6> QED
            BY <6>1, <6>3 DEF Running
        <5> QED
          BY <3>1, <5>1, <5>2 DEF ActiveFlow, SameTurn
      <4> QED
        BY <4>2, <4>3
    <3>6. TurnsDone'
      <4>1. NewTurn(h).root = h
        BY DEF NewTurn
      <4>2. \A t \in Turn \cup {NoTurn} : SavedByDone(t) => SavedByDone(t)'
        BY <2>6, <3>2 DEF SavedByDone
      <4>3. SavedByDone(active)'
        BY <2>5, <2>6, <3>1, <3>2, <4>1 DEF TurnsDone, SavedByDone, ActiveFlow, SameTurn
      <4>4. SavedByDone(hook[h].seen)' /\ SavedByDone(hook[h].mine)'
        <5>1. SavedByDone(hook[h].seen)'
          BY <2>5, <2>6, <3>1, <3>2, <4>3 DEF TurnsDone, SavedByDone, SeenFlow
        <5>2. SavedByDone(hook[h].mine)'
          BY <2>5, <2>6, <3>1, <3>2 DEF TurnsDone, SavedByDone, MineFlow
        <5> QED
          BY <5>1, <5>2
      <4>5. \A o \in Hooks : o # h => SavedByDone(hook[o].seen)' /\ SavedByDone(hook[o].mine)'
        BY <2>2, <2>5, <2>6, <3>2 DEF TurnsDone, SavedByDone
      <4> QED
        BY <4>3, <4>4, <4>5 DEF TurnsDone
    <3> QED
      BY <3>3, <3>5, <3>6
  <2>8. CASE \E k \in Kinds, g \in AnyGen, x \in Texts \cup {NoText} : Start(h, k, g, x)
    <3>1. PICK k \in Kinds, g \in AnyGen, x \in Texts \cup {NoText} : Start(h, k, g, x)
      BY <2>8
    <3>2. Local(h, First(k), NoTurn, hook[h].mine)
      BY <3>1, OtherLocal
    <3>3. /\ hook[h].at = "new" /\ active' = active
          /\ ~\E o \in Hooks : Running(o) /\ Precedes(ev[o], k, g)
          /\ mode.fresh /\ k = "prompt" => g \notin used
      BY <3>1 DEF Start, disk
    <3>4. First(k) \in {"flush", "send", "get"} /\ (k \in Closers => First(k) = "flush")
      BY StagesType DEF First, Closers
    <3>5. ev'[h].kind = k /\ ev'[h].gen = g /\ hook'[h].at = First(k)
      BY <3>1, <3>2 DEF StateType, Start, Local
    <3>6. ev[h].kind # "prompt"
      BY <3>3 DEF TurnsOfPrompts
    <3>7. \A o \in Hooks : o # h /\ hook[o].at # "new" => ev[o].gen \in used \cup {NoGen}
      BY DEF IdsKnown
    <3>8. \A p \in Hooks : p # h => (p \in Prompts' <=> p \in Prompts)
      BY <2>2 DEF Prompts
    <3>9. h \in Prompts' => k = "prompt" /\ g \notin used
      BY <2>4, <3>3, <3>5 DEF Prompts, Steady
    <3>10. PromptsApart'
      <4>1. \A p \in Prompts : p # h => hook[p].at # "new" /\ ev[p].gen \in used \cup {NoGen}
        BY <3>7 DEF Prompts, TurnsOfPrompts
      <4> SUFFICES ASSUME NEW p \in Prompts', NEW q \in Prompts',
                          ev'[p].gen = ev'[q].gen, ev'[p].gen # NoGen, p # q
                   PROVE  FALSE
        BY DEF PromptsApart
      <4>2. p \in Hooks /\ q \in Hooks
        BY DEF Prompts
      <4>3. CASE p # h /\ q # h
        BY <2>2, <2>5, <3>8, <4>2, <4>3 DEF PromptsApart
      <4>4. CASE p = h
        BY <2>2, <3>5, <3>8, <3>9, <4>1, <4>2, <4>4
      <4>5. CASE q = h
        BY <2>2, <3>5, <3>8, <3>9, <4>1, <4>2, <4>5
      <4> QED
        BY <4>3, <4>4, <4>5
    <3>11. PromptFirst'
      <4> SUFFICES ASSUME NEW p \in Prompts', NEW o \in Hooks, o # p, hook'[o].at # "new",
                          ev'[o].gen = ev'[p].gen, ev'[p].gen # NoGen
                   PROVE  hook'[p].at = "done"
        BY DEF PromptFirst
      <4>1. p \in Hooks
        BY DEF Prompts
      <4>2. CASE p # h /\ o # h
        BY <2>2, <2>5, <3>8, <4>1, <4>2 DEF PromptFirst
      <4>3. CASE o = h
        <5>1. p \in Prompts /\ hook'[p] = hook[p] /\ ev'[p] = ev[p] /\ g = ev[p].gen
          BY <2>2, <3>5, <3>8, <4>1, <4>3
        <5>2. Precedes(ev[p], k, g)
          BY <2>4, <5>1 DEF Precedes, Steady, Prompts
        <5>3. ~Running(p)
          BY <3>3, <4>1, <5>2
        <5>4. hook[p].at # "new"
          BY <5>1 DEF Prompts, TurnsOfPrompts
        <5> QED
          BY <5>1, <5>3, <5>4 DEF Running
      <4>4. CASE p = h
        <5>1. g \notin used /\ o # h /\ ev[o].gen = g /\ hook[o].at # "new" /\ g # NoGen
          BY <2>2, <3>5, <3>9, <4>4
        <5> QED
          BY <3>7, <5>1
      <4> QED
        BY <4>2, <4>3, <4>4
    <3>12. OneCloser'
      <4>1. \A o \in Hooks : o # h => (Running(o)' <=> Running(o))
        BY <2>2 DEF Running
      <4>2. k \in Closers => \A o \in Hooks : Running(o) => ev[o].kind \notin Closers
        BY <2>4, <3>3 DEF Precedes, Steady, Closers
      <4> QED
        BY <2>2, <2>5, <3>5, <4>1, <4>2 DEF OneCloser
    <3>13. NoneOpen'
      BY <2>2, <2>5, <3>3, <3>4, <3>5 DEF NoneOpen, Running
    <3>14. TurnsDone'
      <4>1. \A t \in Turn \cup {NoTurn} : SavedByDone(t) => SavedByDone(t)'
        BY <2>2, <2>6, <3>3 DEF SavedByDone
      <4>2. SavedByDone(active)'
        BY <2>2, <2>5, <2>6, <3>3 DEF SavedByDone, TurnsDone
      <4>3. \A o \in Hooks : /\ hook'[o].seen \in {hook[o].seen, NoTurn}
                             /\ hook'[o].mine \in {hook[o].mine, NoTurn}
        BY <3>2 DEF Local
      <4>4. \A o \in Hooks : SavedByDone(hook[o].seen)' /\ SavedByDone(hook[o].mine)'
        BY <2>2, <2>5, <2>6, <3>3, <4>3 DEF SavedByDone, TurnsDone
      <4> QED
        BY <4>2, <4>4 DEF TurnsDone
    <3> QED
      BY <3>10, <3>11, <3>12, <3>13, <3>14
  <2> QED
    BY <2>1, <2>4, <2>7, <2>8
<1> QED
  BY <1>1, <1>2

-----------------------------------------------------------------------------
(* A stop closes the turn it resolved to                                   *)

(* The prompt of a generation whose prompt is over: its generation is      *)
(* marked, its turn is open, or a prompt or session end is about to mark   *)
(* it.                                                                     *)
MarkedOrOpen(p) ==
  \/ IsMarked(ev[p].gen)
  \/ active # NoTurn /\ active.root = p
  \/ \E f \in Hooks : ev[f].kind \in Closers /\ hook[f].at = "mark" /\ hook[f].mine.root = p

DoneMarked ==
  \A p \in Prompts : hook[p].at = "done" /\ ev[p].gen # NoGen => MarkedOrOpen(p)

(* An event that may become an alias is of no prompt's generation.         *)
AliasesOfNone ==
  \A h \in Hooks, p \in Prompts :
    ev[p].gen = ev[h].gen =>
      /\ hook[h].at = "check" => IsMarked(ev[h].gen)
      /\ hook[h].at # "alias"

(* Of the generations that prompts have, a turn has its own prompt's only. *)
OwnIds(t) == t # NoTurn => \A p \in Prompts : ev[p].gen \in Ids(t) => p = t.root

IdsOfPrompts == OwnIds(active) /\ \A h \in Hooks : OwnIds(hook[h].seen) /\ OwnIds(hook[h].mine)

EndsMarked == Steady /\ Few => DoneMarked /\ AliasesOfNone /\ IdsOfPrompts

LEMMA StepAt ==
  ASSUME NEW h \in Hooks, Step(h)
  PROVE  /\ hook[h].at = "flush" => Flush(h)
         /\ hook[h].at = "mark" => MarkClosed(h)
         /\ hook[h].at = "save" => SaveTurn(h)
         /\ hook[h].at = "root" => SendRoot(h)
         /\ hook[h].at = "alias" => RecordAlias(h)
BY DEF Step, GetActive, CheckMarked, ReadRoot, RecordAlias, AddResponse, CheckLate,
       Push, Pop, AddThought, SendPoint, Claim, ClearIfMatches, SendRoot, SendLlm, SendStop,
       Flush, MarkClosed, CleanUp, ResetNogen, SaveRoot, SaveTurn, EndSession, RemoveActive

(* A turn on disk or with a hook is that of a prompt of its generation.    *)
LEMMA TurnFacts ==
  ASSUME Grounds, TurnsOfPrompts, NEW h \in Hooks,
         NEW t \in {active, hook[h].seen, hook[h].mine}, t # NoTurn
  PROVE  /\ t \in Turn /\ t.root \in Prompts /\ ev[t.root].gen = t.gen /\ KnownTurn(t)
         /\ t.gen # NoGen => t.gen \in Ids(t)
         /\ Ids(t) \subseteq Gens
<1> USE DEF Grounds
<1>1. t \in Turn
  BY DEF StateType, HookType
<1>2. t.root \in Hooks
  BY <1>1 DEF Turn
<1>3. TurnTracks(t)
  BY DEF TracesAgree, LocalTracks
<1>4. ev[t.root].gen = t.gen
  BY <1>2, <1>3, CursorAssumption DEF TurnTracks, Tracks
<1>5. t.root \in Prompts
  BY <1>2 DEF TurnsOfPrompts, OfPrompt, Prompts
<1>6. KnownTurn(t)
  BY DEF IdsKnown
<1> QED
  BY <1>1, <1>4, <1>5, <1>6, IdListParts DEF Ids

(* A stop that clears the active turn has resolved to it.                  *)
LEMMA OwnClear ==
  ASSUME Grounds, TurnsOfPrompts, IdsOfPrompts, NEW h \in Hooks, hook[h].at = "clear",
         active # NoTurn, hook[h].seen.root = active.root \/ hook[h].seen.gen \in Ids(active)
  PROVE  hook[h].seen # NoTurn /\ hook[h].seen.root = active.root
<1>1. hook[h].seen # NoTurn
  BY DEF Grounds, Resolved, Knows
<1>2. hook[h].seen.root \in Prompts /\ ev[hook[h].seen.root].gen = hook[h].seen.gen
  BY <1>1, TurnFacts
<1> QED
  BY <1>1, <1>2 DEF IdsOfPrompts, OwnIds

(* Marking writes the ids of the turn that was closed.                     *)
LEMMA MarkedMine ==
  ASSUME Grounds, NEW h \in Hooks, MarkClosed(h), Few
  PROVE  hook[h].mine # NoTurn /\ Ids(hook[h].mine) \subseteq Elems(markers')
<1> USE DEF Grounds
<1> DEFINE mine == hook[h].mine
           ids == IF ev[h].kind = "stop" THEN StopIds(mine, ev[h].gen) ELSE IdList(mine)
<1>1. mine # NoTurn /\ mine \in Turn /\ KnownTurn(mine) /\ ev[h].gen \in AnyGen
      /\ ev[h].gen \in used \cup {NoGen}
  BY DEF MarkClosed, Resolved, Knows, StateType, HookType, Event, IdsKnown
<1>2. ids \in Seq(Gens) /\ Distinct(ids) /\ Ids(mine) \subseteq Elems(ids)
      /\ Elems(ids) \subseteq Ids(mine) \cup ({ev[h].gen} \ {NoGen})
  BY <1>1, StopIdsParts, IdListParts DEF TurnIds
<1>3. Elems(ids) \subseteq used
  BY <1>1, <1>2 DEF KnownTurn
<1>4. Mark(ids) /\ used' = used
  BY DEF MarkClosed, history
<1> HIDE DEF ids
<1>5. Elems(markers') = Elems(markers) \cup Elems(ids)
  BY <1>2, <1>3, <1>4, MarkWrites
<1> QED
  BY <1>1, <1>2, <1>5

LEMMA NewTurnType ==
  ASSUME StateType, NEW h \in Hooks
  PROVE  NewTurn(h) \in Turn /\ NewTurn(h) # NoTurn /\ NewTurn(h).root = h
<1>1. ev[h].gen \in AnyGen
  BY DEF StateType, Event
<1>2. NewTurn(h) \in Turn /\ NewTurn(h).root = h
  BY <1>1, EmptySeq DEF NewTurn, Turn
<1> QED
  BY <1>2, NoTurnAssumption

(* A hook goes on: the prompts whose turns are over stay marked or open.   *)
LEMMA StepDone ==
  ASSUME Grounds, TurnsOfPrompts, SteadyOrder, OneClaim, Steady, Few,
         DoneMarked, IdsOfPrompts, NEW h \in Hooks, Step(h), Few', IdsKnown',
         Elems(markers) \subseteq Elems(markers'),
         \A o \in Hooks : o # h => hook'[o] = hook[o]
  PROVE  DoneMarked'
<1> USE DEF Grounds
<1>1. /\ ev' = ev /\ ev[h].kind \in Kinds /\ hook[h].at \in StagesOf(ev[h].kind)
      /\ hook[h].at \notin {"new", "done"}
      /\ ActiveFlow(h) /\ SeenFlow(h) /\ MineFlow(h) /\ Arrival(h)
  BY Flow
<1>2. PromptsApart /\ PromptFirst /\ OneCloser /\ NoneOpen /\ TurnsDone
  BY DEF SteadyOrder
<1>3. Prompts' = Prompts /\ \A g : IsMarked(g) => IsMarked(g)'
  BY <1>1 DEF Prompts, IsMarked, Elems
<1>4. Running(h)
  BY <1>1 DEF Running
<1> SUFFICES ASSUME NEW p \in Prompts, hook'[p].at = "done", ev[p].gen # NoGen
             PROVE  MarkedOrOpen(p)'
  BY <1>1, <1>3 DEF DoneMarked
<1>5. p \in Hooks /\ ev[p].kind = "prompt"
  BY DEF Prompts
<1>6. CASE hook[p].at # "done"
  <2>1. p = h
    BY <1>5, <1>6
  <2>2. ~(hook[h].at = "mark" /\ hook[h].mine.root = h)
    <3>1. hook[h].at = "mark" => hook[h].mine # NoTurn
      BY DEF Resolved, Knows
    <3> QED
      BY <1>1, <1>2, <3>1 DEF TurnsDone, SavedByDone
  <2>3. SaveTurn(h)
    BY <1>1, <1>5, <2>1, <2>2, StepAt DEF Arrival
  <2>4. active' # NoTurn /\ active'.root = h
    BY <2>3, NewTurnType DEF SaveTurn
  <2> QED
    BY <2>1, <2>4 DEF MarkedOrOpen
<1>7. CASE hook[p].at = "done"
  <2>1. MarkedOrOpen(p)
    BY <1>7 DEF DoneMarked
  <2>2. CASE IsMarked(ev[p].gen)
    BY <1>1, <1>3, <2>2 DEF MarkedOrOpen
  <2>3. CASE active # NoTurn /\ active.root = p
    <3>1. CASE active' = active \/ SameTurn(active', active)
      BY <2>3, <3>1 DEF MarkedOrOpen, SameTurn
    <3>2. CASE hook[h].at = "clear" /\ (hook[h].seen.root = active.root \/ hook[h].seen.gen \in Ids(active))
      <4>1. hook[h].seen # NoTurn /\ hook[h].seen.root = p
        BY <2>3, <3>2, OwnClear
      <4>2. hook[h].seen.gen = ev[p].gen /\ ev[p].gen \in Ids(hook[h].seen)
        BY <4>1, TurnFacts
      <4>3. Claimant(h)
        BY <1>1, <3>2, StageKinds DEF Claimant, Claimed
      <4>4. ev[p].gen \in Claims(h)
        BY <4>1, <4>2 DEF Claims, TurnIds
      <4>5. IsMarked(ev[p].gen)
        BY <4>3, <4>4 DEF OneClaim, ClaimsMarked, IsMarked, Steady
      <4> QED
        BY <1>1, <1>3, <4>5 DEF MarkedOrOpen
    <3>3. CASE hook[h].at = "flush" /\ hook'[h].at = "mark" /\ hook'[h].mine = active
      <4>1. ev'[h].kind \in Closers
        BY <1>1, <3>3, StageKinds DEF Closers
      <4> QED
        BY <2>3, <3>3, <4>1 DEF MarkedOrOpen
    <3>4. CASE hook[h].at = "wipe" \/ hook[h].at = "save"
      <4>1. ev[h].kind \in Closers
        BY <1>1, <3>4, StageKinds DEF Closers
      <4> QED
        BY <1>2, <1>4, <2>3, <3>4, <4>1 DEF NoneOpen
    <3> QED
      BY <1>1, <3>1, <3>2, <3>3, <3>4 DEF ActiveFlow
  <2>4. CASE \E f \in Hooks : ev[f].kind \in Closers /\ hook[f].at = "mark" /\ hook[f].mine.root = p
    <3>1. PICK f \in Hooks : ev[f].kind \in Closers /\ hook[f].at = "mark" /\ hook[f].mine.root = p
      BY <2>4
    <3>2. CASE f # h
      BY <1>1, <3>1, <3>2 DEF MarkedOrOpen
    <3>3. CASE f = h
      <4>1. hook[h].mine # NoTurn /\ Ids(hook[h].mine) \subseteq Elems(markers')
        BY <3>1, <3>3, StepAt, MarkedMine
      <4>2. ev[p].gen \in Ids(hook[h].mine)
        BY <3>1, <3>3, <4>1, TurnFacts
      <4> QED
        BY <1>1, <4>1, <4>2 DEF MarkedOrOpen, IsMarked, Elems
    <3> QED
      BY <3>2, <3>3
  <2> QED
    BY <2>1, <2>2, <2>3, <2>4 DEF MarkedOrOpen
<1> QED
  BY <1>6, <1>7

LEMMA StepAliases ==
  ASSUME Grounds, TurnsOfPrompts, SteadyOrder, Steady,
         DoneMarked, AliasesOfNone, IdsOfPrompts, NEW h \in Hooks, Step(h),
         Elems(markers) \subseteq Elems(markers'),
         \A o \in Hooks : o # h => hook'[o] = hook[o]
  PROVE  AliasesOfNone'
<1> USE DEF Grounds
<1>1. /\ ev' = ev /\ ev[h].kind \in Kinds /\ hook[h].at \in StagesOf(ev[h].kind)
      /\ hook[h].at \notin {"new", "done"} /\ ev[h].gen \in AnyGen
      /\ ActiveFlow(h) /\ SeenFlow(h) /\ MineFlow(h) /\ Arrival(h)
  BY Flow
<1>2. PromptsApart /\ PromptFirst /\ OneCloser /\ NoneOpen /\ TurnsDone
  BY DEF SteadyOrder
<1>3. Prompts' = Prompts /\ \A g : IsMarked(g) => IsMarked(g)'
  BY <1>1 DEF Prompts, IsMarked, Elems
<1> SUFFICES ASSUME NEW p \in Prompts, ev[p].gen = ev[h].gen
             PROVE  /\ hook'[h].at = "check" => IsMarked(ev[h].gen)'
                    /\ hook'[h].at # "alias"
  BY <1>1, <1>3 DEF AliasesOfNone
<1>4. p \in Hooks /\ ev[p].kind = "prompt"
  BY DEF Prompts
<1>5. ASSUME hook'[h].at = "alias"
      PROVE  FALSE
  BY <1>1, <1>5 DEF Arrival, AliasesOfNone
<1>6. ASSUME hook'[h].at = "check"
      PROVE  IsMarked(ev[h].gen)'
  <2>1. hook[h].at = "get" /\ active # NoTurn /\ ~Matches(active, ev[h].gen)
    BY <1>1, <1>6 DEF Arrival
  <2>2. ev[h].gen # NoGen /\ ev[h].gen \notin Ids(active)
    BY <2>1 DEF Matches
  <2>3. p # h
    BY <1>1, <1>4, <2>1, StageKinds
  <2>4. hook[p].at = "done"
    BY <1>1, <1>2, <1>4, <2>2, <2>3 DEF PromptFirst
  <2>5. MarkedOrOpen(p)
    BY <2>2, <2>4 DEF DoneMarked
  <2>6. ASSUME active.root = p
        PROVE  FALSE
    BY <2>1, <2>2, <2>6, TurnFacts
  <2>7. ASSUME NEW f \in Hooks, ev[f].kind \in Closers, hook[f].at = "mark"
        PROVE  FALSE
    BY <1>2, <2>1, <2>7 DEF NoneOpen, Running
  <2>8. IsMarked(ev[h].gen)
    BY <2>1, <2>5, <2>6, <2>7 DEF MarkedOrOpen
  <2> QED
    BY <1>1, <2>8 DEF IsMarked, Elems
<1> QED
  BY <1>5, <1>6

LEMMA StepIdsOfPrompts ==
  ASSUME Grounds, TurnsOfPrompts, SteadyOrder, Steady, AliasesOfNone, IdsOfPrompts,
         NEW h \in Hooks, Step(h),
         \A o \in Hooks : o # h => hook'[o] = hook[o]
  PROVE  IdsOfPrompts'
<1> USE DEF Grounds
<1>1. /\ ev' = ev /\ ev[h].kind \in Kinds /\ hook[h].at \in StagesOf(ev[h].kind)
      /\ hook[h].at \notin {"new", "done"} /\ ev[h].gen \in AnyGen
      /\ ActiveFlow(h) /\ SeenFlow(h) /\ MineFlow(h)
  BY Flow
<1>2. PromptsApart
  BY DEF SteadyOrder
<1>3. Prompts' = Prompts
  BY <1>1 DEF Prompts
<1>4. \A t : OwnIds(t) => OwnIds(t)'
  BY <1>1, <1>3 DEF OwnIds, Ids, Elems
<1>5. OwnIds(active)'
  <2>1. CASE active' = active
    BY <1>4, <2>1 DEF IdsOfPrompts, OwnIds, Ids, Elems
  <2>2. CASE /\ SameTurn(active', active)
             /\ Ids(active') \subseteq Ids(active) \cup NewId(h)
    <3> SUFFICES ASSUME NEW p \in Prompts, ev[p].gen \in Ids(active')
                 PROVE  p = active'.root
      BY <1>1, <1>3 DEF OwnIds, Ids, Elems
    <3>1. ev[p].gen \notin NewId(h)
      BY DEF NewId, AliasesOfNone
    <3> QED
      BY <2>2, <3>1 DEF IdsOfPrompts, OwnIds, SameTurn
  <2>3. CASE active' = NoTurn
    BY <2>3 DEF OwnIds
  <2>4. CASE active' = NewTurn(h) /\ hook[h].at = "save"
    <3>1. h \in Prompts
      BY <1>1, <2>4, StageKinds DEF Prompts
    <3>2. Ids(active') = {ev[h].gen} \ {NoGen} /\ active'.root = h
      <4>1. ev[h].gen \in used \cup {NoGen}
        BY <1>1 DEF IdsKnown
      <4>2. Ids(NewTurn(h)) = {ev[h].gen} \ {NoGen} /\ NewTurn(h).root = h
        BY <4>1, NewTurnKnown DEF NewTurn
      <4> QED
        BY <2>4, <4>2
    <3> SUFFICES ASSUME NEW p \in Prompts, ev[p].gen \in Ids(active')
                 PROVE  p = active'.root
      BY <1>1, <1>3 DEF OwnIds, Ids, Elems
    <3> QED
      BY <1>2, <3>1, <3>2 DEF PromptsApart
  <2> QED
    BY <1>1, <2>1, <2>2, <2>3, <2>4 DEF ActiveFlow
<1>6. OwnIds(hook[h].seen)' /\ OwnIds(hook[h].mine)'
  <2>1. \A t \in {NoTurn, hook[h].seen, hook[h].mine, active} : OwnIds(t)'
    BY <1>4 DEF IdsOfPrompts, OwnIds
  <2>2. \A t : t = active' => OwnIds(t)'
    BY <1>5 DEF OwnIds, Ids, Elems
  <2>3. \A t : t = hook'[h].seen => OwnIds(t)'
    BY <1>1, <2>1, <2>2 DEF SeenFlow
  <2>4. \A t : t = hook'[h].mine => OwnIds(t)'
    BY <1>1, <2>1 DEF MineFlow
  <2> QED
    BY <2>3, <2>4 DEF OwnIds, Ids, Elems
<1>7. \A o \in Hooks : o # h => OwnIds(hook[o].seen)' /\ OwnIds(hook[o].mine)'
  BY <1>4 DEF IdsOfPrompts, OwnIds, Ids, Elems
<1> QED
  BY <1>5, <1>6, <1>7 DEF IdsOfPrompts

(* A prompt begins with a generation that no turn and no event has had.    *)
LEMMA StartEnds ==
  ASSUME Grounds, TurnsOfPrompts, Steady, DoneMarked, AliasesOfNone, IdsOfPrompts, NEW h \in Hooks,
         NEW k \in Kinds, NEW g \in AnyGen, NEW x \in Texts \cup {NoText}, Start(h, k, g, x)
  PROVE  (DoneMarked /\ AliasesOfNone /\ IdsOfPrompts)'
<1> USE DEF Grounds
<1>1. /\ hook[h].at = "new" /\ active' = active /\ markers' = markers
      /\ mode.fresh /\ k = "prompt" => g \notin used
  BY DEF Start, disk
<1>2. Local(h, First(k), NoTurn, hook[h].mine) /\ First(k) \in {"flush", "send", "get"}
  BY OtherLocal, StagesType
<1>3. \A o \in Hooks : o # h => hook'[o] = hook[o] /\ ev'[o] = ev[o]
  BY OtherSteps
<1>4. ev'[h].kind = k /\ ev'[h].gen = g /\ hook'[h].at = First(k)
  BY <1>2 DEF StateType, Start, Local
<1>5. ev[h].kind # "prompt"
  BY <1>1 DEF TurnsOfPrompts
<1>6. \A p \in Prompts' : \/ p # h /\ p \in Prompts /\ ev'[p] = ev[p] /\ hook'[p] = hook[p]
                          \/ p = h /\ ev'[p].gen = g /\ g \notin used
  BY <1>1, <1>3, <1>4 DEF Prompts, Steady
<1>7. \A o \in Hooks : hook[o].at # "new" => ev[o].gen \in used \cup {NoGen}
  BY DEF IdsKnown
<1>8. DoneMarked'
  <2> SUFFICES ASSUME NEW p \in Prompts', hook'[p].at = "done", ev'[p].gen # NoGen
               PROVE  MarkedOrOpen(p)'
    BY DEF DoneMarked
  <2>1. p # h /\ p \in Prompts /\ ev'[p] = ev[p] /\ hook[p].at = "done"
    BY <1>2, <1>4, <1>6
  <2>2. MarkedOrOpen(p)
    BY <2>1 DEF DoneMarked
  <2>3. IsMarked(ev[p].gen) => IsMarked(ev[p].gen)'
    BY <1>1, <2>1 DEF IsMarked, Elems
  <2>4. \A f \in Hooks : hook[f].at = "mark" => ev'[f] = ev[f] /\ hook'[f] = hook[f]
    BY <1>1, <1>3
  <2> QED
    BY <1>1, <2>1, <2>2, <2>3, <2>4 DEF MarkedOrOpen
<1>9. AliasesOfNone'
  <2> SUFFICES ASSUME NEW o \in Hooks, NEW p \in Prompts', ev'[p].gen = ev'[o].gen
               PROVE  /\ hook'[o].at = "check" => IsMarked(ev[o].gen)'
                      /\ hook'[o].at # "alias"
    BY DEF AliasesOfNone
  <2>1. CASE hook'[o].at \in {"check", "alias"}
    <3>1. o # h /\ hook'[o] = hook[o] /\ ev'[o] = ev[o]
      BY <1>2, <1>3, <1>4, <2>1
    <3>2. ev[o].gen \in used
      BY <1>7, <2>1, <3>1 DEF Resolved, Knows
    <3>3. p \in Prompts /\ ev[p].gen = ev[o].gen
      BY <1>6, <3>1, <3>2
    <3>4. IsMarked(ev[o].gen) => IsMarked(ev[o].gen)'
      BY <1>1, <3>1 DEF IsMarked, Elems
    <3> QED
      BY <3>1, <3>3, <3>4 DEF AliasesOfNone
  <2>2. CASE hook'[o].at \notin {"check", "alias"}
    BY <2>2
  <2> QED
    BY <2>1, <2>2
<1>10. IdsOfPrompts'
  <2>1. ASSUME NEW t, KnownTurn(t), OwnIds(t)
        PROVE  OwnIds(t)'
    <3> SUFFICES ASSUME t # NoTurn, NEW p \in Prompts', ev'[p].gen \in Ids(t)
                 PROVE  p = t.root
      BY DEF OwnIds, Ids, Elems
    <3>1. ev'[p].gen \in used
      BY <2>1 DEF KnownTurn
    <3> QED
      BY <1>6, <2>1, <3>1 DEF OwnIds
  <2>2. \A o \in Hooks : hook'[o].seen \in {hook[o].seen, NoTurn} /\ hook'[o].mine \in {hook[o].mine, NoTurn}
    BY <1>2 DEF Local
  <2>3. KnownTurn(NoTurn) /\ OwnIds(NoTurn)
    BY DEF KnownTurn, OwnIds
  <2>4. \A o \in Hooks : \A t \in {hook[o].seen, hook[o].mine, active, NoTurn} : OwnIds(t)'
    BY <2>1, <2>3 DEF IdsOfPrompts, IdsKnown
  <2>5. \A o \in Hooks : \A t : t = hook'[o].seen \/ t = hook'[o].mine => OwnIds(t)'
    BY <2>2, <2>4
  <2>6. OwnIds(active)'
    BY <1>1, <2>4 DEF OwnIds, Ids, Elems
  <2> QED
    BY <2>5, <2>6 DEF IdsOfPrompts, OwnIds, Ids, Elems
<1> QED
  BY <1>8, <1>9, <1>10

LEMMA ModeStays ==
  ASSUME [Next]_vars
  PROVE  mode' = mode
<1>1. CASE UNCHANGED vars
  BY <1>1 DEF vars
<1>2. CASE Next
  <2>1. PICK h \in Hooks :
          \/ \E k \in Kinds, g \in AnyGen, x \in Texts \cup {NoText} : Start(h, k, g, x)
          \/ Step(h) \/ FailOperation(h) \/ Crash(h)
    BY <1>2 DEF Next
  <2> QED
    BY <2>1 DEF Step, Start, FailOperation, Crash, disk, GetActive, CheckMarked, ReadRoot, RecordAlias,
         AddResponse, CheckLate, Push, Pop, AddThought, SendPoint, Claim, ClearIfMatches, SendRoot,
         SendLlm, SendStop, Flush, MarkClosed, CleanUp, ResetNogen, SaveRoot, SaveTurn, EndSession,
         RemoveActive
<1> QED
  BY <1>1, <1>2

LEMMA NextEnds ==
  ASSUME Grounds, TurnsOfPrompts, SteadyOrder, OneClaim, EndsMarked, [Next]_vars
  PROVE  EndsMarked'
<1>1. CASE UNCHANGED vars
  BY <1>1 DEF vars, disk, history, EndsMarked, Steady, Few, DoneMarked, AliasesOfNone, IdsOfPrompts,
              MarkedOrOpen, IsMarked, OwnIds, Prompts, Ids, Elems
<1>2. CASE Next
  <2> SUFFICES ASSUME Steady', Few'
               PROVE  (DoneMarked /\ AliasesOfNone /\ IdsOfPrompts)'
    BY DEF EndsMarked
  <2>1. PICK h \in Hooks :
          \/ \E k \in Kinds, g \in AnyGen, x \in Texts \cup {NoText} : Start(h, k, g, x)
          \/ Step(h) \/ FailOperation(h) \/ Crash(h)
    BY <1>2 DEF Next
  <2>2. \A o \in Hooks : o # h => hook'[o] = hook[o] /\ ev'[o] = ev[o]
    BY <2>1, OtherSteps DEF Grounds
  <2>3. Steady /\ ~FailOperation(h) /\ ~Crash(h)
    BY ModeStays DEF Steady, FailOperation, Crash
  <2>4. IdsKnown' /\ Few /\ Elems(markers) \subseteq Elems(markers')
    BY NextKnown DEF Grounds
  <2>5. DoneMarked /\ AliasesOfNone /\ IdsOfPrompts
    BY <2>3, <2>4 DEF EndsMarked
  <2>6. CASE Step(h)
    BY <2>2, <2>3, <2>4, <2>5, <2>6, StepDone, StepAliases, StepIdsOfPrompts
  <2>7. CASE \E k \in Kinds, g \in AnyGen, x \in Texts \cup {NoText} : Start(h, k, g, x)
    BY <2>3, <2>5, <2>7, StartEnds
  <2> QED
    BY <2>1, <2>3, <2>6, <2>7
<1> QED
  BY <1>1, <1>2

(* What holds of the stops: the inductive invariant of this module.        *)
StopsInv == Grounds /\ OneClaim /\ TurnsOfPrompts /\ SteadyOrder /\ EndsMarked

LEMMA InitStops ==
  ASSUME Init
  PROVE  StopsInv
<1>1. \A h \in Hooks : /\ hook[h].at = "new" /\ hook[h].seen = NoTurn /\ hook[h].mine = NoTurn
                       /\ ev[h].kind = "tool"
  BY DEF Init, Idle
<1>2. active = NoTurn /\ spans = {}
  BY DEF Init
<1>3. OneClaim
  BY <1>1, <1>2 DEF OneClaim, ClaimsMarked, ClaimsApart, StopSpans, Claimant, Claimed
<1>4. TurnsOfPrompts /\ Prompts = {}
  BY <1>1, <1>2 DEF TurnsOfPrompts, OfPrompt, Prompts
<1>5. SteadyOrder
  BY <1>1, <1>2, <1>4 DEF SteadyOrder, PromptsApart, PromptFirst, OneCloser, NoneOpen, TurnsDone,
                          SavedByDone, Running
<1>6. EndsMarked
  BY <1>4 DEF EndsMarked, DoneMarked, AliasesOfNone, IdsOfPrompts, OwnIds
<1> QED
  BY <1>3, <1>4, <1>5, <1>6, InitGrounds DEF StopsInv

THEOREM StopsInvariant == Spec => []StopsInv
<1>1. Init => StopsInv
  BY InitStops
<1>2. StopsInv /\ [Next]_vars => StopsInv'
  BY NextGrounds, NextClaims, NextPrompts, NextOrder, NextEnds DEF StopsInv
<1> QED
  BY <1>1, <1>2, PTL DEF Spec

(* A stop closes the turn it resolved to, although others may have opened  *)
(* and closed since it looked: where prompts come one after the other and  *)
(* nothing fails, until more generations have been seen than the marker    *)
(* file has room for.                                                      *)
THEOREM StopClosesItsOwn == Spec /\ []Few => StopsItsOwnTurn
<1>1. StopsInv /\ Few /\ [Next]_vars =>
        [\A h \in Hooks :
           /\ Steady
           /\ hook[h].at = "clear" /\ hook'[h].mine # NoTurn
           => hook'[h].mine.root = hook[h].seen.root]_vars
  <2> SUFFICES ASSUME StopsInv, Few, [Next]_vars
               PROVE  [\A h \in Hooks :
                         /\ Steady
                         /\ hook[h].at = "clear" /\ hook'[h].mine # NoTurn
                         => hook'[h].mine.root = hook[h].seen.root]_vars
    OBVIOUS
  <2> USE DEF StopsInv, Grounds
  <2>1. CASE UNCHANGED vars
    BY <2>1
  <2>2. CASE Next
    <3> SUFFICES ASSUME NEW o \in Hooks, Steady, hook[o].at = "clear", hook'[o].mine # NoTurn
                 PROVE  hook'[o].mine.root = hook[o].seen.root
      OBVIOUS
    <3>1. PICK h \in Hooks :
            \/ \E k \in Kinds, g \in AnyGen, x \in Texts \cup {NoText} : Start(h, k, g, x)
            \/ Step(h) \/ FailOperation(h) \/ Crash(h)
      BY <2>2 DEF Next
    <3>2. \A q \in Hooks : q # h => hook'[q] = hook[q]
      BY <3>1, OtherSteps
    <3>3. hook[o].mine = NoTurn
      BY DEF OneOwner, OwnsWhileClosing, Closing
    <3>4. o = h
      BY <3>2, <3>3
    <3>5. Step(h)
      BY <3>1, <3>4 DEF Start, FailOperation, Crash, Steady
    <3>6. ActiveFlow(h) /\ MineFlow(h)
      BY <3>5, Flow
    <3>7. hook'[h].mine = active /\ active # NoTurn /\ active' = NoTurn
      BY <3>3, <3>4, <3>6 DEF MineFlow
    <3>8. hook[h].seen.root = active.root \/ hook[h].seen.gen \in Ids(active)
      BY <3>4, <3>6, <3>7 DEF ActiveFlow, SameTurn
    <3>9. IdsOfPrompts
      BY <3>4 DEF EndsMarked
    <3> QED
      BY <3>4, <3>7, <3>8, <3>9, OwnClear
  <2> QED
    BY <2>1, <2>2
<1> QED
  BY <1>1, StopsInvariant, PTL DEF Spec, StopsItsOwnTurn

-----------------------------------------------------------------------------
(* Closed turns stay closed: late events                                   *)

Enders == Closers \cup {"stop"}

RootSpans == {s \in spans : s.name = "root"}

OneEnder ==
  \A h, o \in Hooks :
    Running(h) /\ Running(o) /\ ev[h].kind \in Enders /\ ev[o].kind \in Enders => h = o

(* While a hook closes a turn, none is open.                               *)
HolderAlone == \A h \in Hooks : hook[h].mine # NoTurn => active = NoTurn

(* A root span reports the generation of no prompt but its turn's.         *)
RootIds ==
  \A s \in RootSpans :
    s.ends \subseteq used /\ \A p \in Prompts : ev[p].gen \in s.ends => p = s.turn

(* What a root span reports is marked, or the stop that sent it goes on to *)
(* mark it.                                                                *)
MarksDue(s) ==
  \E h \in Hooks : ev[h].kind = "stop" /\ hook[h].mine # NoTurn /\ s.ends \subseteq Ids(hook[h].mine)
RootsMarked == \A s \in RootSpans : s.ends \subseteq Elems(markers) \/ MarksDue(s)

(* A prompt or session end marks before it sends.                          *)
FlushMarked ==
  \A h \in Hooks :
    hook[h].at = "root" /\ ev[h].kind \in Closers => Ids(hook[h].mine) \subseteq Elems(markers)

(* An id about to become an alias is none that a root span has reported.   *)
NewIdsAreOut ==
  \A h \in Hooks :
    hook[h].at = "alias" /\ active # NoTurn /\ hook[h].seen.root = active.root
      => \A s \in RootSpans : ev[h].gen \notin s.ends

(* The inductive invariant behind LateEventsStayOut.                       *)
LateInv ==
  Orderly /\ Few =>
    /\ OneEnder /\ HolderAlone /\ RootIds /\ RootsMarked /\ FlushMarked /\ NewIdsAreOut
    /\ ClosedIdsAreOut

(* The steps of a hook that closes a turn, and those that lead there.      *)
LEMMA ClosingSteps ==
  ASSUME Grounds, NEW h \in Hooks, Step(h), ev[h].kind \in Enders
  PROVE  /\ ev[h].kind = "stop" /\ hook[h].mine # NoTurn =>
              hook'[h].mine = hook[h].mine \/ MarkClosed(h)
         /\ ev[h].kind \in Closers /\ hook'[h].at = "root" =>
              MarkClosed(h) /\ hook'[h].mine = hook[h].mine
<1> USE DEF Grounds
<1>1. hook[h].mine # NoTurn => hook[h].at \in Closing
  BY DEF OneOwner, OwnsWhileClosing
<1>2. hook[h].at \in StagesOf(ev[h].kind)
  BY Flow
<1>3. ASSUME hook[h].at \in Closing
      PROVE  SendRoot(h) \/ SendLlm(h) \/ SendStop(h) \/ MarkClosed(h) \/ CleanUp(h)
  BY <1>3 DEF Closing, Step, GetActive, CheckMarked, ReadRoot, RecordAlias, AddResponse, CheckLate,
     Push, Pop, AddThought, SendPoint, Claim, ClearIfMatches, Flush, ResetNogen, SaveRoot, SaveTurn,
     EndSession, RemoveActive
<1>4. ASSUME ev[h].kind = "stop", hook[h].mine # NoTurn
      PROVE  hook'[h].mine = hook[h].mine \/ MarkClosed(h)
  <2>1. CASE CleanUp(h)
    <3>1. ~Flushes(h)
      BY <1>4 DEF Flushes
    <3>2. Local(h, "mark", hook[h].seen, hook[h].mine)
      BY <1>4, <2>1, <3>1, ClosingLocal
    <3> QED
      BY <3>2 DEF Local
  <2>2. CASE SendRoot(h) \/ SendLlm(h) \/ SendStop(h)
    <3>1. \E s \in {"llm", "stop", "clean"} : Local(h, s, hook[h].seen, hook[h].mine)
      BY <2>2, StopLocal
    <3> QED
      BY <3>1 DEF Local
  <2> QED
    BY <1>1, <1>3, <1>4, <2>1, <2>2
<1>5. ASSUME ev[h].kind \in Closers, hook'[h].at = "root"
      PROVE  MarkClosed(h) /\ hook'[h].mine = hook[h].mine
  <2>1. ASSUME NEW s, NEW t, NEW m, Local(h, s, t, m)
        PROVE  s = "root" /\ hook'[h].mine = m
    BY <1>5, <2>1 DEF Local
  <2>2. ~(SendRoot(h) \/ SendLlm(h) \/ SendStop(h))
    BY <2>1, StopLocal
  <2>3. AfterFlush(ev[h]) # "root"
    BY Branches
  <2>4. ~CleanUp(h)
    <3> SUFFICES ASSUME CleanUp(h) PROVE FALSE
      OBVIOUS
    <3>1. \E s, m : s # "root" /\ Local(h, s, hook[h].seen, m)
      <4>1. CASE hook[h].mine = NoTurn
        BY <4>1, ClosingLocal
      <4>2. CASE hook[h].mine # NoTurn /\ Flushes(h)
        BY <2>3, <4>2, ClosingLocal
      <4>3. CASE hook[h].mine # NoTurn /\ ~Flushes(h)
        BY <4>3, ClosingLocal
      <4> QED
        BY <4>1, <4>2, <4>3
    <3> QED
      BY <2>1, <3>1
  <2>5. ~(Flush(h) \/ ResetNogen(h) \/ SaveRoot(h) \/ SaveTurn(h) \/ EndSession(h))
    BY <2>1, <2>3, ClosingLocal
  <2>6. ~RemoveActive(h)
    BY <2>1, ClosingLocal
  <2>7. MarkClosed(h)
    BY <1>2, <1>5, <2>2, <2>4, <2>5, <2>6 DEF Closers, StagesOf, Step, GetActive, CheckMarked,
       ReadRoot, RecordAlias, AddResponse, CheckLate, Push, Pop, AddThought, SendPoint, Claim,
       ClearIfMatches
  <2> QED
    BY <2>1, <2>7, ClosingLocal
<1> QED
  BY <1>4, <1>5

LEMMA RootSpansStay ==
  ASSUME NEW h \in Hooks,
         \/ \E k \in Kinds, g \in AnyGen, x \in Texts \cup {NoText} : Start(h, k, g, x)
         \/ Step(h),
         ev[h].kind # "root"
  PROVE  /\ ~SendRoot(h) => RootSpans' = RootSpans
         /\ SendRoot(h) => \E s : /\ RootSpans' = RootSpans \cup {s}
                                  /\ s.turn = hook[h].mine.root /\ s.ends = Ids(hook[h].mine)
<1>1. \A n, t, g, f, d : n # "root" /\ Sent(h, n, t, g, f, d) => RootSpans' = RootSpans
  BY DEF Sent, RootSpans
<1>2. CASE SendPoint(h)
  BY <1>1, <1>2 DEF SendPoint, SendRoot
<1>3. CASE SendLlm(h)
  <2>1. \E t, g, f : Sent(h, "llm", t, g, f, {})
    BY <1>3 DEF SendLlm
  <2> QED
    BY <1>1, <1>3, <2>1 DEF SendLlm, SendRoot
<1>4. CASE SendStop(h)
  <2>1. \E t, g, d : Sent(h, "stop", t, g, {}, d)
    BY <1>4 DEF SendStop
  <2> QED
    BY <1>1, <1>4, <2>1 DEF SendStop, SendRoot
<1>5. CASE EndSession(h)
  BY <1>1, <1>5 DEF EndSession, SendRoot
<1>6. CASE SendRoot(h)
  <2> DEFINE s == [name |-> "root", by |-> h, turn |-> hook[h].mine.root, trace |-> hook[h].mine.gen,
                   from |-> {}, ends |-> Ids(hook[h].mine)]
  <2>1. spans' = spans \cup {s} /\ s.name = "root" /\ s.turn = hook[h].mine.root
        /\ s.ends = Ids(hook[h].mine)
    BY <1>6 DEF SendRoot, Sent
  <2> HIDE DEF s
  <2>2. RootSpans' = RootSpans \cup {s}
    BY <2>1 DEF RootSpans
  <2> QED
    BY <1>6, <2>1, <2>2
<1>7. CASE ~(SendPoint(h) \/ SendLlm(h) \/ SendRoot(h) \/ SendStop(h) \/ EndSession(h))
  <2>1. spans' = spans
    BY <1>7 DEF Step, Start, GetActive, CheckMarked, ReadRoot, RecordAlias, AddResponse, CheckLate,
       Push, Pop, AddThought, Claim, ClearIfMatches, Flush, MarkClosed, CleanUp, ResetNogen, SaveRoot,
       SaveTurn, RemoveActive, history
  <2> QED
    BY <1>7, <2>1 DEF RootSpans
<1> QED
  BY <1>2, <1>3, <1>4, <1>5, <1>6, <1>7

LEMMA StepLate ==
  ASSUME StopsInv, Orderly, Few, NEW h \in Hooks, Step(h), Few',
         Elems(markers) \subseteq Elems(markers'),
         \A o \in Hooks : o # h => hook'[o] = hook[o],
         OneEnder, HolderAlone, RootIds, RootsMarked, FlushMarked, NewIdsAreOut, ClosedIdsAreOut
  PROVE  /\ OneEnder' /\ HolderAlone' /\ RootIds' /\ RootsMarked' /\ FlushMarked'
         /\ NewIdsAreOut' /\ ClosedIdsAreOut'
<1> USE DEF StopsInv, Grounds
<1>1. /\ ev' = ev /\ used' = used /\ ev[h].kind \in Kinds /\ hook[h].at \in StagesOf(ev[h].kind)
      /\ hook[h].at \notin {"new", "done"}
      /\ ActiveFlow(h) /\ SeenFlow(h) /\ MineFlow(h) /\ Arrival(h)
  BY Flow
<1>2. PromptsApart /\ PromptFirst /\ OneCloser /\ NoneOpen /\ TurnsDone
  BY DEF SteadyOrder, Orderly
<1>3. IdsOfPrompts /\ Prompts' = Prompts
  BY <1>1 DEF EndsMarked, Orderly, Prompts
<1>4. Running(h) /\ \A o \in Hooks : Running(o)' => Running(o)
  BY <1>1 DEF Running
<1>5. \A o \in Hooks : hook[o].mine # NoTurn => ev[o].kind \in Enders /\ Running(o)
  <2> SUFFICES ASSUME NEW o \in Hooks, hook[o].mine # NoTurn
               PROVE  ev[o].kind \in Enders /\ Running(o)
    OBVIOUS
  <2>1. hook[o].at \in Closing /\ hook[o].at \notin {"new", "done"}
    BY DEF OneOwner, OwnsWhileClosing, Closing
  <2>2. hook[o].at \in StagesOf(ev[o].kind) /\ ev[o].kind \in Kinds
    BY <2>1 DEF Paths, OnPath, StateType, Event
  <2>3. ev[o].kind \in {"prompt", "sessionEnd", "stop"}
    BY <2>1, <2>2 DEF Closing, StagesOf, Resolves, Kinds
  <2> QED
    BY <2>1, <2>3 DEF Running, Enders, Closers
<1>6. ev[h].kind # "root"
  BY <1>1 DEF Kinds
<1>7. Elems(markers)' = Elems(markers')
  BY DEF Elems
<1>8. OneEnder'
  BY <1>1, <1>4 DEF OneEnder
(* Only a prompt that saves its turn opens one, and it holds none. *)
<1>9. ASSUME active' = NewTurn(h), hook[h].at = "save"
      PROVE  /\ ev[h].kind = "prompt" /\ hook[h].mine = NoTurn
             /\ \A o \in Hooks : hook[o].mine = NoTurn
  <2>1. ev[h].kind = "prompt"
    BY <1>1, <1>9, StageKinds
  <2>2. hook[h].mine = NoTurn
    BY <1>9 DEF OneOwner, OwnsWhileClosing, Closing
  <2>3. \A o \in Hooks : hook[o].mine # NoTurn => o = h
    BY <1>4, <1>5, <2>1 DEF OneEnder, Enders, Closers
  <2> QED
    BY <2>1, <2>2, <2>3
<1>10. HolderAlone'
  <2> SUFFICES ASSUME NEW o \in Hooks, hook'[o].mine # NoTurn, active' # NoTurn
               PROVE  FALSE
    BY DEF HolderAlone
  <2>1. hook[o].mine # NoTurn
    BY <1>1 DEF MineFlow
  <2>2. active = NoTurn
    BY <2>1 DEF HolderAlone
  <2>3. active' = NewTurn(h) /\ hook[h].at = "save"
    BY <1>1, <2>2 DEF ActiveFlow, SameTurn
  <2> QED
    BY <1>9, <2>1, <2>3
<1>11. /\ ~SendRoot(h) => RootSpans' = RootSpans
       /\ SendRoot(h) => \E s : /\ RootSpans' = RootSpans \cup {s}
                                /\ s.turn = hook[h].mine.root /\ s.ends = Ids(hook[h].mine)
  BY <1>6, RootSpansStay
<1>12. SendRoot(h) => hook[h].at = "root" /\ hook[h].mine # NoTurn /\ Ids(hook[h].mine) \subseteq used
  BY TurnFacts DEF SendRoot, Resolved, Knows, KnownTurn
<1>13. RootIds'
  <2> SUFFICES ASSUME NEW s \in RootSpans'
               PROVE  s.ends \subseteq used /\ \A p \in Prompts : ev[p].gen \in s.ends => p = s.turn
    BY <1>1, <1>3 DEF RootIds
  <2>1. CASE s \in RootSpans
    BY <2>1 DEF RootIds
  <2>2. CASE s \notin RootSpans
    <3>1. s.turn = hook[h].mine.root /\ s.ends = Ids(hook[h].mine) /\ SendRoot(h)
      BY <1>11, <2>2
    <3> QED
      BY <1>3, <1>12, <3>1 DEF IdsOfPrompts, OwnIds
  <2> QED
    BY <2>1, <2>2
<1>14. FlushMarked'
  <2> SUFFICES ASSUME NEW o \in Hooks, hook'[o].at = "root", ev[o].kind \in Closers
               PROVE  Ids(hook'[o].mine) \subseteq Elems(markers')
    BY <1>1 DEF FlushMarked, Ids, Elems
  <2>1. CASE o # h
    BY <2>1 DEF FlushMarked
  <2>2. CASE o = h
    <3>1. MarkClosed(h) /\ hook'[h].mine = hook[h].mine
      BY <2>2, ClosingSteps DEF Enders
    <3> QED
      BY <2>2, <3>1, MarkedMine
  <2> QED
    BY <2>1, <2>2
<1>15. RootsMarked'
  <2> SUFFICES ASSUME NEW s \in RootSpans'
               PROVE  s.ends \subseteq Elems(markers') \/ MarksDue(s)'
    BY <1>7 DEF RootsMarked
  <2>1. ASSUME NEW o \in Hooks, ev[o].kind = "stop", hook[o].mine # NoTurn,
               s.ends \subseteq Ids(hook[o].mine)
        PROVE  s.ends \subseteq Elems(markers') \/ MarksDue(s)'
    <3>1. CASE hook'[o].mine = hook[o].mine
      <4>1. ev'[o].kind = "stop" /\ hook'[o].mine # NoTurn /\ s.ends \subseteq Ids(hook'[o].mine)
        BY <1>1, <2>1, <3>1
      <4> QED
        BY <4>1 DEF MarksDue, Ids, Elems
    <3>2. CASE hook'[o].mine # hook[o].mine
      <4>1. MarkClosed(h) /\ o = h
        BY <2>1, <3>2, ClosingSteps DEF Enders
      <4> QED
        BY <2>1, <4>1, MarkedMine
    <3> QED
      BY <3>1, <3>2
  <2>2. CASE s \in RootSpans
    BY <2>1, <2>2 DEF RootsMarked, MarksDue
  <2>3. CASE s \notin RootSpans
    <3>1. s.ends = Ids(hook[h].mine) /\ SendRoot(h)
      BY <1>11, <2>3
    <3>2. hook[h].at = "root" /\ hook[h].mine # NoTurn
      BY <1>12, <3>1
    <3>3. CASE ev[h].kind = "stop"
      BY <2>1, <3>1, <3>2, <3>3
    <3>4. CASE ev[h].kind # "stop"
      <4>1. ev[h].kind \in Closers
        BY <1>5, <3>2, <3>4 DEF Enders
      <4> QED
        BY <3>1, <3>2, <4>1 DEF FlushMarked
    <3> QED
      BY <3>3, <3>4
  <2> QED
    BY <2>2, <2>3
<1>16. NewIdsAreOut'
  <2> SUFFICES ASSUME NEW o \in Hooks, hook'[o].at = "alias", active' # NoTurn,
                      hook'[o].seen.root = active'.root, NEW s \in RootSpans'
               PROVE  ev[o].gen \notin s.ends
    BY <1>1 DEF NewIdsAreOut
  <2>1. hook[o].seen # NoTurn /\ hook'[o].seen = hook[o].seen
    BY <1>1 DEF Arrival, Resolved, Knows
  <2>2. hook[hook[o].seen.root].at = "done"
    BY <1>2, <2>1 DEF TurnsDone, SavedByDone
  <2>3. ~(active' = NewTurn(h) /\ hook[h].at = "save")
    <3>1. NewTurn(h).root = h
      BY DEF NewTurn
    <3> QED
      BY <1>1, <2>1, <2>2, <3>1
  <2>4. active # NoTurn /\ active'.root = active.root
    BY <1>1, <2>3 DEF ActiveFlow, SameTurn
  <2>5. s \in RootSpans
    <3>1. ~SendRoot(h)
      BY <1>12, <2>4 DEF HolderAlone
    <3> QED
      BY <1>11, <3>1
  <2>6. CASE o # h
    BY <2>1, <2>4, <2>5, <2>6 DEF NewIdsAreOut
  <2>7. CASE o = h
    <3>1. ~IsMarked(ev[h].gen)
      BY <1>1, <2>7 DEF Arrival
    <3>2. ~MarksDue(s)
      BY <2>4 DEF MarksDue, HolderAlone
    <3> QED
      BY <2>5, <2>7, <3>1, <3>2 DEF RootsMarked, IsMarked
  <2> QED
    BY <2>6, <2>7
<1>17. ClosedIdsAreOut'
  <2> SUFFICES ASSUME active' # NoTurn, NEW s \in RootSpans'
               PROVE  s.ends \cap Ids(active') = {}
    BY DEF ClosedIdsAreOut, RootSpans, Ids, Elems
  <2>1. s \in RootSpans /\ s \in spans /\ s.name = "root"
    <3>1. CASE SendRoot(h)
      <4>1. active = NoTurn /\ active' = active
        BY <1>12, <3>1 DEF SendRoot, HolderAlone, disk
      <4> QED
        BY <4>1
    <3>2. CASE ~SendRoot(h)
      BY <1>11, <3>2 DEF RootSpans
    <3> QED
      BY <3>1, <3>2
  <2>2. active # NoTurn => s.ends \cap Ids(active) = {}
    BY <2>1 DEF ClosedIdsAreOut
  <2>3. CASE active' = active
    BY <2>2, <2>3
  <2>4. CASE /\ SameTurn(active', active) /\ Ids(active') \subseteq Ids(active) \cup NewId(h)
             /\ hook[h].seen.root = active.root
    <3>1. active # NoTurn
      BY <2>4 DEF SameTurn
    <3>2. s.ends \cap NewId(h) = {}
      BY <2>1, <2>4, <3>1 DEF NewId, NewIdsAreOut
    <3> QED
      BY <2>2, <2>4, <3>1, <3>2
  <2>5. CASE active' = NewTurn(h) /\ hook[h].at = "save"
    <3>1. h \in Prompts /\ hook[h].mine = NoTurn
      BY <1>9, <2>5 DEF Prompts
    <3>2. Ids(active') = {ev[h].gen} \ {NoGen}
      <4>1. ev[h].gen \in used \cup {NoGen}
        BY <1>1 DEF IdsKnown
      <4> QED
        BY <2>5, <4>1, NewTurnKnown
    <3>3. s.turn # h
      <4>1. ~RootSent(h)
        BY <1>1, <3>1 DEF OneOwner, SentIsPast, Past
      <4> QED
        BY <2>1, <4>1 DEF RootSent
    <3>4. ev[h].gen \notin s.ends
      BY <2>1, <3>1, <3>3 DEF RootIds
    <3> QED
      BY <3>2, <3>4
  <2> QED
    BY <1>1, <2>3, <2>4, <2>5 DEF ActiveFlow
<1> QED
  BY <1>8, <1>10, <1>13, <1>14, <1>15, <1>16, <1>17

LEMMA StartLate ==
  ASSUME StopsInv, Orderly, NEW h \in Hooks,
         NEW k \in Kinds, NEW g \in AnyGen, NEW x \in Texts \cup {NoText}, Start(h, k, g, x),
         OneEnder, HolderAlone, RootIds, RootsMarked, FlushMarked, NewIdsAreOut, ClosedIdsAreOut
  PROVE  /\ OneEnder' /\ HolderAlone' /\ RootIds' /\ RootsMarked' /\ FlushMarked'
         /\ NewIdsAreOut' /\ ClosedIdsAreOut'
<1> USE DEF StopsInv, Grounds
<1>1. /\ hook[h].at = "new" /\ active' = active /\ markers' = markers /\ spans' = spans
      /\ used' = used \cup ({g} \ {NoGen})
      /\ ~\E o \in Hooks : Running(o) /\ Precedes(ev[o], k, g)
      /\ mode.fresh /\ k = "prompt" => g \notin used
  BY DEF Start, disk
<1>2. Local(h, First(k), NoTurn, hook[h].mine) /\ First(k) \in {"flush", "send", "get"}
  BY OtherLocal, StagesType
<1>3. \A o \in Hooks : o # h => hook'[o] = hook[o] /\ ev'[o] = ev[o]
  BY OtherSteps
<1>4. ev'[h].kind = k /\ ev'[h].gen = g /\ hook'[h].at = First(k)
  BY <1>2 DEF StateType, Start, Local
<1>5. RootSpans' = RootSpans /\ Elems(markers)' = Elems(markers)
  BY <1>1 DEF RootSpans, Elems
<1>6. hook[h].mine = NoTurn /\ hook'[h].mine = NoTurn
  BY <1>1, <1>2 DEF OneOwner, OwnsWhileClosing, Closing, Local
<1>7. OneEnder'
  <2>1. \A o \in Hooks : o # h => (Running(o)' <=> Running(o))
    BY <1>3 DEF Running
  <2>2. k \in Enders => \A o \in Hooks : Running(o) => ev[o].kind \notin Enders
    BY <1>1 DEF Precedes, Orderly, Steady, Closers, Enders
  <2> QED
    BY <1>3, <1>4, <2>1, <2>2 DEF OneEnder
<1>8. HolderAlone'
  BY <1>1, <1>3, <1>6 DEF HolderAlone
<1>9. RootIds'
  <2>1. \A p \in Prompts' : \/ p # h /\ p \in Prompts /\ ev'[p] = ev[p]
                            \/ p = h /\ ev'[p].gen = g /\ g \notin used
    BY <1>1, <1>3, <1>4 DEF Prompts, Orderly, Steady
  <2> QED
    BY <1>1, <1>5, <2>1 DEF RootIds
<1>10. RootsMarked'
  <2>1. \A s : MarksDue(s) => MarksDue(s)'
    <3> SUFFICES ASSUME NEW s, NEW o \in Hooks, ev[o].kind = "stop", hook[o].mine # NoTurn,
                        s.ends \subseteq Ids(hook[o].mine)
                 PROVE  MarksDue(s)'
      BY DEF MarksDue
    <3>1. o # h
      BY <1>6
    <3>2. ev'[o] = ev[o] /\ hook'[o] = hook[o]
      BY <1>3, <3>1
    <3>3. Ids(hook[o].mine)' = Ids(hook[o].mine)
      BY <3>2 DEF Ids, Elems
    <3> QED
      BY <3>2, <3>3 DEF MarksDue
  <2> QED
    BY <1>5, <2>1 DEF RootsMarked
<1>11. FlushMarked'
  <2> SUFFICES ASSUME NEW o \in Hooks, hook'[o].at = "root", ev'[o].kind \in Closers
               PROVE  Ids(hook'[o].mine) \subseteq Elems(markers)
    BY <1>5 DEF FlushMarked, Ids, Elems
  <2>1. o # h
    BY <1>2, <1>4
  <2> QED
    BY <1>3, <2>1 DEF FlushMarked
<1>12. NewIdsAreOut'
  BY <1>1, <1>2, <1>3, <1>4, <1>5 DEF NewIdsAreOut
<1>13. ClosedIdsAreOut'
  BY <1>1 DEF ClosedIdsAreOut, Ids, Elems
<1> QED
  BY <1>7, <1>8, <1>9, <1>10, <1>11, <1>12, <1>13

LEMMA NextLate ==
  ASSUME StopsInv, LateInv, [Next]_vars
  PROVE  LateInv'
<1> USE DEF StopsInv, Grounds
<1>1. CASE UNCHANGED vars
  BY <1>1 DEF vars, disk, history, LateInv, Orderly, Steady, Few, OneEnder, HolderAlone, RootIds,
              RootsMarked, FlushMarked, NewIdsAreOut, ClosedIdsAreOut, MarksDue, RootSpans, Running,
              Prompts, Ids, Elems
<1>2. CASE Next
  <2> SUFFICES ASSUME Orderly', Few'
               PROVE  /\ OneEnder' /\ HolderAlone' /\ RootIds' /\ RootsMarked' /\ FlushMarked'
                      /\ NewIdsAreOut' /\ ClosedIdsAreOut'
    BY DEF LateInv
  <2>1. PICK h \in Hooks :
          \/ \E k \in Kinds, g \in AnyGen, x \in Texts \cup {NoText} : Start(h, k, g, x)
          \/ Step(h) \/ FailOperation(h) \/ Crash(h)
    BY <1>2 DEF Next
  <2>2. \A o \in Hooks : o # h => hook'[o] = hook[o] /\ ev'[o] = ev[o]
    BY <2>1, OtherSteps
  <2>3. Orderly /\ ~FailOperation(h) /\ ~Crash(h)
    BY ModeStays DEF Orderly, Steady, FailOperation, Crash
  <2>4. Few /\ Elems(markers) \subseteq Elems(markers')
    BY NextKnown
  <2>5. /\ OneEnder /\ HolderAlone /\ RootIds /\ RootsMarked /\ FlushMarked /\ NewIdsAreOut
        /\ ClosedIdsAreOut
    BY <2>3, <2>4 DEF LateInv
  <2>6. CASE Step(h)
    BY <2>2, <2>3, <2>4, <2>5, <2>6, StepLate
  <2>7. CASE \E k \in Kinds, g \in AnyGen, x \in Texts \cup {NoText} : Start(h, k, g, x)
    BY <2>3, <2>5, <2>7, StartLate
  <2> QED
    BY <2>1, <2>3, <2>6, <2>7
<1> QED
  BY <1>1, <1>2

(* An event of a closed turn, under any id the turn was known by, joins no *)
(* later turn, when stops too wait for each other: until more generations  *)
(* have been seen than the marker file has room for.                       *)
THEOREM ClosedStaysOut == Spec => [](Few => LateEventsStayOut)
<1>1. Init => LateInv
  <2> SUFFICES ASSUME Init
               PROVE  LateInv
    OBVIOUS
  <2>1. \A h \in Hooks : hook[h].at = "new" /\ hook[h].mine = NoTurn
    BY DEF Init, Idle
  <2>2. active = NoTurn /\ RootSpans = {}
    BY DEF Init, RootSpans
  <2> QED
    BY <2>1, <2>2 DEF LateInv, OneEnder, HolderAlone, RootIds, RootsMarked, FlushMarked, NewIdsAreOut,
                      ClosedIdsAreOut, Running
<1>2. StopsInv /\ LateInv /\ [Next]_vars => LateInv'
  BY NextLate
<1>3. LateInv => (Few => LateEventsStayOut)
  BY DEF LateInv, LateEventsStayOut
<1> QED
  BY <1>1, <1>2, <1>3, StopsInvariant, PTL DEF Spec

-----------------------------------------------------------------------------
(* The hooks implement TurnDelivery                                        *)

(* A hook that has a turn will send its root, or has.                      *)
MineSent ==
  \A h \in Hooks :
    hook[h].mine # NoTurn => Holds(h, hook[h].mine.root) \/ RootSent(hook[h].mine.root)

(* The inductive invariant behind ImplementsDelivery.                      *)
DeliveryInv == Grounds /\ TurnsOfPrompts /\ SteadyOrder /\ MineSent

LEMMA StatusIs ==
  ASSUME NEW t
  PROVE  /\ Status(t) = IF RootSent(t) THEN "sent" ELSE IF IsOpen(t) THEN "open"
                        ELSE IF IsHeld(t) THEN "closing" ELSE IF IsOver(t) THEN "lost" ELSE "none"
         /\ Status(t)' = IF RootSent(t)' THEN "sent" ELSE IF IsOpen(t)' THEN "open"
                         ELSE IF IsHeld(t)' THEN "closing" ELSE IF IsOver(t)' THEN "lost" ELSE "none"
BY DEF Status

LEMMA RootSentStays ==
  ASSUME NEW h \in Hooks, ev[h].kind # "root",
         \/ \E k \in Kinds, g \in AnyGen, x \in Texts \cup {NoText} : Start(h, k, g, x)
         \/ Step(h)
  PROVE  \A t : RootSent(t)' <=> RootSent(t) \/ (SendRoot(h) /\ t = hook[h].mine.root)
<1>1. \A t : RootSent(t) <=> \E s \in RootSpans : s.turn = t
  BY DEF RootSent, RootSpans
<1>2. \A t : RootSent(t)' <=> \E s \in RootSpans' : s.turn = t
  BY DEF RootSent, RootSpans
<1> QED
  BY <1>1, <1>2, RootSpansStay

(* A hook that goes on loses a turn only when its root has been sent.      *)
LEMMA KeepsMine ==
  ASSUME Grounds, MineSent, NEW h \in Hooks, Step(h), hook[h].mine # NoTurn
  PROVE  /\ hook'[h].mine = hook[h].mine \/ RootSent(hook[h].mine.root)
         /\ Holds(h, hook[h].mine.root) /\ ~SendRoot(h) =>
              hook'[h].at = "root" /\ hook'[h].mine = hook[h].mine
         /\ SendRoot(h) => hook'[h].mine = hook[h].mine
<1> USE DEF Grounds
<1>1. SendRoot(h) => hook'[h].mine = hook[h].mine
  BY StopLocal DEF Local
<1>2. ASSUME Holds(h, hook[h].mine.root), ~SendRoot(h)
      PROVE  hook'[h].at = "root" /\ hook'[h].mine = hook[h].mine
  <2>1. MarkClosed(h) /\ Flushes(h)
    BY <1>2, StepAt DEF Holds
  <2> QED
    BY <2>1, ClosingLocal DEF Local
<1> QED
  BY <1>1, <1>2 DEF MineSent

LEMMA NextMineSent ==
  ASSUME Grounds, MineSent, [Next]_vars
  PROVE  MineSent'
<1> USE DEF Grounds
<1>1. CASE UNCHANGED vars
  BY <1>1 DEF vars, history, MineSent, Holds, Flushes, RootSent
<1>2. CASE Next
  <2>1. PICK h \in Hooks :
          \/ \E k \in Kinds, g \in AnyGen, x \in Texts \cup {NoText} : Start(h, k, g, x)
          \/ Step(h) \/ FailOperation(h) \/ Crash(h)
    BY <1>2 DEF Next
  <2>2. \A o \in Hooks : o # h => hook'[o] = hook[o] /\ ev'[o] = ev[o]
    BY <2>1, OtherSteps
  <2>3. \A t : RootSent(t) => RootSent(t)'
    <3>1. ev[h].kind # "root"
      BY DEF StateType, Event, Kinds
    <3>2. FailOperation(h) \/ Crash(h) => spans' = spans
      BY DEF FailOperation, Crash, history
    <3> QED
      BY <2>1, <3>1, <3>2, RootSentStays DEF RootSent
  <2>4. \A o \in Hooks : o # h /\ hook[o].mine # NoTurn =>
          (Holds(o, hook[o].mine.root) => Holds(o, hook[o].mine.root)')
    BY <2>2 DEF Holds, Flushes
  <2>5. \A o \in Hooks : o # h /\ hook'[o].mine # NoTurn =>
          Holds(o, hook[o].mine.root)' \/ RootSent(hook[o].mine.root)'
    <3> SUFFICES ASSUME NEW o \in Hooks, o # h, hook'[o].mine # NoTurn
                 PROVE  Holds(o, hook[o].mine.root)' \/ RootSent(hook[o].mine.root)'
      OBVIOUS
    <3>1. hook'[o] = hook[o] /\ ev'[o] = ev[o]
      BY <2>2
    <3>3. CASE Holds(o, hook[o].mine.root)
      BY <2>4, <3>1, <3>3
    <3>4. CASE RootSent(hook[o].mine.root)
      BY <2>3, <3>1, <3>4 DEF RootSent
    <3> QED
      BY <3>1, <3>3, <3>4 DEF MineSent
  <2>6. ASSUME hook'[h].mine # NoTurn
        PROVE  Holds(h, hook[h].mine.root)' \/ RootSent(hook[h].mine.root)'
    <3>1. CASE Step(h)
      <4>1. ev' = ev /\ MineFlow(h) /\ ActiveFlow(h) /\ hook[h].at \in StagesOf(ev[h].kind)
            /\ ev[h].kind \in Kinds /\ hook[h].at \notin {"new", "done"}
        BY <3>1, Flow
      <4>2. CASE hook'[h].mine = hook[h].mine
        <5>1. CASE Holds(h, hook[h].mine.root) /\ SendRoot(h)
          <6>1. RootSent(hook[h].mine.root)'
            BY <3>1, <4>1, <4>2, <5>1, RootSentStays DEF Kinds
          <6> QED
            BY <4>2, <6>1 DEF RootSent
        <5>2. CASE Holds(h, hook[h].mine.root) /\ ~SendRoot(h)
          <6>1. hook'[h].at = "root"
            BY <2>6, <3>1, <4>2, <5>2, KeepsMine
          <6> QED
            BY <2>6, <4>2, <6>1 DEF Holds
        <5>3. CASE RootSent(hook[h].mine.root)
          BY <2>3, <4>2, <5>3 DEF RootSent
        <5> QED
          BY <2>6, <4>2, <5>1, <5>2, <5>3 DEF MineSent
      <4>3. CASE hook'[h].mine # hook[h].mine
        <5>1. /\ hook[h].at \in {"flush", "clear"} /\ active # NoTurn
              /\ hook'[h].mine = active /\ active' = NoTurn
          BY <2>6, <4>1, <4>3 DEF MineFlow
        <5>2. hook'[h].at = "root" \/ (hook[h].at = "flush" /\ hook'[h].at = "mark")
          BY <4>1, <5>1 DEF ActiveFlow, SameTurn
        <5>3. hook[h].at = "flush" => ev'[h].kind # "stop"
          BY <4>1, StageKinds
        <5>4. active.root # h
          BY <4>1, <5>1 DEF OneOwner, ActiveIsUnsent
        <5> QED
          BY <5>1, <5>2, <5>3, <5>4 DEF Holds, Flushes
      <4> QED
        BY <4>2, <4>3
    <3>2. CASE FailOperation(h)
      <4>1. ev' = ev
        BY <3>2 DEF FailOperation
      <4>2. CASE hook[h].at = "save" /\ Local(h, "root", hook[h].seen, NewTurn(h))
        BY <2>6, <4>2 DEF Holds, Local
      <4>3. ASSUME NEW s, FailedTo(h, s), Local(h, s, hook[h].seen, hook[h].mine)
            PROVE  Holds(h, hook[h].mine.root)' \/ RootSent(hook[h].mine.root)'
        <5>1. hook'[h].mine = hook[h].mine /\ hook'[h].at = s
          BY <2>6, <4>3 DEF Local
        <5>2. Holds(h, hook[h].mine.root) => s = "root"
          BY <4>3 DEF Holds, FailedTo
        <5> QED
          BY <2>3, <2>6, <5>1, <5>2 DEF MineSent, Holds, RootSent
      <4> QED
        BY <3>2, <4>2, <4>3, OtherLocal
    <3>3. CASE Crash(h)
      BY <2>6, <3>3, OtherLocal DEF Local
    <3>4. CASE \E k \in Kinds, g \in AnyGen, x \in Texts \cup {NoText} : Start(h, k, g, x)
      <4>1. hook[h].at = "new" /\ \E s : Local(h, s, NoTurn, hook[h].mine)
        BY <3>4, OtherLocal DEF Start
      <4> QED
        BY <2>6, <4>1 DEF Local, OneOwner, OwnsWhileClosing, Closing
    <3> QED
      BY <2>1, <3>1, <3>2, <3>3, <3>4
  <2> QED
    BY <2>5, <2>6 DEF MineSent
<1> QED
  BY <1>1, <1>2

(* The steps of the hooks are steps of TurnDelivery. *)

LEMMA SendDelivers ==
  ASSUME DeliveryInv, NEW h \in Hooks, SendRoot(h)
  PROVE  Delivery!Send(hook[h].mine.root) /\ hook[h].mine.root \in Hooks
<1> USE DEF DeliveryInv, Grounds
<1> DEFINE r == hook[h].mine.root
<1>1. hook[h].at = "root" /\ hook[h].mine # NoTurn /\ r \in Hooks
  BY TurnFacts DEF SendRoot, Resolved, Knows, Prompts
<1>2. Holds(h, r)
  BY <1>1 DEF Holds
<1>3. ~RootSent(r) /\ ~IsOpen(r) /\ IsHeld(r)
  BY <1>1, <1>2 DEF OneOwner, HeldIsUnsent, ActiveIsUnsent, IsOpen, IsHeld
<1>4. Status(r) = "closing"
  BY <1>3, StatusIs
<1>5. active' = active /\ ev' = ev
  BY DEF SendRoot, disk
<1>6. /\ \A o \in Hooks : hook'[o].mine = hook[o].mine
      /\ \A o \in Hooks : hook'[o].at = "done" <=> hook[o].at = "done"
  BY <1>1, StopLocal DEF Local
<1>7. \A t : RootSent(t)' <=> RootSent(t) \/ t = r
  <2>1. ev[h].kind # "root"
    BY DEF StateType, Event, Kinds
  <2> QED
    BY <2>1, RootSentStays DEF Step
<1>8. \A t \in Hooks : IsOpen(t)' = IsOpen(t) /\ IsHeld(t)' = IsHeld(t) /\ IsOver(t)' = IsOver(t)
  BY <1>5, <1>6 DEF IsOpen, IsHeld, IsOver
<1>9. \A t \in Hooks : Status(t)' = IF t = r THEN "sent" ELSE Status(t)
  BY <1>7, <1>8, StatusIs
<1> QED
  BY <1>1, <1>4, <1>9 DEF Delivery!Send

(* A hook that takes the active turn over closes it.                       *)
LEMMA TakeDelivers ==
  ASSUME DeliveryInv, NEW h \in Hooks, Step(h), active # NoTurn, active' = NoTurn,
         hook'[h].mine = active, hook'[h].at \notin {"new", "done"}, hook[h].mine = NoTurn,
         ~SendRoot(h), \A o \in Hooks : o # h => hook'[o] = hook[o]
  PROVE  Delivery!Close(active.root) /\ active.root \in Hooks
<1> USE DEF DeliveryInv, Grounds
<1> DEFINE r == active.root
<1>1. r \in Hooks /\ hook[h].at \notin {"new", "done"} /\ ev' = ev
  BY TurnFacts, Flow DEF Prompts
<1>2. \A t : RootSent(t)' <=> RootSent(t)
  <2>1. ev[h].kind # "root"
    BY DEF StateType, Event, Kinds
  <2> QED
    BY <2>1, RootSentStays
<1>3. ~RootSent(r) /\ IsOpen(r)
  BY DEF OneOwner, ActiveIsUnsent, IsOpen
<1>4. Status(r) = "open"
  BY <1>3, StatusIs
<1>5. \A t \in Hooks : t # r => /\ IsOpen(t)' = IsOpen(t) /\ (IsHeld(t)' <=> IsHeld(t))
                                /\ (IsOver(t)' <=> IsOver(t))
  BY <1>1 DEF IsOpen, IsHeld, IsOver
<1>6. \A t \in Hooks : t = r => ~IsOpen(t)' /\ IsHeld(t)'
  BY DEF IsOpen, IsHeld
<1>7. \A t \in Hooks : Status(t)' = IF t = r THEN "closing" ELSE Status(t)
  BY <1>2, <1>3, <1>5, <1>6, StatusIs
<1> QED
  BY <1>1, <1>4, <1>7 DEF Delivery!Close

(* The active turn is nobody's yet, and its prompt is over.                *)
LEMMA ActiveAlone ==
  ASSUME DeliveryInv, active # NoTurn
  PROVE  ~RootSent(active.root) /\ ~IsHeld(active.root) /\ IsOver(active.root) /\ active.root \in Hooks
<1> USE DEF DeliveryInv, Grounds
<1>1. ~RootSent(active.root) /\ hook[active.root].at = "done"
  BY DEF OneOwner, ActiveIsUnsent
<1>2. ~IsHeld(active.root)
  BY <1>1 DEF IsHeld, MineSent, OneOwner, ActiveIsUnsent
<1>3. active.root \in Hooks
  BY DEF StateType, Turn
<1>4. ev[active.root].kind = "prompt"
  BY DEF TurnsOfPrompts, OfPrompt
<1> QED
  BY <1>1, <1>2, <1>3, <1>4 DEF IsOver

LEMMA SaveDelivers ==
  ASSUME DeliveryInv, NEW h \in Hooks, SaveTurn(h), \A o \in Hooks : o # h => hook'[o] = hook[o]
  PROVE  Delivery!Open(h)
<1> USE DEF DeliveryInv, Grounds
<1>1. hook[h].at = "save" /\ spans' = spans /\ ev' = ev /\ active' = NewTurn(h)
  BY DEF SaveTurn, history
<1>2. hook[h].at \in StagesOf(ev[h].kind) /\ ev[h].kind \in Kinds
  BY <1>1 DEF Paths, OnPath, StateType, Event
<1>3. ev[h].kind = "prompt"
  BY <1>1, <1>2, StageKinds
<1>4. hook[h].mine = NoTurn /\ ~RootSent(h) /\ ~IsHeld(h)
  BY <1>1 DEF OneOwner, OwnsWhileClosing, Closing, SentIsPast, Past, IsHeld
<1>5. ~IsOpen(h) /\ ~IsOver(h)
  BY <1>1 DEF OneOwner, ActiveIsUnsent, IsOpen, IsOver
<1>6. Status(h) = "none"
  BY <1>4, <1>5, StatusIs
<1>7. Steady => active = NoTurn
  BY <1>1, <1>3 DEF SteadyOrder, NoneOpen, Running, Closers
<1>8. NewTurn(h) # NoTurn /\ NewTurn(h).root = h
  BY NewTurnType
<1>9. hook'[h].mine = NoTurn /\ hook'[h].at = "done"
  BY ClosingLocal DEF Local
<1>10. /\ \A t \in Hooks : RootSent(t)' <=> RootSent(t)
       /\ \A t \in Hooks : IsOpen(t)' <=> t = h
       /\ \A t \in Hooks : IsHeld(t)' <=> IsHeld(t)
       /\ \A t \in Hooks : t # h => (IsOver(t)' <=> IsOver(t))
  BY <1>1, <1>4, <1>8, <1>9 DEF RootSent, IsOpen, IsHeld, IsOver
<1>11. \A t \in Hooks : Status(t) = "open" <=> IsOpen(t)
  BY ActiveAlone, StatusIs DEF IsOpen
<1>12. \A t \in Hooks : Status(t) = "open" => IsOver(t) /\ ~IsHeld(t) /\ ~RootSent(t)
  BY <1>11, ActiveAlone DEF IsOpen
<1>13. \A t \in Hooks : Status(t)' = IF t = h THEN "open"
                                     ELSE IF Status(t) = "open" THEN "lost" ELSE Status(t)
  BY <1>4, <1>10, <1>11, <1>12, StatusIs
<1>14. Delivery!OpenTurns = {t \in Hooks : Status(t) = "open"}
  BY DEF Delivery!OpenTurns
<1>15. Delivery!OpenTurns # {} => ~Steady
  BY <1>7, <1>11, <1>14 DEF IsOpen
<1>16. [t \in Hooks |-> Status(t)'] =
         [t \in Hooks |-> IF t = h THEN "open"
                          ELSE IF t \in Delivery!OpenTurns THEN "lost"
                          ELSE [u \in Hooks |-> Status(u)][t]]
  BY <1>13, <1>14
<1> QED
  BY <1>6, <1>15, <1>16 DEF Delivery!Open

(* Where turns only disappear. *)
LEMMA LosesDeliver ==
  ASSUME DeliveryInv, ~Steady,
         \A t \in Hooks : \/ Status(t)' = Status(t)
                          \/ Status(t) \in {"none", "open", "closing"} /\ Status(t)' = "lost"
  PROVE  Delivery!Lose
<1>1. \A t \in Hooks : Status(t)' \in Delivery!StatusType
  BY StatusIs DEF Delivery!StatusType
<1> QED
  BY <1>1 DEF Delivery!Lose

(* A hook stops before it is done, or fails to: what it held is lost.      *)
LEMMA HaltDelivers ==
  ASSUME DeliveryInv, ~Steady, NEW h \in Hooks, hook[h].at \notin {"new", "done"},
         UNCHANGED <<active, spans, ev>>,
         NEW s, NEW t, Local(h, s, t, hook[h].mine), s # "new"
  PROVE  Delivery!Lose
<1> USE DEF DeliveryInv, Grounds
<1>1. \A u \in Hooks : /\ RootSent(u)' <=> RootSent(u)
                       /\ IsOpen(u)' <=> IsOpen(u)
                       /\ IsHeld(u)' => IsHeld(u)
                       /\ IsOver(u) => IsOver(u)'
  BY DEF Local, RootSent, IsOpen, IsHeld, IsOver
<1>2. ASSUME NEW u \in Hooks, IsHeld(u), ~IsHeld(u)'
      PROVE  IsOver(u)'
  <2>1. PICK o \in Hooks : hook[o].mine # NoTurn /\ hook[o].mine.root = u
    BY <1>2 DEF IsHeld
  <2>2. o = h /\ s = "done"
    BY <1>2, <2>1 DEF IsHeld, Local
  <2>3. Past(u)
    BY <2>1 DEF OneOwner, OwnsWhileClosing
  <2>4. CASE hook[u].at = "done"
    <3>1. hook'[u].at = "done"
      BY <2>4 DEF Local
    <3> QED
      BY <2>1, <3>1 DEF TurnsOfPrompts, OfPrompt, IsOver
  <2>5. CASE hook[u].at # "done"
    <3>1. hook[u].mine # NoTurn /\ hook[u].mine.root = u
      BY <2>3, <2>5 DEF Past
    <3>2. u = h
      BY <1>2, <3>1 DEF IsHeld, Local
    <3> QED
      BY <2>1, <2>2, <3>2 DEF TurnsOfPrompts, OfPrompt, IsOver, Local
  <2> QED
    BY <2>4, <2>5
<1>3. \A u \in Hooks : \/ Status(u)' = Status(u)
                       \/ Status(u) \in {"none", "open", "closing"} /\ Status(u)' = "lost"
  BY <1>1, <1>2, StatusIs
<1> QED
  BY <1>3, LosesDeliver

(* A prompt that cannot save its turn closes it at once.                   *)
LEMMA UnsavedDelivers ==
  ASSUME DeliveryInv, ~Steady, NEW h \in Hooks, hook[h].at = "save", UNCHANGED <<active, spans, ev>>,
         NEW t, Local(h, "root", t, NewTurn(h))
  PROVE  Delivery!Close(h)
<1> USE DEF DeliveryInv, Grounds
<1>1. hook[h].mine = NoTurn /\ ~RootSent(h) /\ ~IsHeld(h)
  BY DEF OneOwner, OwnsWhileClosing, Closing, SentIsPast, Past, IsHeld
<1>2. ~IsOpen(h) /\ ~IsOver(h)
  BY DEF OneOwner, ActiveIsUnsent, IsOpen, IsOver
<1>3. Status(h) = "none"
  BY <1>1, <1>2, StatusIs
<1>4. NewTurn(h) # NoTurn /\ NewTurn(h).root = h
  BY NewTurnType
<1>5. \A u \in Hooks : /\ RootSent(u)' <=> RootSent(u)
                       /\ IsOpen(u)' <=> IsOpen(u)
                       /\ IsHeld(u)' <=> IsHeld(u) \/ u = h
                       /\ IsOver(u)' <=> IsOver(u)
  BY <1>1, <1>2, <1>4 DEF Local, RootSent, IsOpen, IsHeld, IsOver
<1>6. \A u \in Hooks : Status(u)' = IF u = h THEN "closing" ELSE Status(u)
  BY <1>1, <1>2, <1>5, StatusIs
<1> QED
  BY <1>3, <1>6 DEF Delivery!Close

(* The end of the session removes what a failing file left active.         *)
LEMMA WipeDelivers ==
  ASSUME DeliveryInv, NEW h \in Hooks, RemoveActive(h)
  PROVE  Delivery!Lose \/ \A t \in Hooks : Status(t)' = Status(t)
<1> USE DEF DeliveryInv, Grounds
<1>1. hook[h].at = "wipe" /\ spans' = spans /\ ev' = ev /\ active' = NoTurn
  BY DEF RemoveActive, history
<1>2. ev[h].kind = "sessionEnd"
  <2>1. hook[h].at \in StagesOf(ev[h].kind) /\ ev[h].kind \in Kinds
    BY <1>1 DEF Paths, OnPath, StateType, Event
  <2> QED
    BY <1>1, <2>1, StageKinds
<1>3. hook[h].mine = NoTurn
  BY <1>1 DEF OneOwner, OwnsWhileClosing, Closing
<1>4. hook'[h].mine = NoTurn /\ hook'[h].at = "done" /\ \A o \in Hooks : o # h => hook'[o] = hook[o]
  BY ClosingLocal DEF Local
<1>5. \A t \in Hooks : /\ RootSent(t)' <=> RootSent(t)
                       /\ ~IsOpen(t)'
                       /\ IsHeld(t)' <=> IsHeld(t)
                       /\ IsOver(t)' <=> IsOver(t)
  BY <1>1, <1>2, <1>3, <1>4 DEF RootSent, IsOpen, IsHeld, IsOver
<1>6. CASE active = NoTurn
  BY <1>5, <1>6, StatusIs DEF IsOpen
<1>7. CASE active # NoTurn
  <2>1. ~Steady
    BY <1>1, <1>2, <1>7 DEF SteadyOrder, NoneOpen, Running, Closers
  <2>2. \A t \in Hooks : IsOpen(t) => IsOver(t) /\ ~IsHeld(t)
    BY ActiveAlone DEF IsOpen
  <2>3. \A t \in Hooks : \/ Status(t)' = Status(t)
                         \/ Status(t) \in {"none", "open", "closing"} /\ Status(t)' = "lost"
    BY <1>5, <2>2, StatusIs
  <2> QED
    BY <2>1, <2>3, LosesDeliver
<1> QED
  BY <1>6, <1>7

(* Every other step of a hook leaves every turn where it is.               *)
LEMMA QuietDelivers ==
  ASSUME DeliveryInv, NEW h \in Hooks, Step(h), \A o \in Hooks : o # h => hook'[o] = hook[o],
         ~SendRoot(h), ~SaveTurn(h), ~RemoveActive(h),
         ~(active # NoTurn /\ active' = NoTurn /\ hook'[h].mine = active)
  PROVE  \A t \in Hooks : Status(t)' = Status(t)
<1> USE DEF DeliveryInv, Grounds
<1>1. /\ ev' = ev /\ ActiveFlow(h) /\ MineFlow(h) /\ Arrival(h) /\ hook[h].at \notin {"new", "done"}
      /\ ev[h].kind \in Kinds
  BY Flow
<1>2. \A t \in Hooks : RootSent(t)' <=> RootSent(t)
  <2>1. ev[h].kind # "root"
    BY <1>1 DEF Kinds
  <2> QED
    BY <2>1, RootSentStays
<1>3. hook[h].at # "save" /\ hook[h].at # "wipe"
  BY DEF Step, GetActive, CheckMarked, ReadRoot, RecordAlias, AddResponse, CheckLate,
     Push, Pop, AddThought, SendPoint, Claim, ClearIfMatches, SendRoot, SendLlm, SendStop,
     Flush, MarkClosed, CleanUp, ResetNogen, SaveRoot, EndSession
<1>4. \A t \in Hooks : IsOpen(t)' <=> IsOpen(t)
  BY <1>1, <1>3 DEF ActiveFlow, IsOpen, SameTurn
<1>5. hook'[h].mine \in {NoTurn, hook[h].mine}
  BY <1>1 DEF MineFlow
<1>6. hook[h].mine # NoTurn => hook'[h].mine = hook[h].mine \/ RootSent(hook[h].mine.root)
  BY KeepsMine
<1>7. \A t \in Hooks : RootSent(t) \/ (IsHeld(t)' <=> IsHeld(t))
  BY <1>5, <1>6 DEF IsHeld
<1>8. \A t \in Hooks : RootSent(t) \/ (IsOver(t)' <=> IsOver(t))
  <2>1. ASSUME ev[h].kind = "prompt", hook'[h].at = "done"
        PROVE  RootSent(h)
    <3>1. hook[h].at = "mark" /\ hook[h].mine.root = h
      BY <1>1, <1>3, <2>1 DEF Arrival
    <3>2. hook[h].mine # NoTurn /\ ~Holds(h, h)
      BY <3>1 DEF Resolved, Knows, Holds, Flushes
    <3> QED
      BY <3>1, <3>2 DEF MineSent
  <2> QED
    BY <1>1, <2>1 DEF IsOver
<1> QED
  BY <1>2, <1>4, <1>7, <1>8, StatusIs

LEMMA NextDelivers ==
  ASSUME DeliveryInv, [Next]_vars
  PROVE  [Delivery!Next]_(Delivery!vars)
<1> USE DEF DeliveryInv, Grounds
<1>1. mode' = mode
  BY ModeStays
<1>2. ASSUME \A t \in Hooks : Status(t)' = Status(t)
      PROVE  UNCHANGED Delivery!vars
  BY <1>1, <1>2 DEF Delivery!vars, Steady
<1>3. ASSUME Delivery!Lose \/ \E t \in Hooks : Delivery!Open(t) \/ Delivery!Close(t) \/ Delivery!Send(t)
      PROVE  Delivery!Next
  BY <1>1, <1>3 DEF Delivery!Next, Steady
<1>4. CASE UNCHANGED vars
  <2>1. \A t \in Hooks : Status(t)' = Status(t)
    BY <1>4, StatusIs DEF vars, disk, history, RootSent, IsOpen, IsHeld, IsOver
  <2> QED
    BY <1>2, <2>1
<1>5. CASE Next
  <2>1. PICK h \in Hooks :
          \/ \E k \in Kinds, g \in AnyGen, x \in Texts \cup {NoText} : Start(h, k, g, x)
          \/ Step(h) \/ FailOperation(h) \/ Crash(h)
    BY <1>5 DEF Next
  <2>2. \A o \in Hooks : o # h => hook'[o] = hook[o] /\ ev'[o] = ev[o]
    BY <2>1, OtherSteps
  <2>3. CASE Step(h)
    <3>1. CASE SendRoot(h)
      BY <1>3, <3>1, SendDelivers
    <3>2. CASE SaveTurn(h)
      BY <1>3, <2>2, <3>2, SaveDelivers
    <3>3. CASE RemoveActive(h)
      BY <1>2, <1>3, <3>3, WipeDelivers
    <3>4. CASE ~SendRoot(h) /\ active # NoTurn /\ active' = NoTurn /\ hook'[h].mine = active
      <4>1. ActiveFlow(h) /\ MineFlow(h) /\ Arrival(h)
        BY <2>3, Flow
      <4>2. hook[h].mine # active
        BY <3>4 DEF OneOwner, ActiveIsUnsent, MineSent
      <4>3. hook[h].at \in {"flush", "clear"}
        BY <3>4, <4>1, <4>2 DEF MineFlow
      <4>4. hook[h].mine = NoTurn
        BY <4>3 DEF OneOwner, OwnsWhileClosing, Closing
      <4>5. hook'[h].at \notin {"new", "done"}
        BY <3>4, <4>1, <4>3 DEF ActiveFlow, SameTurn
      <4> QED
        BY <1>3, <2>2, <2>3, <3>4, <4>4, <4>5, TakeDelivers
    <3>5. CASE ~SendRoot(h) /\ ~SaveTurn(h) /\ ~RemoveActive(h)
               /\ ~(active # NoTurn /\ active' = NoTurn /\ hook'[h].mine = active)
      BY <1>2, <2>2, <2>3, <3>5, QuietDelivers
    <3> QED
      BY <3>1, <3>2, <3>3, <3>4, <3>5
  <2>4. CASE FailOperation(h) \/ Crash(h)
    <3>1. UNCHANGED <<active, spans, ev>> /\ ~Steady /\ hook[h].at \notin {"new", "done"}
      BY <2>4 DEF FailOperation, Crash, disk, history, Running, Steady
    <3>2. CASE Local(h, "done", hook[h].seen, hook[h].mine)
      BY <1>3, <3>1, <3>2, HaltDelivers
    <3>3. CASE hook[h].at = "save" /\ Local(h, "root", hook[h].seen, NewTurn(h))
      BY <1>3, <3>1, <3>3, UnsavedDelivers
    <3>4. ASSUME NEW s, FailedTo(h, s), Local(h, s, hook[h].seen, hook[h].mine)
          PROVE  Delivery!Lose
      <4>1. s # "new"
        BY <3>4, Branches DEF FailedTo, Handle, NotAppended
      <4> QED
        BY <3>1, <3>4, <4>1, HaltDelivers
    <3> QED
      BY <1>3, <2>4, <3>2, <3>3, <3>4, OtherLocal
  <2>5. CASE \E k \in Kinds, g \in AnyGen, x \in Texts \cup {NoText} : Start(h, k, g, x)
    <3>1. PICK k \in Kinds, g \in AnyGen, x \in Texts \cup {NoText} : Start(h, k, g, x)
      BY <2>5
    <3>2. Local(h, First(k), NoTurn, hook[h].mine) /\ First(k) \in {"flush", "send", "get"}
      BY <3>1, OtherLocal, StagesType
    <3>3. hook[h].at = "new" /\ UNCHANGED <<active, spans>>
      BY <3>1 DEF Start, disk
    <3>4. hook'[h].mine = hook[h].mine /\ hook'[h].at # "done"
      BY <3>2 DEF Local
    <3>5. \A t \in Hooks : /\ RootSent(t)' <=> RootSent(t)
                           /\ IsOpen(t)' <=> IsOpen(t)
                           /\ IsHeld(t)' <=> IsHeld(t)
                           /\ IsOver(t)' <=> IsOver(t)
      BY <2>2, <3>3, <3>4 DEF RootSent, IsOpen, IsHeld, IsOver
    <3>6. \A t \in Hooks : Status(t)' = Status(t)
      BY <3>5, StatusIs
    <3> QED
      BY <1>2, <3>6
  <2> QED
    BY <2>1, <2>3, <2>4, <2>5
<1> QED
  BY <1>4, <1>5

(* The hooks deliver turns as TurnDelivery says, whatever the environment: *)
(* one turn is open at a time, each is closed by one hook and sent once,   *)
(* and none is lost where prompts do not overlap and nothing fails.        *)
THEOREM DeliversTurns == Spec => ImplementsDelivery
<1>1. Init => DeliveryInv /\ Delivery!Init
  <2> SUFFICES ASSUME Init
               PROVE  DeliveryInv /\ Delivery!Init
    OBVIOUS
  <2>1. StopsInv
    BY InitStops
  <2>2. \A h \in Hooks : hook[h].at = "new" /\ hook[h].mine = NoTurn
    BY DEF Init, Idle
  <2>3. active = NoTurn /\ spans = {}
    BY DEF Init
  <2>4. MineSent
    BY <2>2 DEF MineSent
  <2>5. \A t \in Hooks : Status(t) = "none"
    BY <2>2, <2>3, StatusIs DEF RootSent, IsOpen, IsHeld, IsOver
  <2>6. (~Steady) \in BOOLEAN
    BY DEF Steady
  <2> QED
    BY <2>1, <2>4, <2>5, <2>6 DEF StopsInv, DeliveryInv, Delivery!Init
<1>2. DeliveryInv /\ [Next]_vars => DeliveryInv'
  BY NextGrounds, NextPrompts, NextOrder, NextMineSent DEF DeliveryInv
<1>3. DeliveryInv /\ [Next]_vars => [Delivery!Next]_(Delivery!vars)
  BY NextDelivers
<1> QED
  BY <1>1, <1>2, <1>3, PTL DEF Spec, ImplementsDelivery, Delivery!Spec
=============================================================================
