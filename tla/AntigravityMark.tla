-------------------------- MODULE AntigravityMark --------------------------
(***************************************************************************)
(* The hooks of one Antigravity conversation (tracing/antigravity/hooks).  *)
(* Everything reported is in the transcript, which Antigravity writes; a   *)
(* hook reads all of it, splits it into turns, sends those beyond a        *)
(* watermark kept in the dict and moves the watermark once, at the end.    *)
(* PreInvocation leaves the last turn to Stop.  A step is one access of    *)
(* the dict or the file, or one turn sent.                                 *)
(***************************************************************************)
EXTENDS SessionDict, Integers, Sequences, FiniteSets

CONSTANTS
  Hooks,      (* hook processes; each one handles one event                 *)
  MaxCrashes, (* bound on the hooks that die                                *)
  Overlaps,   (* whether hooks may overlap, per behaviour                   *)
  MaxRecords, (* bound on the records of the transcript                     *)
  MaxCalls    (* bound on the calls of one answer                           *)

AntigravityAssumption ==
  /\ None \notin Hooks /\ Overlaps \subseteq BOOLEAN
  /\ {MaxCrashes, MaxRecords, MaxCalls} \subseteq Nat

VARIABLES
  store,  (* state_<conversationId>.json                                   *)
  hooks,  (* per hook, its event, where it is, its local variables         *)
  world,  (* overlap; crashes; records: the transcript; old: the turns     *)
          (* that a version without the watermark had sent; early: whether *)
          (* a PreInvocation found no later turn than those                *)
  sent    (* history: the turns handed to send_span                        *)

vars == <<store, hooks, world, sent>>

SessionKey == <<"session_id">>
TurnKey == <<"last_emitted_turn">>
StepKey == <<"last_emitted_step">>

-----------------------------------------------------------------------------
(* The transcript.  A record has a type; a planner's answer has a number   *)
(* of calls, and a result the call it is for, as the planner's place in    *)
(* the transcript and a number, which the file does not say.               *)

User == [type |-> "user", calls |-> 0, of |-> <<0, 0>>]
Planner(n) == [type |-> "planner", calls |-> n, of |-> <<0, 0>>]
Result(p, k) == [type |-> "result", calls |-> 0, of |-> <<p, k>>]

(* A mutated form: calls without a result stay pending.                    *)
AddRecordKept(t, i) ==
  LET r == world.records[i] IN
  CASE r.type = "planner" ->
         [t EXCEPT !.pending = @ \o [k \in 1..r.calls |-> <<i, k>>]]
    [] r.type = "result" /\ t.pending # <<>> ->
         [pending |-> Tail(t.pending),
          steps |-> Append(t.steps, [call |-> Head(t.pending), result |-> r.of])]
    [] OTHER -> t

(* One record more: the calls of an answer wait for their results in       *)
(* order; those that wait when the next answer comes are given up.         *)
GivenUp(calls) == [k \in DOMAIN calls |-> [call |-> calls[k], result |-> None]]

AddRecord(t, i) ==
  LET r == world.records[i] IN
  CASE r.type = "planner" ->
         [pending |-> [k \in 1..r.calls |-> <<i, k>>], steps |-> t.steps \o GivenUp(t.pending)]
    [] r.type = "result" /\ t.pending # <<>> ->
         [pending |-> Tail(t.pending),
          steps |-> Append(t.steps, [call |-> Head(t.pending), result |-> r.of])]
    [] OTHER -> t

(* _build_turn: what the first n records from `first` on make, and all of  *)
(* them up to `last`.                                                      *)
Built(first, last) ==
  LET t[n \in 0..(last - first + 1)] ==
        IF n = 0 THEN [pending |-> <<>>, steps |-> <<>>] ELSE AddRecord(t[n - 1], first + n - 1)
  IN t

ToolSteps(first, last) ==
  LET t == Built(first, last)[last - first + 1] IN t.steps \o GivenUp(t.pending)

(* parse_transcript: turns begin at the user's records; turn i of the      *)
(* list, counted from 0 as the code does, is Turn(starts, i).              *)
Starts == {i \in DOMAIN world.records : world.records[i].type = "user"}
TurnOf(i) == Cardinality({s \in Starts : s <= i}) - 1
RecordsOf(n) == {i \in DOMAIN world.records : TurnOf(i) = n}
FirstOf(S) == CHOOSE i \in S : \A j \in S : i <= j
LastOf(S) == CHOOSE i \in S : \A j \in S : j <= i

(* step_index of a record is its place, counted from 0.                    *)
ParsedTurn(n) ==
  [steps |-> ToolSteps(FirstOf(RecordsOf(n)), LastOf(RecordsOf(n))),
   maxStep |-> LastOf(RecordsOf(n)) - 1]

Parsed == [n \in 0..(Cardinality(Starts) - 1) |-> ParsedTurn(n)]

-----------------------------------------------------------------------------
(* turns: the parsed transcript; i: the turn the loop is at; mark, step:   *)
(* the watermarks as read and moved.                                       *)
Unborn == [at |-> "new", kind |-> None, turns |-> Empty, i |-> 0, mark |-> -1, step |-> -1]
Ended == [Unborn EXCEPT !.at = "done"]

(* A conversation may be new, or go on from the version before, which      *)
(* kept the step of the last record it had sent.                           *)
Init ==
  /\ hooks = [h \in Hooks |-> Unborn]
  /\ sent = <<>>
  /\ \E o \in Overlaps, old \in BOOLEAN :
       /\ world = [overlap |-> o, crashes |-> 0,
                   records |-> IF old THEN <<User, Planner(0)>> ELSE <<>>,
                   old |-> IF old THEN {0} ELSE {}, early |-> FALSE]
       /\ store = IF old THEN Put(Put(Empty, SessionKey, None), StepKey, 1) ELSE Empty

Running(h) == hooks[h].at \notin {"new", "done"}
Local(h) == hooks[h]
Goto(h, s, l) == hooks' = [hooks EXCEPT ![h] = IF s = "done" THEN Ended ELSE [l EXCEPT !.at = s]]
Keeps == UNCHANGED <<store, world, sent>>
Writes(d) == store' = d /\ UNCHANGED <<world, sent>>
Sends(s) == sent' = Append(sent, s) /\ UNCHANGED <<store, world>>

(* Antigravity: results come in the order of the calls, some are missing.  *)
Planners == {i \in DOMAIN world.records : world.records[i].type = "planner"}
NextResults ==
  IF Planners = {} THEN {}
  ELSE LET p == LastOf(Planners)
           have == {world.records[i].of[2] : i \in (p + 1)..Len(world.records)} IN
       {Result(p, k) : k \in {k \in 1..world.records[p].calls : \A o \in have : o < k}}

(* The version before was stopped with its last turn complete.             *)
NextRecords ==
  {User} \cup (IF Cardinality(Starts) = Cardinality(world.old) THEN {} ELSE {Planner(n) : n \in 0..MaxCalls} \cup NextResults)

Record ==
  /\ Len(world.records) < MaxRecords
  /\ \E r \in NextRecords : world' = [world EXCEPT !.records = Append(@, r)]
  /\ UNCHANGED <<store, hooks, sent>>

Fire(h) ==
  /\ hooks[h].at = "new"
  /\ world.overlap \/ \A o \in Hooks : ~Running(o)
  /\ \E k \in {"preInvocation", "stop"} : Goto(h, "ensure", [Unborn EXCEPT !.kind = k])
  /\ Keeps

-----------------------------------------------------------------------------
(* The hooks *)

(* ensure_session_initialized checks the session, and resets the watermark *)
(* in a later step.                                                        *)
Ensure(h) ==
  /\ Local(h).at = "ensure"
  /\ Goto(h, IF Has(store, SessionKey) THEN "parse" ELSE "session", Local(h))
  /\ Keeps

SetSession(h) ==
  /\ Local(h).at = "session"
  /\ Writes(Put(store, SessionKey, None))
  /\ Goto(h, "initMark", Local(h))

InitMark(h) ==
  /\ Local(h).at = "initMark"
  /\ Writes(Put(store, TurnKey, -1))
  /\ Goto(h, "parse", Local(h))

Parse(h) ==
  /\ Local(h).at = "parse"
  /\ Goto(h, IF Starts = {} THEN "done" ELSE "mark", [Local(h) EXCEPT !.turns = Parsed])
  /\ LET early == Local(h).kind = "preInvocation" /\ Cardinality(Starts) <= Cardinality(world.old) IN
     world' = [world EXCEPT !.early = @ \/ early]
  /\ UNCHANGED <<store, sent>>

(* The old watermark counts only while there is no new one.                *)
ReadMark(h) ==
  /\ Local(h).at = "mark"
  /\ Goto(h, "loop",
          IF Has(store, TurnKey) THEN [Local(h) EXCEPT !.mark = store[TurnKey]]
          ELSE [Local(h) EXCEPT !.step = IF Has(store, StepKey) THEN store[StepKey] ELSE -1])
  /\ Keeps

(* The turn that the loop of _emit_completed_turns comes to next.          *)
TurnsLeft(l) ==
  LET last == Cardinality(DOMAIN l.turns) - 1 IN
  {n \in l.i..(IF l.kind = "stop" THEN last ELSE last - 1) : n > l.mark}

IsOld(l, n) == 0 < l.turns[n].maxStep /\ l.turns[n].maxStep <= l.step

SkipOld(h) ==
  /\ Local(h).at = "loop" /\ TurnsLeft(Local(h)) # {}
  /\ LET n == FirstOf(TurnsLeft(Local(h))) IN
     /\ IsOld(Local(h), n)
     /\ Goto(h, "loop", [Local(h) EXCEPT !.i = n + 1, !.mark = n])
  /\ Keeps

SendTurn(h) ==
  /\ Local(h).at = "loop" /\ TurnsLeft(Local(h)) # {}
  /\ LET n == FirstOf(TurnsLeft(Local(h))) IN
     /\ ~IsOld(Local(h), n)
     /\ Sends([turn |-> n, steps |-> Local(h).turns[n].steps])
     /\ Goto(h, "loop", [Local(h) EXCEPT !.i = n + 1, !.mark = n])

(* A mutated form: the watermark is the last turn of the transcript.       *)
SetMarkAll(h) ==
  /\ Local(h).at = "loop" /\ TurnsLeft(Local(h)) = {}
  /\ Writes(Put(store, TurnKey, Cardinality(DOMAIN Local(h).turns) - 1))
  /\ Goto(h, "done", Local(h))

SetMark(h) ==
  /\ Local(h).at = "loop" /\ TurnsLeft(Local(h)) = {}
  /\ Writes(Put(store, TurnKey, Local(h).mark))
  /\ Goto(h, "done", Local(h))

Crash(h) ==
  /\ Running(h) /\ world.crashes < MaxCrashes
  /\ hooks' = [hooks EXCEPT ![h] = Ended]
  /\ world' = [world EXCEPT !.crashes = @ + 1]
  /\ UNCHANGED <<store, sent>>

Step(h) ==
  \/ Fire(h) \/ Ensure(h) \/ SetSession(h) \/ InitMark(h) \/ Parse(h) \/ ReadMark(h)
  \/ SkipOld(h) \/ SendTurn(h) \/ SetMark(h) \/ Crash(h)

Next == Record \/ \E h \in Hooks : Step(h)

Spec == Init /\ [][Next]_vars

-----------------------------------------------------------------------------
(* Properties *)

SentTurns == {sent[i].turn : i \in DOMAIN sent}

(* No turn is forgotten, whatever overlaps and dies: a turn under the      *)
(* watermark has been sent, by this version or the one before.  While      *)
(* hooks neither overlap nor die, none is sent twice, and none that the    *)
(* version before had sent is sent again, unless a PreInvocation came      *)
(* before the request of its turn was in the transcript: it stores a       *)
(* watermark below the old turn, and the old watermark no longer counts.   *)
WatermarkHolds ==
  /\ Has(store, TurnKey) => 0..store[TurnKey] \subseteq SentTurns \cup world.old
  /\ ~world.overlap /\ world.crashes = 0 =>
       /\ Cardinality(SentTurns) = Len(sent)
       /\ SentTurns \cap world.old # {} => world.early

(* The calls of an answer are in a sent turn together, each once; a result *)
(* is under a call of its own answer, and not under a later call than its  *)
(* own, however many results are missing.                                  *)
CallsPaired ==
  \A i \in DOMAIN sent :
    LET steps == sent[i].steps
        calls == {steps[a].call : a \in DOMAIN steps} IN
    /\ Cardinality(calls) = Len(steps)
    /\ \A c \in calls : \A k \in 1..world.records[c[1]].calls : <<c[1], k>> \in calls
    /\ \A a \in DOMAIN steps : steps[a].result # None =>
         steps[a].result[1] = steps[a].call[1] /\ steps[a].call[2] <= steps[a].result[2]
=============================================================================
