---------------------------- MODULE CodexRollout ----------------------------
(***************************************************************************)
(* The Codex harness (tracing/codex/hooks): when a turn is over Codex      *)
(* starts a hook with the id of the turn; everything else is in the        *)
(* rollout, a file to which Codex goes on appending.  The hook walks the   *)
(* file from its beginning, keeps what lies between the start of the turn  *)
(* and the next start, and sends it as one payload.  It keeps no state;    *)
(* what it finds depends on what has reached the file by then.             *)
(***************************************************************************)
EXTENDS Naturals, Sequences, FiniteSets

CONSTANTS
  Hooks,      (* hook processes; each one handles one notification         *)
  None,
  MaxTurns,   (* bound on the turns of the session                         *)
  MaxRecords  (* bound on the records of the rollout                       *)

CodexAssumption == None \notin Nat /\ MaxTurns \in Nat /\ MaxRecords \in Nat

VARIABLES
  hooks,  (* per hook, where it is, its turn, what it has found            *)
  world,  (* the rollout: a sequence of records                            *)
  sent    (* history: the payloads handed to send_span                     *)

vars == <<hooks, world, sent>>

-----------------------------------------------------------------------------
(* A record has a type and the number of what it is about: the turn that   *)
(* starts; the model calls of the session so far, whose total a token      *)
(* count carries together with the usage of the last one; the call of an   *)
(* output, by its place in the rollout, which stands for its id; a search. *)
(* Texts are told apart by the place of their record.                      *)
Rec(type, of) == [type |-> type, of |-> of]

(* What the walk has gathered; over: the next turn has started; prev: the  *)
(* last total; usage: the model calls that were added up; search: the      *)
(* web_search_end that waits for its call.                                 *)
Nothing ==
  [in |-> FALSE, over |-> FALSE, number |-> 0, prompt |-> None, output |-> None,
   prev |-> None, usage |-> <<>>, calls |-> <<>>, search |-> None]

StartTurn(t, r, turn) ==
  IF t.in THEN [t EXCEPT !.over = TRUE]
  ELSE [t EXCEPT !.number = @ + 1, !.in = (r.of = turn)]

(* A mutated form: a repeated total is added up once more.                 *)
CountAlways(t, r) == [t EXCEPT !.usage = Append(@, r.of), !.prev = r.of]

(* A token count that repeats the total only reports rate limits.          *)
CountOnce(t, r) ==
  IF r.of = t.prev THEN t ELSE [t EXCEPT !.usage = Append(@, r.of), !.prev = r.of]

AddCall(t, i) ==
  [t EXCEPT !.calls = Append(@, [at |-> i, id |-> i, search |-> FALSE, output |-> None])]

(* An output goes to the call of this turn that has its id.                *)
AddOutput(t, i, r) ==
  [t EXCEPT !.calls = [k \in DOMAIN t.calls |->
     IF ~t.calls[k].search /\ t.calls[k].id = r.of
     THEN [t.calls[k] EXCEPT !.output = i] ELSE t.calls[k]]]

(* A search call takes the id of the last web_search_end before it.        *)
AddSearch(t, i) ==
  [t EXCEPT !.calls = Append(@, [at |-> i, id |-> t.search, search |-> TRUE, output |-> i]),
            !.search = None]

AddRecord(t, i, turn) ==
  LET r == world[i] IN
  CASE t.over -> t
    [] ~t.over /\ r.type = "start" -> StartTurn(t, r, turn)
    [] ~t.over /\ ~t.in /\ r.type # "start" -> t
    [] OTHER ->
         CASE r.type = "prompt" -> [t EXCEPT !.prompt = i]
           [] r.type \in {"say", "complete"} -> [t EXCEPT !.output = i]
           [] r.type = "count" -> CountOnce(t, r)
           [] r.type = "call" -> AddCall(t, i)
           [] r.type = "output" -> AddOutput(t, i, r)
           [] r.type = "searchEnd" -> [t EXCEPT !.search = r.of]
           [] r.type = "searchCall" -> AddSearch(t, i)

(* What the first records give for a turn, and all of them                 *)
(* (_extract_turn_from_rollout).                                           *)
Gathered(turn) ==
  LET t[n \in 0..Len(world)] == IF n = 0 THEN Nothing ELSE AddRecord(t[n - 1], n, turn)
  IN t

Extract(turn) == Gathered(turn)[Len(world)]

-----------------------------------------------------------------------------
(* Codex *)

Unborn == [at |-> "new", turn |-> 0, found |-> Nothing, seen |-> 0]
Ended == [Unborn EXCEPT !.at = "done"]

Init ==
  /\ hooks = [h \in Hooks |-> Unborn]
  /\ world = <<>>
  /\ sent = <<>>

Of(type) == {i \in DOMAIN world : world[i].type = type}
Turns == Cardinality(Of("start"))
ModelCalls == Cardinality({world[i].of : i \in Of("count")})
Searches == Cardinality(Of("searchEnd"))

(* A completed turn writes no more, but outputs may come late and rate     *)
(* limits at any time.                                                     *)
LateRecords ==
  {Rec("output", c) : c \in Of("call") \ {world[i].of : i \in Of("output")}}
    \cup (IF ModelCalls > 0 THEN {Rec("count", ModelCalls)} ELSE {})

TurnRecords ==
  {Rec(type, 0) : type \in {"prompt", "say", "complete", "call"}}
    \cup {Rec("count", ModelCalls + 1), Rec("searchEnd", Searches + 1)}
    \cup {Rec("searchCall", s) : s \in (1..Searches) \ {world[i].of : i \in Of("searchCall")}}

Open == Turns > 0 /\ \A i \in Of("complete") : \E j \in Of("start") : i < j

NextRecords ==
  (IF Turns < MaxTurns THEN {Rec("start", Turns + 1)} ELSE {})
    \cup (IF Open THEN TurnRecords ELSE {}) \cup LateRecords

Record ==
  /\ Len(world) < MaxRecords
  /\ \E r \in NextRecords : world' = Append(world, r)
  /\ UNCHANGED <<hooks, sent>>

(* The hook is told of a turn that may be in the file in full, in part, or *)
(* not yet.                                                                *)
Notify(h) ==
  /\ hooks[h].at = "new"
  /\ \E t \in 1..(Turns + 1) :
       hooks' = [hooks EXCEPT ![h].at = "read", ![h].turn = t]
  /\ UNCHANGED <<world, sent>>

-----------------------------------------------------------------------------
(* The hook *)

ReadRollout(h) ==
  /\ hooks[h].at = "read"
  /\ LET t == Extract(hooks[h].turn) IN
     /\ t.in
     /\ hooks' = [hooks EXCEPT ![h].at = "send", ![h].found = t, ![h].seen = Len(world)]
  /\ UNCHANGED <<world, sent>>

(* The rollout cannot be found or read, or does not have the turn.         *)
NoRollout(h) ==
  /\ hooks[h].at = "read"
  /\ hooks' = [hooks EXCEPT ![h].at = "sendLegacy"]
  /\ UNCHANGED <<world, sent>>

(* _build_and_send_spans                                                   *)
SendTurn(h) ==
  /\ hooks[h].at = "send"
  /\ sent' = Append(sent, [turn |-> hooks[h].turn, found |-> hooks[h].found,
                           seen |-> hooks[h].seen, legacy |-> FALSE])
  /\ hooks' = [hooks EXCEPT ![h] = Ended]
  /\ UNCHANGED world

(* _send_legacy_single_span: what the notification itself says.            *)
SendLegacy(h) ==
  /\ hooks[h].at = "sendLegacy"
  /\ sent' = Append(sent, [turn |-> hooks[h].turn, found |-> Nothing, seen |-> 0, legacy |-> TRUE])
  /\ hooks' = [hooks EXCEPT ![h] = Ended]
  /\ UNCHANGED world

Next ==
  \/ Record
  \/ \E h \in Hooks :
       Notify(h) \/ ReadRollout(h) \/ NoRollout(h) \/ SendTurn(h) \/ SendLegacy(h)

Spec == Init /\ [][Next]_vars

-----------------------------------------------------------------------------
(* Properties *)

Reported == {i \in DOMAIN sent : ~sent[i].legacy}

(* The places of a turn in the file as far as a hook saw it.               *)
Places(turn, seen) ==
  LET starts == {i \in Of("start") : i <= seen}
      first == CHOOSE i \in starts : world[i].of = turn
  IN {i \in first..seen : \A j \in starts : j > first => i < j}

OwnCounts(own) == {world[i].of : i \in own \cap Of("count")}
EarlierCounts(own) == {world[i].of : i \in {j \in Of("count") : \A o \in own : j < o}}

(* A payload has the turn as it stood in the file: its number, all of its  *)
(* calls in their order, each with the output written for it in the turn,  *)
(* no id on two searches, a prompt and an answer of its own; every model   *)
(* call of the turn is added up once however often its total is repeated,  *)
(* and one of an earlier turn only if its total is the first in this turn. *)
TurnAsRecorded ==
  \A n \in Reported :
    LET t == sent[n].found
        own == Places(sent[n].turn, sent[n].seen)
        output(c) == {i \in own \cap Of("output") : world[i].of = c}
        searches == {k \in DOMAIN t.calls : t.calls[k].search /\ t.calls[k].id # None} IN
    /\ t.number = sent[n].turn
    /\ {t.calls[k].at : k \in DOMAIN t.calls} = own \cap (Of("call") \cup Of("searchCall"))
    /\ \A k, l \in DOMAIN t.calls : k < l => t.calls[k].at < t.calls[l].at
    /\ \A k \in DOMAIN t.calls : ~t.calls[k].search =>
         IF output(t.calls[k].at) = {} THEN t.calls[k].output = None
         ELSE t.calls[k].output \in output(t.calls[k].at)
    /\ \A k, l \in searches : t.calls[k].id = t.calls[l].id => k = l
    /\ {t.prompt, t.output} \subseteq own \cup {None}
    /\ \A k, l \in DOMAIN t.usage : t.usage[k] = t.usage[l] => k = l
    /\ {t.usage[k] : k \in DOMAIN t.usage} = OwnCounts(own)

(* What the test of repeated token counts says: a total that was reported  *)
(* before is not summed again.                                             *)
UsageSummedOnce ==
  \A n \in Reported :
    LET t == sent[n].found
        own == Places(sent[n].turn, sent[n].seen) IN
    \A k \in DOMAIN t.usage : t.usage[k] \notin EarlierCounts(own)
=============================================================================
