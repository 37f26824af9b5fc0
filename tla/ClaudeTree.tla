----------------------------- MODULE ClaudeTree -----------------------------
(***************************************************************************)
(* The tree of a Claude Code turn (tracing/claude_code/hooks): the parser  *)
(* (transcript.py) makes a graph of events of the part of the transcript   *)
(* that belongs to the turn, the stop hook (handlers.py) inserts the       *)
(* graphs of the sub-agents that have stopped, and the renderer makes      *)
(* spans of it.  An answer of the model is written as several records with *)
(* one message id.  When a stop reads and what it keeps is in ClaudeTurn;  *)
(* here an export is one step, and what matters is what it makes of the    *)
(* files.                                                                  *)
(***************************************************************************)
EXTENDS EventModel

CONSTANTS
  Main,        (* the transcript of the session                            *)
  Agents,      (* sub-agents, a sequence in the order of their ids         *)
  MaxMessages, MaxRecords, MaxTurns,
  MaxOdd       (* bound on the records where some are odd                  *)

SubAgents == {Agents[n] : n \in DOMAIN Agents}
Files == {Main} \cup SubAgents

Kinds == {"turn", "agent", "answer", "tool", "again"}
EventIds == Kinds \X Files \X Nat

TreeAssumption ==
  /\ Agents \in Seq(SubAgents) /\ Main \notin SubAgents
  /\ \A n, m \in DOMAIN Agents : Agents[n] = Agents[m] => n = m
  /\ None \notin Files \cup Nat \cup EventIds
  /\ {MaxMessages, MaxRecords, MaxTurns, MaxOdd} \subseteq Nat

VARIABLES
  store,  (* pending_subagents: the sub-agents with a descriptor           *)
  world,  (* log: the records of all files in the order in which they are  *)
          (* written, a line is a place in it; start: the last line before *)
          (* the turn; by: the call that runs a sub-agent; stopped         *)
          (* sub-agents; odd: ids may be missing, calls and results come   *)
          (* twice                                                         *)
  sent    (* history: the trees that were exported                         *)

vars == <<store, world, sent>>

Answer(f, message, call, usage) ==
  [file |-> f, answer |-> TRUE, message |-> message, call |-> call, usage |-> usage,
   agent |-> None]
Result(f, call, agent) ==
  [file |-> f, answer |-> FALSE, message |-> None, call |-> call, usage |-> 0, agent |-> agent]

-----------------------------------------------------------------------------
(* An event, and where it comes from: the lines of a file that are merged  *)
(* into it; a tool has the line of its result and the agent it ran.        *)
Event(kind, of, n, parent) ==
  [id |-> <<kind, of, n>>, parent |-> parent, call |-> None, message |-> None, usage |-> 0,
   file |-> of, lines |-> {}, result |-> None, agent |-> None]

Turn(start) == Event("turn", Main, start, None)

(* models_by_message_id; without a message id nothing is merged.           *)
SeparateRecords(events, message) == {}
ModelsOf(events, message) ==
  {k \in DOMAIN events : message # None /\ events[k].message = message}

ToolsOf(events, call) == {k \in DOMAIN events : events[k].call = call}
First(places) == CHOOSE k \in places : \A l \in places : k <= l

Tool(events, f, i, call, parent) ==
  LET id == IF ToolsOf(events, call) = {} THEN <<"tool", Main, call>> ELSE <<"again", f, i>> IN
  [Event("tool", f, i, parent) EXCEPT !.id = id, !.call = call, !.lines = {i}]

(* A continuation of the answer; its usage is kept if it is fuller.        *)
Extended(e, i, r) ==
  [e EXCEPT !.lines = @ \cup {i}, !.usage = IF r.usage > @ THEN r.usage ELSE @]

AddAnswer(events, f, i, r) ==
  LET models == ModelsOf(events, r.message)
      at == IF models = {} THEN Len(events) + 1 ELSE First(models)
      new == [Event("answer", f, i, events[1].id) EXCEPT !.message = r.message]
      more == IF models = {} THEN Append(events, new) ELSE events
      merged == [more EXCEPT ![at] = Extended(@, i, r)] IN
  IF r.call = None THEN merged ELSE Append(merged, Tool(merged, f, i, r.call, merged[at].id))

(* The first tool of the call has the last result; a result without a tool *)
(* makes one below the root.                                               *)
AddResult(events, f, i, r) ==
  LET new == [Tool(events, f, i, r.call, events[1].id) EXCEPT !.lines = {}]
      more == IF ToolsOf(events, r.call) = {} THEN Append(events, new) ELSE events IN
  [more EXCEPT ![First(ToolsOf(more, r.call))] = [@ EXCEPT !.result = i, !.agent = r.agent]]

(* parse_claude_transcript                                                 *)
AddLine(events, f, i) ==
  LET r == world.log[i] IN
  IF r.file # f THEN events
  ELSE IF r.answer THEN AddAnswer(events, f, i, r) ELSE AddResult(events, f, i, r)

Parsed(f, start, root) ==
  LET events[n \in start..Len(world.log)] ==
        IF n = start THEN <<root>> ELSE AddLine(events[n - 1], f, n)
  IN events

Parse(f, start, root) == Parsed(f, start, root)[Len(world.log)]

(* _merge_pending_subagents: a sub-agent comes right after the tool whose  *)
(* result names it; one that no result names is left out.                  *)
MergeAgent(events, a) ==
  LET tools == {k \in DOMAIN events : events[k].call # None /\ events[k].agent = a} IN
  IF tools = {} THEN events
  ELSE LET k == First(tools) IN
       SubSeq(events, 1, k) \o Parse(a, 0, Event("agent", a, 0, events[k].id))
         \o SubSeq(events, k + 1, Len(events))

Merged ==
  LET tree[n \in 0..Len(Agents)] ==
        IF n = 0 THEN Parse(Main, world.start, Turn(world.start))
        ELSE IF Agents[n] \in store THEN MergeAgent(tree[n - 1], Agents[n]) ELSE tree[n - 1]
  IN tree

Tree == Merged[Len(Agents)]

MergedAgents(events) == {events[k].file : k \in DOMAIN events} \ {Main}

-----------------------------------------------------------------------------
(* Claude Code *)

Init ==
  /\ store = {}
  /\ \E odd \in BOOLEAN :
       world = [log |-> <<>>, start |-> 0, turns |-> 1, odd |-> odd, stopped |-> {},
                by |-> [a \in SubAgents |-> None]]
  /\ sent = <<>>

Lines == DOMAIN world.log
Answers == {i \in Lines : world.log[i].answer}
Messages == {world.log[i].message : i \in Answers} \ {None}
Calls == {world.log[i].call : i \in Answers} \ {None}
CallsIn(f) == {world.log[i].call : i \in {i \in Answers : world.log[i].file = f}} \ {None}
Returned == {world.log[i].call : i \in Lines \ Answers}
RunBy(call) == {a \in SubAgents : world.by[a] = call}

Awake(f) == IF f = Main THEN TRUE ELSE world.by[f] # None /\ f \notin world.stopped
LastMessage(f) ==
  LET own == {i \in Answers : world.log[i].file = f} IN
  IF own = {} THEN None ELSE world.log[CHOOSE i \in own : \A j \in own : j <= i].message

Write(r) ==
  /\ Len(world.log) < IF world.odd THEN MaxOdd ELSE MaxRecords
  /\ world' = [world EXCEPT !.log = Append(@, r)]
  /\ UNCHANGED <<store, sent>>

(* A record of a new answer, or one more of the last; odd ones have no     *)
(* message id, another usage than the first, or a call that was written.   *)
WriteAnswer(f) ==
  /\ Awake(f)
  /\ \E m \in {Cardinality(Messages) + 1, LastMessage(f)} \cup (IF world.odd THEN {None} ELSE {}),
        c \in {Cardinality(Calls) + 1, None} \cup (IF world.odd THEN CallsIn(f) ELSE {}),
        u \in 1..3 :
       /\ m \in 1..MaxMessages \cup {None}
       /\ u # 2 => world.odd /\ m = LastMessage(f) /\ m # None
       /\ Write(Answer(f, m, c, u))

(* The result of a call that runs an agent names it once it has stopped.   *)
WriteResult(f) ==
  /\ Awake(f)
  /\ \E c \in CallsIn(f) :
       /\ RunBy(c) \subseteq world.stopped
       /\ world.odd \/ c \notin Returned
       /\ Write(Result(f, c, IF RunBy(c) = {} THEN None ELSE CHOOSE a \in RunBy(c) : TRUE))

StartAgent(a) ==
  /\ world.by[a] = None
  /\ \E f \in Files : Awake(f) /\ \E c \in CallsIn(f) \ Returned :
       RunBy(c) = {} /\ world' = [world EXCEPT !.by[a] = c]
  /\ UNCHANGED <<store, sent>>

(* SubagentStop stores a descriptor while a turn is open; one that runs    *)
(* was called by an answer of the transcript.                              *)
StopAgent(a) ==
  /\ a # Main /\ Awake(a)
  /\ \A b \in SubAgents : world.by[b] \in CallsIn(a) => b \in world.stopped
  /\ world' = [world EXCEPT !.stopped = @ \cup {a}]
  /\ store' = IF Len(sent) < world.turns THEN store \cup {a} ELSE store
  /\ UNCHANGED sent

(* The prompt of the next turn remembers the line at which it begins.      *)
Prompt ==
  /\ world.turns < MaxTurns /\ Len(sent) = world.turns
  /\ world' = [world EXCEPT !.turns = @ + 1, !.start = Len(world.log)]
  /\ UNCHANGED <<store, sent>>

(* A stop exports the turn, without a tree if the transcript has no answer;*)
(* sub-agents that are in the tree are forgotten.                          *)
Export ==
  /\ Len(sent) < world.turns
  /\ LET answered == \E i \in Answers : world.log[i].file = Main /\ i > world.start
         tree == IF answered THEN Tree ELSE <<>> IN
     /\ sent' = Append(sent, [tree |-> tree, start |-> world.start, pending |-> store,
                              seen |-> Len(world.log)])
     /\ store' = store \ MergedAgents(tree)
  /\ UNCHANGED world

Next ==
  \/ \E f \in Files : WriteAnswer(f) \/ WriteResult(f)
  \/ \E a \in SubAgents : StartAgent(a) \/ StopAgent(a)
  \/ Prompt \/ Export

Spec == Init /\ [][Next]_vars

-----------------------------------------------------------------------------
(* Properties *)

(* What the files say of a turn: the records of the transcript from its    *)
(* first line on and those of the agents in the tree, as far as they were  *)
(* there.  An export (looked at before more is written) has them all in    *)
(* one tree, parse_claude_transcript and _merge_pending_subagents see to   *)
(* it, whatever ids are missing or come twice: every answer in one model   *)
(* event below its file's root, records of one message and no others       *)
(* together, with the largest usage; every call at its answer, the last    *)
(* result of a call at the first tool of it; every agent that a result of  *)
(* the transcript names below the tool that ran it, with nothing lost when *)
(* the renderer cuts the edges that lead nowhere; no agent in two trees.   *)
TreeAsRecorded ==
  /\ \A n \in DOMAIN sent : sent[n].seen = Len(world.log) /\ sent[n].tree # <<>> =>
       LET ev == sent[n].tree
           own == {i \in 1..sent[n].seen :
                     world.log[i].file \in MergedAgents(ev) \cup
                       (IF i > sent[n].start THEN {Main} ELSE {})}
           models == {k \in DOMAIN ev : ev[k].id[1] = "answer"}
           tools == {k \in DOMAIN ev : ev[k].call # None}
           agents == {k \in DOMAIN ev : ev[k].id[1] = "agent"}
           above(k) == ev[FirstAt(ev, ev[k].parent)]
           results(c) == {i \in own \ Answers : world.log[i].call = c} IN
       /\ \A k \in 2..Len(ev) : SafeParent(ev, k) = ev[k].parent /\ IsFirst(ev, k)
       /\ \A i \in own \cap Answers :
            /\ Cardinality({k \in models : i \in ev[k].lines}) = 1
            /\ world.log[i].call # None =>
                 \E k \in tools : ev[k].lines = {i} /\ i \in above(k).lines
       /\ \A k \in models :
            LET usages == {world.log[i].usage : i \in ev[k].lines} IN
            /\ IF ev[k].message = None THEN Cardinality(ev[k].lines) = 1
               ELSE ev[k].lines = {i \in own : world.log[i].message = ev[k].message}
            /\ ev[k].usage \in usages /\ \A u \in usages : u <= ev[k].usage
            /\ above(k).file = ev[k].file /\ above(k).id[1] \in {"turn", "agent"}
       /\ \A k \in tools :
            LET c == ev[k].call IN
            ev[k].result =
              IF results(c) = {} \/ (\E l \in tools : l < k /\ ev[l].call = c) THEN None
              ELSE CHOOSE i \in results(c) : \A j \in results(c) : j <= i
       /\ \A k \in agents : above(k).call = world.by[ev[k].file]
       /\ \A a \in sent[n].pending :
            results(world.by[a]) # {} /\ world.by[a] \in CallsIn(Main) => a \in MergedAgents(ev)
  /\ \A n, l \in DOMAIN sent :
       n # l => MergedAgents(sent[n].tree) \cap MergedAgents(sent[l].tree) = {}
=============================================================================
