----------------------------- MODULE ClaudeTurn -----------------------------
(***************************************************************************)
(* The hooks of one Claude Code session (tracing/claude_code/hooks).  All  *)
(* of them share one dict, kept by core.common.StateManager: a `get` reads *)
(* the file without a lock, a `set` or a larger update holds the session's *)
(* lock.  A step is one such access, or the sending of one payload.        *)
(*                                                                         *)
(* A turn lives in the dict from its prompt to its stop.  What the tool    *)
(* and subagent hooks observe waits there, too, until a stop finds the     *)
(* matching lines of Claude's transcript and sends both as one tree.  A    *)
(* turn whose export failed, or whose stop never came, stays: the next     *)
(* stop, or the next prompt, sends it.                                     *)
(***************************************************************************)
EXTENDS Sequences, Integers, FiniteSets

CONSTANTS
  Hooks,   (* hook processes; each one handles one event                   *)
  NoHook,
  Tools,   (* tool calls                                                   *)
  Agents,  (* subagents                                                    *)
  NoItem,  (* no tool and no subagent: a transcript line with an answer    *)
           (* that is only text, an event about neither                    *)
  MaxLines,(* bound on the transcript                                      *)
  Modes    (* environments a behaviour may have; see ModeType              *)

Items == Tools \cup Agents
Owner == Hooks \cup {NoHook}

(* "note" is a notification, a permission request or denial, or a          *)
(* compaction: one span at once, under the turn that is open.              *)
Kinds == {"session", "expand", "prompt", "pre", "post", "agent", "note", "stop", "failure", "end"}

(* kinds:   the events that occur                                          *)
(* serial:  Claude Code starts an event of these kinds only when no other  *)
(*          hook of these kinds is running                                 *)
(* log:     the transcript hooks see: one with stable uuids, an old one    *)
(*          without, or none                                               *)
(* down:    an export may fail                                             *)
(* crashes: a hook may die                                                 *)
(* faults:  an update may not get the lock, or not be written              *)
ModeType ==
  [kinds : SUBSET Kinds, serial : SUBSET Kinds, log : {"stable", "old", "none"},
   down : BOOLEAN, crashes : BOOLEAN, faults : BOOLEAN]

ASSUME ClaudeAssumption ==
  /\ NoHook \notin Hooks
  /\ Tools \cap Agents = {}
  /\ NoItem \notin Items
  /\ Items \cap Nat = {}
  /\ MaxLines \in Nat
  /\ Modes \subseteq ModeType

VARIABLES
  mode,
  data,   (* state_<session>.json                                          *)
  log,    (* the transcript: per line, the tool or agent it is about; the  *)
          (* first such line is its call in an answer of the model, a      *)
          (* second one its result                                         *)
  ev,     (* per hook, the event it handles                                *)
  hook,   (* per hook, how far it has come and its local variables         *)
  spans,  (* history: payloads handed to send_span                         *)
  before  (* history: per UserPromptExpansion, the turn open at that time  *)

history == <<spans, before>>
vars == <<mode, data, log, ev, hook, history>>

-----------------------------------------------------------------------------
(* The dict *)

(* ToolObservation and subagent descriptor: the hooks whose data it holds. *)
Obs == [start : Owner, result : Owner]
NoObs == [start |-> NoHook, result |-> NoHook]

(* session: session_id is set; count: trace_count; trace, span, line:      *)
(* current_trace_id, current_trace_span_id, trace_start_line; command: the *)
(* four pending_command keys; ids: high_fidelity_span_ids, the span id of  *)
(* an event being the hook that drew it; buffer: the observation buffer    *)
(* and pending_subagents.  A missing number counts as zero.                *)
NoData ==
  [session |-> FALSE, count |-> 0, trace |-> NoHook, span |-> NoHook, line |-> 0,
   command |-> NoHook, ids |-> {}, buffer |-> [i \in Items |-> NoObs]]

(* A hook before its event, and one that has returned or died.             *)
Idle(at) ==
  [at |-> at, trace |-> NoHook, span |-> NoHook, number |-> 0, lines |-> {}, tree |-> FALSE,
   command |-> NoHook, ids |-> {}, found |-> [i \in Items |-> NoObs]]

Running(h) == hook[h].at \notin {"new", "done"}

(* Hook h goes on at s with the local variables l.                         *)
Continue(h, s, l) ==
  hook' = [hook EXCEPT ![h] = IF s = "done" THEN Idle("done") ELSE [l EXCEPT !.at = s]]

Goto(h, s) == Continue(h, s, hook[h])

(* The transcript from line n on.                                          *)
From(n) == {m \in DOMAIN log : m > n}
IsAnswer(m) == log[m] = NoItem \/ \A k \in 1..(m - 1) : log[k] # log[m]

(* The tool events among some lines; an agent is known by its result.      *)
ItemsIn(lines) ==
  {i \in Items : \E m \in lines : log[m] = i /\ (i \in Agents => ~IsAnswer(m))}

(* _has_stable_model_ids: the turn has answers of the model, with uuids.   *)
IsTree(lines) == mode.log = "stable" /\ \E m \in lines : IsAnswer(m)

Matched(l) == {i \in ItemsIn(l.lines) : l.found[i] # NoObs}

(* The events of the tree of a turn: its root, by number, and its items.   *)
EventsOf(l) == {l.number} \cup (ItemsIn(l.lines) \cap Tools) \cup Matched(l)

(* span_id_overrides: stored ids first, new ones drawn by hook h.          *)
SpanIds(h, l, stored) ==
  stored \cup {<<e, IF e = l.number THEN l.span ELSE h>> :
                 e \in {x \in EventsOf(l) : ~\E p \in stored : p[1] = x}}

(* A payload: its kind and sender, the turn it belongs to, the span it is  *)
(* or hangs under, and, of a root, its number, span ids, transcript lines, *)
(* observations and command; ok if the backend took it.                    *)
Sent(h, kind, ids, obs, ok) ==
  LET l == hook[h] IN
  spans' = spans \cup {[kind |-> kind, by |-> h, trace |-> l.trace, span |-> l.span,
                        number |-> l.number, ids |-> ids, lines |-> l.lines, obs |-> obs,
                        command |-> l.command, ok |-> ok]}

IsRoot(s) == s.kind \in {"tree", "root", "failed"}

Delivered(t) == \E s \in spans : IsRoot(s) /\ s.trace = t /\ s.ok

-----------------------------------------------------------------------------
(* Where a handler goes on *)

First(e) ==
  CASE e.kind \in {"session", "prompt"} -> "ensure"
    [] e.kind = "expand" -> "stash"
    [] e.kind = "pre" -> IF mode.log = "none" THEN "done" ELSE "start"
    [] e.kind = "post" -> IF mode.log = "none" THEN "trace" ELSE "lookup"
    [] e.kind = "end" -> "remove"
    [] OTHER -> "trace"

Ensured(e) == IF e.kind = "session" THEN "done" ELSE "pending"

(* After the export of a turn: a prompt looks whether it may open its own. *)
Exported(e) == IF e.kind = "prompt" THEN "recheck" ELSE "done"

(* The trace of the open turn has been read.                               *)
Traced(e) ==
  IF e.kind = "agent" /\ mode.log = "stable" /\ log # <<>> THEN "descriptor" ELSE "span"

Spanned(e) == IF e.kind \in {"stop", "prompt", "failure"} THEN "number" ELSE "note"

(* Mutant of Parsed: there is no fallback for a turn without a tree.       *)
ParsedTreeOnly(e, tree) == IF tree THEN "tools" ELSE Exported(e)

Parsed(e, tree) == IF tree THEN "tools" ELSE "command"

(* What follows an update of the dict that succeeded.                      *)
AfterUpdate(e, at) ==
  CASE at = "setSession" -> "setCount"
    [] at = "setCount" -> Ensured(e)
    [] at = "setIds" -> "send"
    [] at = "count" -> "open"
    [] at = "open" -> "openSpan"
    [] at = "openSpan" -> "openLine"
    [] at = "start" /\ e.kind = "post" -> "result"
    [] at = "ack" -> Exported(e)
    [] OTHER -> "done"

(* StateManager drops an update it cannot make and says nothing, and the   *)
(* handler goes on; ToolBuffer raises and ends its hook; a subagent that   *)
(* cannot be buffered has its span sent at once.                           *)
AfterDrop(e, at) ==
  CASE at = "start" -> "done"
    [] at = "descriptor" -> "span"
    [] OTHER -> AfterUpdate(e, at)

Updates ==
  {"setSession", "setCount", "setIds", "count", "open", "openSpan", "openLine",
   "stash", "start", "result", "descriptor", "ack"}

Stages ==
  {"new", "done", "ensure", "pending", "trace", "span", "number", "parse", "tools", "agents",
   "command", "ids", "send", "recheck", "lookup", "note", "remove"} \cup Updates

-----------------------------------------------------------------------------
(* Events and the transcript *)

Init ==
  /\ mode \in Modes
  /\ data = NoData
  /\ log = <<>>
  /\ ev = [h \in Hooks |-> [kind |-> "note", item |-> NoItem]]
  /\ hook = [h \in Hooks |-> Idle("new")]
  /\ spans = {}
  /\ before = [h \in Hooks |-> NoHook]

(* Claude Code starts a hook process.                                      *)
Start(h, k, i) ==
  /\ hook[h].at = "new"
  /\ k \in mode.kinds
  /\ k \in {"pre", "post"} => i \in Tools
  /\ k = "agent" => i \in Agents
  /\ k \notin {"pre", "post", "agent"} => i = NoItem
  /\ ~\E o \in Hooks : Running(o) /\ {ev[o].kind, k} \subseteq mode.serial
  /\ ev' = [ev EXCEPT ![h] = [kind |-> k, item |-> i]]
  /\ Continue(h, First(ev'[h]), Idle("new"))
  /\ UNCHANGED <<mode, data, log, history>>

(* Tools and subagents that run have hooks, too.                           *)
Runs(i) ==
  /\ i \in Tools => mode.kinds \cap {"pre", "post"} # {}
  /\ i \in Agents => "agent" \in mode.kinds

(* Claude Code appends a line: an answer, a call of a tool, its result.    *)
Write(i) ==
  /\ mode.log # "none"
  /\ Runs(i)
  /\ Len(log) < MaxLines
  /\ i = NoItem \/ Cardinality({m \in DOMAIN log : log[m] = i}) < 2
  /\ log' = Append(log, i)
  /\ UNCHANGED <<mode, data, ev, hook, history>>

-----------------------------------------------------------------------------
(* The session and the prompt *)

(* Mutant of Ensure: the session is set up again by every event.           *)
EnsureAlways(h) ==
  /\ hook[h].at = "ensure"
  /\ Goto(h, "setSession")
  /\ UNCHANGED <<mode, data, log, ev, history>>

(* ensure_session_initialized: the check that there is a session ...       *)
Ensure(h) ==
  /\ hook[h].at = "ensure"
  /\ Goto(h, IF data.session THEN Ensured(ev[h]) ELSE "setSession")
  /\ UNCHANGED <<mode, data, log, ev, history>>

(* The update that hook h is at: the dict becomes d.                       *)
Update(h, d) ==
  /\ data' = d
  /\ Goto(h, AfterUpdate(ev[h], hook[h].at))
  /\ UNCHANGED <<mode, log, ev>>

(* ... and, each on its own, the updates that set one up.                  *)
SetSession(h) ==
  hook[h].at = "setSession" /\ Update(h, [data EXCEPT !.session = TRUE]) /\ UNCHANGED history

SetCount(h) ==
  hook[h].at = "setCount" /\ Update(h, [data EXCEPT !.count = 0]) /\ UNCHANGED history

(* A turn that is still open is exported before the prompt opens its own.  *)
Pending(h) ==
  /\ hook[h].at = "pending"
  /\ Goto(h, IF data.trace = NoHook THEN "count" ELSE "trace")
  /\ UNCHANGED <<mode, data, log, ev, history>>

(* Mutant of Recheck: the prompt opens its turn in any case.               *)
OpenAnyway(h) ==
  /\ hook[h].at = "recheck"
  /\ Goto(h, "count")
  /\ UNCHANGED <<mode, data, log, ev, history>>

(* A turn whose export failed stays open, and the prompt joins it.         *)
Recheck(h) ==
  /\ hook[h].at = "recheck"
  /\ Goto(h, IF data.trace = NoHook THEN "count" ELSE "done")
  /\ UNCHANGED <<mode, data, log, ev, history>>

Count(h) ==
  hook[h].at = "count" /\ Update(h, [data EXCEPT !.count = @ + 1]) /\ UNCHANGED history

Open(h) ==
  hook[h].at = "open" /\ Update(h, [data EXCEPT !.trace = h]) /\ UNCHANGED history

OpenSpan(h) ==
  hook[h].at = "openSpan" /\ Update(h, [data EXCEPT !.span = h]) /\ UNCHANGED history

(* Mutants of OpenLine: the position is not taken; it is one too far.      *)
OpenAtStart(h) ==
  hook[h].at = "openLine" /\ Update(h, [data EXCEPT !.line = 0]) /\ UNCHANGED history

OpenPastEnd(h) ==
  hook[h].at = "openLine" /\ Update(h, [data EXCEPT !.line = Len(log) + 1]) /\ UNCHANGED history

(* The turn starts at the present end of the transcript.                   *)
OpenLine(h) ==
  hook[h].at = "openLine" /\ Update(h, [data EXCEPT !.line = Len(log)]) /\ UNCHANGED history

(* _handle_user_prompt_expansion; its four keys as one.                    *)
Stash(h) ==
  /\ hook[h].at = "stash"
  /\ Update(h, [data EXCEPT !.command = h])
  /\ before' = [before EXCEPT ![h] = data.trace]
  /\ UNCHANGED spans

-----------------------------------------------------------------------------
(* Tools, subagents and notes *)

(* _handle_post_tool_use with a transcript: is the call buffered?          *)
Lookup(h) ==
  /\ hook[h].at = "lookup"
  /\ Goto(h, CASE ~data.session -> "done"
                [] data.session /\ data.buffer[ev[h].item] = NoObs -> "start"
                [] OTHER -> "result")
  /\ UNCHANGED <<mode, data, log, ev, history>>

(* ToolBuffer.record_start, record_result                                  *)
RecordStart(h) ==
  hook[h].at = "start" /\ Update(h, [data EXCEPT !.buffer[ev[h].item].start = h])
                       /\ UNCHANGED history

RecordResult(h) ==
  hook[h].at = "result" /\ Update(h, [data EXCEPT !.buffer[ev[h].item].result = h])
                        /\ UNCHANGED history

(* _buffer_subagent *)
RecordAgent(h) ==
  hook[h].at = "descriptor"
    /\ Update(h, [data EXCEPT !.buffer[ev[h].item] = [start |-> NoHook, result |-> h]])
    /\ UNCHANGED history

(* The one span of a hook that does not buffer, under the span it read.    *)
SendNote(h) ==
  /\ hook[h].at = "note"
  /\ Sent(h, "note", {}, {}, TRUE)
  /\ Goto(h, "done")
  /\ UNCHANGED <<mode, data, log, ev, before>>

(* _handle_session_end unlinks the dict without its lock.                  *)
Remove(h) ==
  /\ hook[h].at = "remove"
  /\ data' = IF data.session THEN NoData ELSE data
  /\ Goto(h, "done")
  /\ UNCHANGED <<mode, log, ev, history>>

-----------------------------------------------------------------------------
(* The stop *)

(* Is a turn open?  Without a transcript a tool does not ask.              *)
GetTrace(h) ==
  /\ hook[h].at = "trace"
  /\ LET turn == data.trace # NoHook \/ ev[h].kind = "post"
         session == data.session \/ ev[h].kind \in {"note", "agent"}
     IN Continue(h, IF turn /\ session THEN Traced(ev[h]) ELSE Exported(ev[h]),
                 [hook[h] EXCEPT !.trace = data.trace])
  /\ UNCHANGED <<mode, data, log, ev, history>>

(* A root whose span id is missing gets a new one.                         *)
GetSpan(h) ==
  /\ hook[h].at = "span"
  /\ Continue(h, Spanned(ev[h]),
       [hook[h] EXCEPT !.span = IF data.span = NoHook /\ Spanned(ev[h]) = "number"
                                THEN h ELSE data.span])
  /\ UNCHANGED <<mode, data, log, ev, history>>

GetNumber(h) ==
  /\ hook[h].at = "number"
  /\ Continue(h, IF ev[h].kind = "failure" THEN "send" ELSE "parse",
              [hook[h] EXCEPT !.number = data.count])
  /\ UNCHANGED <<mode, data, log, ev, history>>

(* The turn's part of the transcript decides: a tree, or only its root.    *)
Parse(h) ==
  /\ hook[h].at = "parse"
  /\ LET lines == From(data.line) IN
       Continue(h, Parsed(ev[h], IsTree(lines)),
                [hook[h] EXCEPT !.lines = lines, !.tree = IsTree(lines)])
  /\ UNCHANGED <<mode, data, log, ev, history>>

(* What has been buffered of these items.                                  *)
Find(h, items) ==
  [hook[h] EXCEPT !.found = [i \in Items |-> IF i \in items THEN data.buffer[i] ELSE @[i]]]

GetTools(h) ==
  hook[h].at = "tools" /\ Continue(h, "agents", Find(h, Tools))
                       /\ UNCHANGED <<mode, data, log, ev, history>>

GetAgents(h) ==
  hook[h].at = "agents" /\ Continue(h, "command", Find(h, Agents))
                        /\ UNCHANGED <<mode, data, log, ev, history>>

GetCommand(h) ==
  /\ hook[h].at = "command"
  /\ Continue(h, IF hook[h].tree THEN "ids" ELSE "send",
              [hook[h] EXCEPT !.command = data.command])
  /\ UNCHANGED <<mode, data, log, ev, history>>

(* Span ids of an earlier attempt are used again.                          *)
GetIds(h) ==
  /\ hook[h].at = "ids"
  /\ Continue(h, "setIds", [hook[h] EXCEPT !.ids = SpanIds(h, hook[h], data.ids)])
  /\ UNCHANGED <<mode, data, log, ev, history>>

(* Mutant of SetIds: the ids are not kept for another attempt.             *)
SetNoIds(h) == hook[h].at = "setIds" /\ Update(h, data) /\ UNCHANGED history

SetIds(h) ==
  hook[h].at = "setIds" /\ Update(h, [data EXCEPT !.ids = hook[h].ids]) /\ UNCHANGED history

(* The export of a turn, which may fail.                                   *)
SendTurn(h) ==
  /\ hook[h].at = "send"
  /\ LET l == hook[h]
         kind == CASE ev[h].kind = "failure" -> "failed"
                   [] ev[h].kind # "failure" /\ l.tree -> "tree"
                   [] OTHER -> "root"
     IN \E ok \in {TRUE, ~mode.down} :
          /\ Sent(h, kind, IF l.tree THEN l.ids ELSE {<<l.number, l.span>>},
                  {<<i, l.found[i]>> : i \in Matched(l)}, ok)
          /\ Goto(h, IF ok THEN "ack" ELSE Exported(ev[h]))
  /\ UNCHANGED <<mode, data, log, ev, before>>

(* What was matched with the transcript and is still as it was then.       *)
Unchanged(h) == {i \in Matched(hook[h]) : data.buffer[i] = hook[h].found[i]}

(* The dict without the turn and without some of what is buffered.         *)
Closed(items) ==
  [data EXCEPT !.trace = NoHook, !.span = NoHook, !.line = 0, !.command = NoHook, !.ids = {},
               !.buffer = [i \in Items |-> IF i \in items THEN NoObs ELSE @[i]]]

(* Mutants of Ack: what was matched goes though it has changed since; the  *)
(* turn's command is not forgotten.                                        *)
AckAll(h) ==
  /\ hook[h].at = "ack"
  /\ Update(h, IF data.trace = hook[h].trace THEN Closed(Matched(hook[h])) ELSE data)
  /\ UNCHANGED history

AckKeepsCommand(h) ==
  /\ hook[h].at = "ack"
  /\ Update(h, IF data.trace = hook[h].trace
               THEN [Closed(Unchanged(h)) EXCEPT !.command = data.command] ELSE data)
  /\ UNCHANGED history

(* _acknowledge_exported_turn: a newer turn is left alone, and what has    *)
(* changed in the buffer since it was read stays there.                    *)
Ack(h) ==
  /\ hook[h].at = "ack"
  /\ Update(h, IF data.trace = hook[h].trace THEN Closed(Unchanged(h)) ELSE data)
  /\ UNCHANGED history

-----------------------------------------------------------------------------
(* What goes wrong *)

DropUpdate(h) ==
  /\ mode.faults
  /\ hook[h].at \in Updates
  /\ Goto(h, AfterDrop(ev[h], hook[h].at))
  /\ UNCHANGED <<mode, data, log, ev, history>>

Crash(h) ==
  /\ mode.crashes
  /\ Running(h)
  /\ Goto(h, "done")
  /\ UNCHANGED <<mode, data, log, ev, history>>

Step(h) ==
  \/ Ensure(h) \/ SetSession(h) \/ SetCount(h)
  \/ Pending(h) \/ Recheck(h) \/ Count(h) \/ Open(h) \/ OpenSpan(h) \/ OpenLine(h)
  \/ Stash(h)
  \/ Lookup(h) \/ RecordStart(h) \/ RecordResult(h) \/ RecordAgent(h)
  \/ SendNote(h) \/ Remove(h)
  \/ GetTrace(h) \/ GetSpan(h) \/ GetNumber(h) \/ Parse(h)
  \/ GetTools(h) \/ GetAgents(h) \/ GetCommand(h) \/ GetIds(h) \/ SetIds(h)
  \/ SendTurn(h) \/ Ack(h)

Next ==
  \/ \E h \in Hooks, k \in Kinds, i \in Items \cup {NoItem} : Start(h, k, i)
  \/ \E i \in Items \cup {NoItem} : Write(i)
  \/ \E h \in Hooks : Step(h) \/ DropUpdate(h) \/ Crash(h)

Spec == Init /\ [][Next]_vars

-----------------------------------------------------------------------------
(* What should hold *)

Ids == SUBSET ((Nat \cup Items) \X Owner)

DataType ==
  [session : BOOLEAN, count : Nat, trace : Owner, span : Owner, line : 0..Len(log),
   command : Owner, ids : Ids, buffer : [Items -> Obs]]

LocalType ==
  [at : Stages, trace : Owner, span : Owner, number : Nat, lines : SUBSET DOMAIN log,
   tree : BOOLEAN, command : Owner, ids : Ids, found : [Items -> Obs]]

(* The dict, the transcript and the hooks have values of their kinds; a    *)
(* turn starts at a place inside the transcript.                           *)
ClaudeTypeOK ==
  /\ mode \in Modes
  /\ data \in DataType
  /\ log \in Seq(Items \cup {NoItem})
  /\ ev \in [Hooks -> [kind : Kinds, item : Items \cup {NoItem}]]
  /\ hook \in [Hooks -> LocalType]
  /\ before \in [Hooks -> Owner]

(* Claude Code waits for each of these hooks before it goes on.            *)
Serial == {"session", "expand", "prompt", "stop", "failure", "end"} \subseteq mode.serial
Orderly == Serial /\ ~mode.crashes /\ ~mode.faults

(* A turn leaves the dict only after a root of it has been delivered, or   *)
(* with its session (_handle_user_prompt_submit, _handle_stop), whatever   *)
(* else fails, if Claude Code submits a prompt after the last one's hook.  *)
TurnKeptUntilSent ==
  [][\/ "prompt" \notin mode.serial
     \/ data.trace \in {NoHook, data'.trace}
     \/ Delivered(data.trace)
     \/ data' = NoData]_vars

(* An observation leaves the buffer only after it has been delivered as it *)
(* is, or with its session: a result recorded while a stop exports is kept *)
(* (_acknowledge_exported_turn, ToolBuffer), whatever overlaps or fails.   *)
ObservationKeptUntilSent ==
  [][\A i \in Items :
       \/ data.buffer[i] = NoObs
       \/ data'.buffer[i] # NoObs
       \/ \E s \in spans : s.ok /\ <<i, data.buffer[i]>> \in s.obs
       \/ data' = NoData]_vars

(* Every attempt to export the tree of a turn gives an event the same span *)
(* id (high_fidelity_span_ids), also after a crash between two attempts.   *)
StableIds ==
  Serial /\ ~mode.faults =>
    \A s, r \in spans :
      s.kind = "tree" /\ r.kind = "tree" /\ s.trace = r.trace =>
        \A p \in s.ids, q \in r.ids : p[1] = q[1] => p = q

(* Two turns of a session share nothing: no transcript line is billed to   *)
(* both (trace_start_line), their numbers differ while the session lasts   *)
(* (trace_count), and a command is reported with one of them at most.      *)
TurnsShareNothing ==
  Orderly =>
    \A s, r \in spans : s.trace # r.trace =>
      /\ s.ok /\ r.ok => s.lines \cap r.lines = {}
      /\ s.ok /\ r.ok /\ s.command = r.command => s.command = NoHook
      /\ IsRoot(s) /\ IsRoot(r) /\ s.number = r.number => "end" \in mode.kinds

(* If no export fails, a stop leaves no turn open, and a prompt only its   *)
(* own: the legacy fallback sends what is no tree.                         *)
StopCloses ==
  [][\A h \in Hooks :
       Orderly /\ ~mode.down /\ Running(h) /\ hook'[h].at = "done" =>
         /\ ev[h].kind \in {"stop", "failure"} => data'.trace = NoHook
         /\ ev[h].kind = "prompt" => data'.trace = h]_vars

(* A command is not reported with the turn that was open already when it   *)
(* was typed: UserPromptExpansion comes before the prompt of its own turn. *)
CommandOnItsTurn ==
  \A s \in spans : s.ok /\ s.command # NoHook => s.trace # before[s.command]
=============================================================================
