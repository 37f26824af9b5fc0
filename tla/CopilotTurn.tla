---------------------------- MODULE CopilotTurn ----------------------------
(***************************************************************************)
(* The hooks of one Copilot session (tracing/copilot/hooks).  A prompt     *)
(* overwrites the turn before it, whether it was stopped or not; tools may *)
(* run side by side and are counted in the dict; Stop sends the root, with *)
(* the count.  A step is one access of the dict or one span sent.          *)
(***************************************************************************)
EXTENDS SessionDict, Naturals, Sequences, FiniteSets

CONSTANTS
  Hooks,      (* hook processes; each one handles one event, and its name   *)
              (* stands for the ids it draws and the time at which it runs  *)
  MaxCrashes, (* bound on the hooks that die                                *)
  Named       (* whether calls go by the name of their tool, for want of a  *)
              (* tool_use_id, per behaviour                                 *)

Kinds == {"prompt", "preTool", "postTool", "stop", "subagentStop"}

CopilotAssumption ==
  None \notin Hooks /\ MaxCrashes \in Nat /\ Named \subseteq BOOLEAN

VARIABLES
  store,  (* state_<session_id>.json                                       *)
  hooks,  (* per hook, its event, where it is, its local variables         *)
  world,  (* named; died: the hooks that died; log: the events so far,     *)
          (* with the hook of each and the pre_tool_use of its call        *)
  sent    (* history: the spans handed to send_span                        *)

vars == <<store, hooks, world, sent>>

TraceKey == <<"current_trace_id">>
SpanKey == <<"current_trace_span_id">>
CountKey == <<"tool_count">>
SessionKey == <<"session_id">>

(* Calls without an id share the key of their tool; there is one tool.     *)
StartKey(c) == IF world.named THEN <<"tool_start">> ELSE <<"tool_start", c>>

(* A counter that is not there counts from 0.                              *)
Count == IF Has(store, CountKey) THEN store[CountKey] ELSE 0

(* trace, span, start, count: local variables; call: the call in the       *)
(* payload of a tool event.                                                *)
Unborn == [at |-> "new", kind |-> None, call |-> None, trace |-> None,
           span |-> None, start |-> None, count |-> 0]
Ended == [Unborn EXCEPT !.at = "done"]

Init ==
  /\ store = Empty
  /\ hooks = [h \in Hooks |-> Unborn]
  /\ \E n \in Named : world = [named |-> n, died |-> {}, log |-> <<>>]
  /\ sent = <<>>

Running(h) == hooks[h].at \notin {"new", "done"}
Local(h) == hooks[h]
Goto(h, s, l) == hooks' = [hooks EXCEPT ![h] = IF s = "done" THEN Ended ELSE [l EXCEPT !.at = s]]
Keeps == UNCHANGED <<store, world, sent>>
Writes(d) == store' = d /\ UNCHANGED <<world, sent>>
Sends(s) == sent' = Append(sent, s) /\ UNCHANGED <<store, world>>

-----------------------------------------------------------------------------
(* Copilot *)

Events(k) == {i \in DOMAIN world.log : world.log[i].kind = k}
Here == Len(world.log)

(* The prompt whose turn event i belongs to, if there is one.              *)
PromptsTo(i) == {j \in Events("prompt") : j <= i}
PromptOf(i) == CHOOSE j \in PromptsTo(i) : \A p \in PromptsTo(i) : p <= j
InTurn == PromptsTo(Here) # {} /\ \A i \in Events("stop") : i < PromptOf(Here)

(* The calls of the turn whose result is still to come.                    *)
OpenCalls ==
  {world.log[i].call : i \in {j \in Events("preTool") : j > PromptOf(Here)}}
    \ {world.log[i].call : i \in Events("postTool")}

Background == {"preTool", "postTool", "subagentStop"}

(* Copilot waits for its hooks; the calls of one answer run side by side.  *)
MayStart(k, c) ==
  \A o \in Hooks : Running(o) =>
    {k, hooks[o].kind} \subseteq Background /\ (c # None => hooks[o].call # c)

Fire(h) ==
  /\ hooks[h].at = "new"
  /\ \E k \in Kinds, c \in Hooks \cup {None} :
       /\ MayStart(k, c)
       /\ k # "prompt" => PromptsTo(Here) # {}
       /\ k \in {"preTool", "postTool", "stop"} => InTurn
       /\ CASE k = "preTool" -> c = h
            [] k = "postTool" -> c \in OpenCalls
            [] OTHER -> c = None
       /\ Goto(h, IF k = "prompt" THEN "ensure" ELSE k, [Unborn EXCEPT !.kind = k, !.call = c])
       /\ world' = [world EXCEPT !.log = Append(@, [kind |-> k, by |-> h, call |-> c])]
  /\ UNCHANGED <<store, sent>>

-----------------------------------------------------------------------------
(* UserPromptSubmit *)

Ensure(h) ==
  /\ Local(h).at = "ensure"
  /\ Writes(IF Has(store, SessionKey) THEN store ELSE Put(store, SessionKey, h))
  /\ Goto(h, "open", Local(h))

Open(h) ==
  /\ Local(h).at = "open"
  /\ Writes(Put(store, TraceKey, h))
  /\ Goto(h, "openSpan", Local(h))

(* A mutated form: the count of the turn before is kept.                   *)
OpenSpanOnly(h) ==
  /\ Local(h).at = "openSpan"
  /\ Writes(Put(store, SpanKey, h))
  /\ Goto(h, "done", Local(h))

OpenSpan(h) ==
  /\ Local(h).at = "openSpan"
  /\ Writes(Put(store, SpanKey, h))
  /\ Goto(h, "resetCount", Local(h))

ResetCount(h) ==
  /\ Local(h).at = "resetCount"
  /\ Writes(Put(store, CountKey, 0))
  /\ Goto(h, "done", Local(h))

-----------------------------------------------------------------------------
(* PreToolUse, PostToolUse *)

PreTool(h) ==
  /\ Local(h).at = "preTool"
  /\ Writes(Put(store, StartKey(h), h))
  /\ Goto(h, "done", Local(h))

(* PostToolUse, Stop and SubagentStop do nothing in an unknown session;    *)
(* Stop does nothing without a turn.                                       *)
ReadTrace(h) ==
  /\ Local(h).at \in {"postTool", "stop", "subagentStop"}
  /\ LET t == Get(store, TraceKey) IN
     Goto(h, IF ~Has(store, SessionKey) \/ (Local(h).kind = "stop" /\ t = None)
             THEN "done" ELSE "span",
          [Local(h) EXCEPT !.trace = t])
  /\ Keeps

(* Stop and SubagentStop draw an id for what they do not find.             *)
ReadSpan(h) ==
  /\ Local(h).at = "span"
  /\ LET s == Get(store, SpanKey) IN
     CASE Local(h).kind = "postTool" -> Goto(h, "count", [Local(h) EXCEPT !.span = s])
       [] Local(h).kind = "stop" ->
            Goto(h, "readCount", [Local(h) EXCEPT !.span = IF s = None THEN h ELSE s])
       [] Local(h).kind = "subagentStop" ->
            Goto(h, "send", [Local(h) EXCEPT !.span = s, !.trace = IF @ = None THEN h ELSE @])
  /\ Keeps

Increment(h) ==
  /\ Local(h).at = "count"
  /\ Writes(Put(store, CountKey, Count + 1))
  /\ Goto(h, "start", Local(h))

ReadStart(h) ==
  /\ Local(h).at = "start"
  /\ LET s == Get(store, StartKey(Local(h).call)) IN
     Goto(h, "dropStart", [Local(h) EXCEPT !.start = IF s = None THEN h ELSE s])
  /\ Keeps

DropStart(h) ==
  /\ Local(h).at = "dropStart"
  /\ Writes(Drop(store, {StartKey(Local(h).call)}))
  /\ Goto(h, "send", Local(h))

(* The tool count that Stop reports.                                       *)
ReadCount(h) ==
  /\ Local(h).at = "readCount"
  /\ Goto(h, "send", [Local(h) EXCEPT !.count = Count])
  /\ Keeps

Send(h) ==
  /\ Local(h).at = "send"
  /\ LET l == Local(h) IN
     Sends([what |-> l.kind, by |-> h, trace |-> l.trace, span |-> l.span,
            call |-> l.call, start |-> l.start, count |-> l.count])
  /\ Goto(h, IF Local(h).kind = "stop" THEN "forget" ELSE "done", Local(h))

Forget(h) ==
  /\ Local(h).at = "forget"
  /\ Writes(Drop(store, {TraceKey}))
  /\ Goto(h, "forgetSpan", Local(h))

ForgetSpan(h) ==
  /\ Local(h).at = "forgetSpan"
  /\ Writes(Drop(store, {SpanKey}))
  /\ Goto(h, "done", Local(h))

Crash(h) ==
  /\ Running(h) /\ Cardinality(world.died) < MaxCrashes
  /\ hooks' = [hooks EXCEPT ![h] = Ended]
  /\ world' = [world EXCEPT !.died = @ \cup {h}]
  /\ UNCHANGED <<store, sent>>

Step(h) ==
  \/ Fire(h) \/ Ensure(h) \/ Open(h) \/ OpenSpan(h) \/ ResetCount(h) \/ PreTool(h)
  \/ ReadTrace(h) \/ ReadSpan(h) \/ Increment(h) \/ ReadStart(h) \/ DropStart(h)
  \/ ReadCount(h) \/ Send(h) \/ Forget(h) \/ ForgetSpan(h) \/ Crash(h)

Next == \E h \in Hooks : Step(h)

Spec == Init /\ [][Next]_vars

-----------------------------------------------------------------------------
(* Properties *)

(* The hooks of the turn that prompt p opened, up to event i.              *)
HooksOfTurn(p, i) == {world.log[j].by : j \in p..i}
PostsOfTurn(p, i) == {j \in Events("postTool") : p < j /\ j <= i}
SpansOf(h) == {i \in DOMAIN sent : sent[i].by = h}

(* A turn whose hooks all lived is reported as it was, whatever happened   *)
(* to the turns before it and however its calls overlapped: its root has   *)
(* the ids of its prompt and the number of its calls, every call has one   *)
(* span below that root, and where calls have ids, with its own start.     *)
TurnReported ==
  \A i \in Events("stop") :
    LET p == PromptOf(i)
        ids == world.log[p].by IN
    hooks[world.log[i].by].at = "done" /\ HooksOfTurn(p, i) \cap world.died = {} =>
      /\ \E r \in DOMAIN sent :
           /\ SpansOf(world.log[i].by) = {r}
           /\ sent[r].trace = ids /\ sent[r].span = ids
           /\ sent[r].count = Cardinality(PostsOfTurn(p, i))
      /\ \A j \in PostsOfTurn(p, i) : \E s \in DOMAIN sent :
           /\ SpansOf(world.log[j].by) = {s}
           /\ sent[s].trace = ids /\ sent[s].span = ids
           /\ ~world.named => sent[s].start = sent[s].call
=============================================================================
