------------------------------ MODULE KiroTurn ------------------------------
(***************************************************************************)
(* The hooks of one Kiro session (tracing/kiro/hooks).  Kiro gives a call  *)
(* no id: preToolUse puts it into the slot numbered by a counter, which it *)
(* increments and reads back in two steps, and postToolUse takes the slot  *)
(* the counter names by then.  What was taken is set to "", which reads    *)
(* like nothing.  A step is one access of the dict or one span sent.       *)
(***************************************************************************)
EXTENDS SessionDict, Naturals, Sequences, FiniteSets

CONSTANTS
  Hooks,      (* hook processes; each one handles one event, and its name   *)
              (* stands for the ids it draws and the call it is about       *)
  MaxCrashes, (* bound on the hooks that die                                *)
  Overlaps    (* whether calls may overlap, per behaviour                   *)

Kinds == {"agentSpawn", "prompt", "preTool", "postTool", "stop"}

KiroAssumption ==
  None \notin Hooks /\ MaxCrashes \in Nat /\ Overlaps \subseteq BOOLEAN

VARIABLES
  store,  (* state_<session_id>.json                                       *)
  hooks,  (* per hook, its event, where it is, its local variables         *)
  world,  (* overlap; died: the hooks that died; log: the events so far,   *)
          (* with the hook of each and the preToolUse of its call          *)
  sent    (* history: the spans handed to send_span                        *)

vars == <<store, hooks, world, sent>>

SessionKey == <<"session_id">>
TraceKey == <<"pending_turn_trace_id">>
SpanKey == <<"pending_turn_span_id">>
CountKey == <<"tool_count">>
SlotSpan(n) == <<"tool_pending_span_id", n>>
SlotCall(n) == <<"tool_pending_tool_input", n>>

Count == IF Has(store, CountKey) THEN store[CountKey] ELSE 0

(* slot, id, input, trace, span: local variables; call: the call in the    *)
(* payload of a tool event.                                                *)
Unborn == [at |-> "new", kind |-> None, call |-> None, slot |-> 0, id |-> None,
           input |-> None, trace |-> None, span |-> None]
Ended == [Unborn EXCEPT !.at = "done"]

Init ==
  /\ store = Empty
  /\ hooks = [h \in Hooks |-> Unborn]
  /\ \E o \in Overlaps : world = [overlap |-> o, died |-> {}, log |-> <<>>]
  /\ sent = <<>>

Running(h) == hooks[h].at \notin {"new", "done"}
Local(h) == hooks[h]
Goto(h, s, l) == hooks' = [hooks EXCEPT ![h] = IF s = "done" THEN Ended ELSE [l EXCEPT !.at = s]]
Keeps == UNCHANGED <<store, world, sent>>
Writes(d) == store' = d /\ UNCHANGED <<world, sent>>
Sends(s) == sent' = Append(sent, s) /\ UNCHANGED <<store, world>>
IfNone(v, other) == IF v = None THEN other ELSE v

-----------------------------------------------------------------------------
(* Kiro *)

Events(k) == {i \in DOMAIN world.log : world.log[i].kind = k}
Here == Len(world.log)
PromptsTo(i) == {j \in Events("prompt") : j <= i}
PromptOf(i) == CHOOSE j \in PromptsTo(i) : \A p \in PromptsTo(i) : p <= j
InTurn == PromptsTo(Here) # {} /\ \A i \in Events("stop") : i < PromptOf(Here)

(* Calls of the turn without a result; one that is refused has none.       *)
OpenCalls ==
  {world.log[i].call : i \in {j \in Events("preTool") : j > PromptOf(Here)}}
    \ {world.log[i].call : i \in Events("postTool")}

(* One after the other, a result is that of the last event.                *)
MayStart(k, c) ==
  IF world.overlap
  THEN \A o \in Hooks : Running(o) =>
         {k, hooks[o].kind} \subseteq {"preTool", "postTool"} /\ hooks[o].call # c
  ELSE /\ \A o \in Hooks : ~Running(o)
       /\ k = "postTool" => world.log[Here].call = c

Fire(h) ==
  /\ hooks[h].at = "new"
  /\ \E k \in Kinds, c \in Hooks \cup {None} :
       /\ k \in {"preTool", "postTool", "stop"} => InTurn
       /\ CASE k = "preTool" -> c = h
            [] k = "postTool" -> c \in OpenCalls
            [] OTHER -> c = None
       /\ MayStart(k, c)
       /\ Goto(h, "ensure", [Unborn EXCEPT !.kind = k, !.call = c])
       /\ world' = [world EXCEPT !.log = Append(@, [kind |-> k, by |-> h, call |-> c])]
  /\ UNCHANGED <<store, sent>>

-----------------------------------------------------------------------------
(* agentSpawn, userPromptSubmit *)

AfterEnsure(k) ==
  CASE k = "agentSpawn" -> "done"
    [] k = "prompt" -> "open"
    [] k = "preTool" -> "increment"
    [] k = "postTool" -> "readSlot"
    [] k = "stop" -> "trace"

Ensure(h) ==
  /\ Local(h).at = "ensure"
  /\ Writes(IF Has(store, SessionKey) THEN store ELSE Put(store, SessionKey, h))
  /\ Goto(h, AfterEnsure(Local(h).kind), Local(h))

Open(h) ==
  /\ Local(h).at = "open"
  /\ Writes(Put(store, TraceKey, h))
  /\ Goto(h, "openSpan", Local(h))

OpenSpan(h) ==
  /\ Local(h).at = "openSpan"
  /\ Writes(Put(store, SpanKey, h))
  /\ Goto(h, "done", Local(h))

-----------------------------------------------------------------------------
(* preToolUse *)

Increment(h) ==
  /\ Local(h).at = "increment"
  /\ Writes(Put(store, CountKey, Count + 1))
  /\ Goto(h, "readBack", Local(h))

(* A mutated form: the slot is numbered before the counter goes up.        *)
ReadBackOld(h) ==
  /\ Local(h).at = "readBack"
  /\ Goto(h, "setSpan", [Local(h) EXCEPT !.slot = Count - 1])
  /\ Keeps

ReadBack(h) ==
  /\ Local(h).at = "readBack"
  /\ Goto(h, "setSpan", [Local(h) EXCEPT !.slot = Count])
  /\ Keeps

SetSpan(h) ==
  /\ Local(h).at = "setSpan"
  /\ Writes(Put(store, SlotSpan(Local(h).slot), h))
  /\ Goto(h, "setCall", Local(h))

SetCall(h) ==
  /\ Local(h).at = "setCall"
  /\ Writes(Put(store, SlotCall(Local(h).slot), h))
  /\ Goto(h, "done", Local(h))

-----------------------------------------------------------------------------
(* postToolUse, stop *)

ReadSlot(h) ==
  /\ Local(h).at = "readSlot"
  /\ Goto(h, "slotSpan", [Local(h) EXCEPT !.slot = Count])
  /\ Keeps

(* A slot without a span id: an orphan, with what the payload says.        *)
ReadSlotSpan(h) ==
  /\ Local(h).at = "slotSpan"
  /\ LET s == Get(store, SlotSpan(Local(h).slot)) IN
     Goto(h, IF s = None THEN "span" ELSE "slotCall",
          [Local(h) EXCEPT !.id = IfNone(s, h), !.input = Local(h).call])
  /\ Keeps

ReadSlotCall(h) ==
  /\ Local(h).at = "slotCall"
  /\ Goto(h, "span", [Local(h) EXCEPT !.input = Get(store, SlotCall(Local(h).slot))])
  /\ Keeps

(* The parent before the trace for a tool; the other order for stop, which *)
(* is a turn of its own when no turn is pending.                           *)
ReadParent(h) ==
  /\ Local(h).at = "span"
  /\ LET s == Get(store, SpanKey) IN
     IF Local(h).kind = "stop"
     THEN Goto(h, "send", [Local(h) EXCEPT !.id = IfNone(s, h)])
     ELSE Goto(h, "trace", [Local(h) EXCEPT !.span = s])
  /\ Keeps

ReadTrace(h) ==
  /\ Local(h).at = "trace"
  /\ Goto(h, IF Local(h).kind = "stop" THEN "span" ELSE "send",
          [Local(h) EXCEPT !.trace = IfNone(Get(store, TraceKey), h)])
  /\ Keeps

Send(h) ==
  /\ Local(h).at = "send"
  /\ LET l == Local(h) IN
     Sends([what |-> l.kind, by |-> h, id |-> l.id, trace |-> l.trace,
            parent |-> l.span, input |-> l.input])
  /\ Goto(h, "clear", Local(h))

(* Both keys are set to "", one after the other.                           *)
Clear(h) ==
  /\ Local(h).at = "clear"
  /\ Writes(Put(store, IF Local(h).kind = "stop" THEN TraceKey ELSE SlotSpan(Local(h).slot), None))
  /\ Goto(h, "clearRest", Local(h))

ClearRest(h) ==
  /\ Local(h).at = "clearRest"
  /\ Writes(Put(store, IF Local(h).kind = "stop" THEN SpanKey ELSE SlotCall(Local(h).slot), None))
  /\ Goto(h, "done", Local(h))

Crash(h) ==
  /\ Running(h) /\ Cardinality(world.died) < MaxCrashes
  /\ hooks' = [hooks EXCEPT ![h] = Ended]
  /\ world' = [world EXCEPT !.died = @ \cup {h}]
  /\ UNCHANGED <<store, sent>>

Step(h) ==
  \/ Fire(h) \/ Ensure(h) \/ Open(h) \/ OpenSpan(h) \/ Increment(h) \/ ReadBack(h)
  \/ SetSpan(h) \/ SetCall(h) \/ ReadSlot(h) \/ ReadSlotSpan(h) \/ ReadSlotCall(h)
  \/ ReadParent(h) \/ ReadTrace(h) \/ Send(h) \/ Clear(h) \/ ClearRest(h) \/ Crash(h)

Next == \E h \in Hooks : Step(h)

Spec == Init /\ [][Next]_vars

-----------------------------------------------------------------------------
(* Properties *)

SpansOf(h) == {i \in DOMAIN sent : sent[i].by = h}
Lived(h) == hooks[h].at = "done" /\ h \notin world.died

(* In a turn whose prompt hook lived, every hook that reports something    *)
(* sends one span in the trace of the turn, also when calls overlap.  The  *)
(* slot of a call holds when calls come one after the other: if its hooks  *)
(* lived, a result has the span id and the input of its own call, whatever *)
(* refused calls and dead hooks have left in the slots before.             *)
SlotsHold ==
  \A i \in Events("postTool") \cup Events("stop") :
    LET e == world.log[i]
        turn == world.log[PromptOf(i)].by IN
    Lived(e.by) /\ Lived(turn) =>
      \E s \in DOMAIN sent :
        /\ SpansOf(e.by) = {s} /\ sent[s].trace = turn
        /\ e.kind = "stop" => sent[s].id = turn
        /\ e.kind = "postTool" =>
             /\ sent[s].parent = turn
             /\ ~world.overlap /\ Lived(e.call) => sent[s].id = e.call /\ sent[s].input = e.call
=============================================================================
