------------------------------- MODULE OmpRun -------------------------------
(***************************************************************************)
(* The omp harness (tracing/omp): a plugin forwards each lifecycle event   *)
(* once, to a detached process of its own.  A run of the agent goes from   *)
(* before_agent_start over a turn_end per answer to agent_end; the dict    *)
(* holds its trace and the last answer.  There is no lock around a         *)
(* handler: the processes of two events may run at the same time, and what *)
(* one has checked another may have cleared.                               *)
(***************************************************************************)
EXTENDS SessionDict, Naturals, Sequences, FiniteSets

CONSTANTS
  Hooks,      (* hook processes; each one handles one event, and its name   *)
              (* stands for the ids it draws and the answer it carries      *)
  MaxCrashes, (* bound on the hooks that die                                *)
  Races       (* what may overlap, per behaviour                            *)

(* "none": an event comes after the hooks of those before have returned;   *)
(* "last": agent_end comes right after the last turn_end, and overtakes it.*)
Kinds == {"start", "turnEnd", "agentEnd", "shutdown"}

OmpAssumption ==
  None \notin Hooks /\ MaxCrashes \in Nat /\ Races \subseteq {"none", "last"}

VARIABLES
  store,  (* state_<sessionId>.json                                        *)
  hooks,  (* per hook, its event, where it is, its local variables         *)
  world,  (* race; died: the hooks that died; log: the events so far, with *)
          (* the hook of each and the last answer of its run at that time  *)
  sent    (* history: the spans handed to send_span                        *)

vars == <<store, hooks, world, sent>>

TraceKey == <<"current_trace_id">>
SpanKey == <<"current_trace_span_id">>
OutKey == <<"current_final_output">>
SessionKey == <<"session_id">>

(* trace, span, out: local variables; final: the answer in the payload;    *)
(* tools: results still to be sent; next: where to go after a closing.     *)
Unborn == [at |-> "new", kind |-> None, trace |-> None, span |-> None,
           out |-> None, final |-> None, tools |-> 0, next |-> "done"]
Ended == [Unborn EXCEPT !.at = "done"]

Init ==
  /\ store = Empty
  /\ hooks = [h \in Hooks |-> Unborn]
  /\ \E r \in Races : world = [race |-> r, died |-> {}, log |-> <<>>]
  /\ sent = <<>>

Running(h) == hooks[h].at \notin {"new", "done"}
Local(h) == hooks[h]
Goto(h, s, l) == hooks' = [hooks EXCEPT ![h] = IF s = "done" THEN Ended ELSE [l EXCEPT !.at = s]]
Keeps == UNCHANGED <<store, world, sent>>
Writes(d) == store' = d /\ UNCHANGED <<world, sent>>
Sends(s) == sent' = Append(sent, s) /\ UNCHANGED <<store, world>>

-----------------------------------------------------------------------------
(* omp *)

Events(k) == {i \in DOMAIN world.log : world.log[i].kind = k}
Before(i, S) == {j \in S : j < i}
LastOf(S) == CHOOSE i \in S : \A j \in S : j <= i

(* The event that began the run of event i; there is one.                  *)
StartOf(i) == LastOf(Before(i + 1, Events("start")))
SameRun(i, j) == StartOf(i) = StartOf(j)

Here == Len(world.log)
InRun == Here > 0 /\ world.log[Here].kind \in {"start", "turnEnd"}

(* The answer of the last turn_end of the run so far.                      *)
LastAnswer ==
  LET turns == {i \in Events("turnEnd") : SameRun(i, Here)} IN
  IF ~InRun \/ turns = {} THEN None ELSE world.log[LastOf(turns)].by

(* A run whose agent_end got lost may be followed by the next one.         *)
Possible(k) == k \in {"turnEnd", "agentEnd"} => InRun

MayOverlap(k) ==
  \A o \in Hooks :
    Running(o) => world.race = "last" /\ k = "agentEnd" /\ hooks[o].kind = "turnEnd"

Fire(h) ==
  /\ hooks[h].at = "new"
  /\ \E k \in Kinds, n \in 0..1 :
       /\ Possible(k) /\ MayOverlap(k) /\ (k # "turnEnd" => n = 0)
       /\ LET final == IF k = "turnEnd" THEN h ELSE LastAnswer IN
          /\ Goto(h, "ensure", [Unborn EXCEPT !.kind = k, !.tools = n, !.final = final])
          /\ world' = [world EXCEPT !.log = Append(@, [kind |-> k, by |-> h, final |-> final])]
  /\ UNCHANGED <<store, sent>>

-----------------------------------------------------------------------------
(* The handlers *)

Ensure(h) ==
  /\ Local(h).at = "ensure"
  /\ Writes(IF Has(store, SessionKey) THEN store ELSE Put(store, SessionKey, h))
  /\ Goto(h, CASE Local(h).kind = "start" -> "pending"
               [] Local(h).kind = "turnEnd" -> "check"
               [] Local(h).kind = "agentEnd" -> "endTrace"
               [] Local(h).kind = "shutdown" -> "close",
          [Local(h) EXCEPT !.next = IF Local(h).kind = "start" THEN "open" ELSE "done"])

(* _handle_before_agent_start, _close_pending_turn                         *)
Pending(h) ==
  /\ Local(h).at = "pending"
  /\ Goto(h, IF Has(store, TraceKey) THEN "close" ELSE "open", Local(h))
  /\ Keeps

Close(h) ==
  /\ Local(h).at = "close"
  /\ Goto(h, IF Has(store, TraceKey) /\ Has(store, SpanKey) THEN "closeOut" ELSE Local(h).next, Local(h))
  /\ Keeps

CloseOut(h) ==
  /\ Local(h).at = "closeOut"
  /\ Goto(h, "rootTrace", [Local(h) EXCEPT !.out = Get(store, OutKey)])
  /\ Keeps

(* _handle_agent_end: its own payload is preferred to the dict.            *)
EndTrace(h) ==
  /\ Local(h).at = "endTrace"
  /\ Goto(h, IF Has(store, TraceKey) THEN "endSpan" ELSE "done", Local(h))
  /\ Keeps

EndSpan(h) ==
  /\ Local(h).at = "endSpan"
  /\ Goto(h, IF Has(store, SpanKey) THEN "endOut" ELSE "done", Local(h))
  /\ Keeps

(* A mutated form: the accumulated answer is preferred.                    *)
EndOutStored(h) ==
  /\ Local(h).at = "endOut"
  /\ Goto(h, "rootTrace",
          [Local(h) EXCEPT !.out = IF Get(store, OutKey) # None THEN store[OutKey] ELSE Local(h).final])
  /\ Keeps

EndOut(h) ==
  /\ Local(h).at = "endOut"
  /\ Goto(h, "rootTrace",
          [Local(h) EXCEPT !.out = IF Local(h).final # None THEN Local(h).final ELSE Get(store, OutKey)])
  /\ Keeps

(* _emit_turn_root, _clear_trace_state                                     *)
RootTrace(h) ==
  /\ Local(h).at = "rootTrace"
  /\ LET t == Get(store, TraceKey) IN
     Goto(h, IF t = None THEN Local(h).next ELSE "rootSpan", [Local(h) EXCEPT !.trace = t])
  /\ Keeps

RootSpan(h) ==
  /\ Local(h).at = "rootSpan"
  /\ LET s == Get(store, SpanKey) IN
     Goto(h, IF s = None THEN Local(h).next ELSE "sendRoot", [Local(h) EXCEPT !.span = s])
  /\ Keeps

SendRoot(h) ==
  /\ Local(h).at = "sendRoot"
  /\ Sends([what |-> "root", trace |-> Local(h).trace, by |-> h, out |-> Local(h).out])
  /\ Goto(h, "clear", Local(h))

Clear(h) ==
  /\ Local(h).at = "clear"
  /\ Writes(Drop(store, {TraceKey}))
  /\ Goto(h, "clearSpan", Local(h))

ClearSpan(h) ==
  /\ Local(h).at = "clearSpan"
  /\ Writes(Drop(store, {SpanKey}))
  /\ Goto(h, "clearOut", Local(h))

ClearOut(h) ==
  /\ Local(h).at = "clearOut"
  /\ Writes(Drop(store, {OutKey}))
  /\ Goto(h, Local(h).next, Local(h))

(* _open_trace                                                             *)
Open(h) ==
  /\ Local(h).at = "open"
  /\ Writes(Put(store, TraceKey, h))
  /\ Goto(h, "openSpan", Local(h))

OpenSpan(h) ==
  /\ Local(h).at = "openSpan"
  /\ Writes(Put(store, SpanKey, h))
  /\ Goto(h, "openOut", Local(h))

OpenOut(h) ==
  /\ Local(h).at = "openOut"
  /\ Writes(Put(store, OutKey, None))
  /\ Goto(h, IF Local(h).kind = "start" THEN "done" ELSE "spanTrace", Local(h))

(* _handle_turn_end: without a trace it opens one.                         *)
Check(h) ==
  /\ Local(h).at = "check"
  /\ Goto(h, IF Has(store, TraceKey) THEN "spanTrace" ELSE "open", Local(h))
  /\ Keeps

(* _emit_llm_span, then _emit_tool_span for every tool result: each reads  *)
(* the trace anew, and sends nothing when it has gone.                     *)
AfterLlm(l) == IF l.tools > 0 THEN "toolTrace" ELSE "done"

SpanTrace(h) ==
  /\ Local(h).at \in {"spanTrace", "toolTrace"}
  /\ LET t == Get(store, TraceKey)
         llm == Local(h).at = "spanTrace" IN
     Goto(h, CASE t # None -> IF llm THEN "llmSpan" ELSE "toolSpan"
               [] t = None -> IF llm THEN AfterLlm(Local(h)) ELSE "done",
          [Local(h) EXCEPT !.trace = t])
  /\ Keeps

SpanParent(h) ==
  /\ Local(h).at \in {"llmSpan", "toolSpan"}
  /\ LET s == Get(store, SpanKey)
         llm == Local(h).at = "llmSpan" IN
     Goto(h, CASE s # None -> IF llm THEN "sendLlm" ELSE "sendTool"
               [] s = None -> IF llm THEN AfterLlm(Local(h)) ELSE "done",
          [Local(h) EXCEPT !.span = s])
  /\ Keeps

SendLlm(h) ==
  /\ Local(h).at = "sendLlm"
  /\ Sends([what |-> "llm", trace |-> Local(h).trace, by |-> h, out |-> h])
  /\ Goto(h, "setOut", Local(h))

SetOut(h) ==
  /\ Local(h).at = "setOut"
  /\ Writes(Put(store, OutKey, h))
  /\ Goto(h, AfterLlm(Local(h)), Local(h))

SendTool(h) ==
  /\ Local(h).at = "sendTool"
  /\ Sends([what |-> "tool", trace |-> Local(h).trace, by |-> h, out |-> None])
  /\ Goto(h, "done", Local(h))

Crash(h) ==
  /\ Running(h) /\ Cardinality(world.died) < MaxCrashes
  /\ hooks' = [hooks EXCEPT ![h] = Ended]
  /\ world' = [world EXCEPT !.died = @ \cup {h}]
  /\ UNCHANGED <<store, sent>>

Step(h) ==
  \/ Fire(h) \/ Ensure(h) \/ Pending(h) \/ Close(h) \/ CloseOut(h) \/ EndTrace(h)
  \/ EndSpan(h) \/ EndOut(h) \/ RootTrace(h) \/ RootSpan(h) \/ SendRoot(h) \/ Clear(h)
  \/ ClearSpan(h) \/ ClearOut(h) \/ Open(h) \/ OpenSpan(h) \/ OpenOut(h) \/ Check(h)
  \/ SpanTrace(h) \/ SpanParent(h) \/ SendLlm(h) \/ SetOut(h) \/ SendTool(h) \/ Crash(h)

Next == \E h \in Hooks : Step(h)

Spec == Init /\ [][Next]_vars

-----------------------------------------------------------------------------
(* Properties *)

Roots(t) == {i \in DOMAIN sent : sent[i].what = "root" /\ sent[i].trace = t}

Quiet == \A h \in Hooks : ~Running(h)

(* The event that hook h handled.                                          *)
EventOf(h) == CHOOSE i \in DOMAIN world.log : world.log[i].by = h

(* A run whose agent_end has been handled has one root, with the last      *)
(* answer of the run, even if the hook of that answer was overtaken.       *)
(* Where nothing overlaps, what was sent is under a root or the trace that *)
(* is open (an overtaken turn_end may open a trace that agent_end then     *)
(* clears by half: its spans stay without a root), and a root has no       *)
(* answer of another run, unless a hook died that was to keep them apart:  *)
(* the one that was to open the run of the answer, or the one that opened  *)
(* the trace of the root.                                                  *)
RunsReported ==
  /\ world.died = {} =>
       /\ \A i \in Events("agentEnd") : hooks[world.log[i].by].at = "done" =>
            LET roots == Roots(world.log[StartOf(i)].by) IN
            Cardinality(roots) = 1 /\ \A r \in roots : sent[r].out = world.log[i].final
       /\ Quiet /\ world.race = "none" => \A i \in DOMAIN sent :
            Roots(sent[i].trace) # {} \/ Get(store, TraceKey) = sent[i].trace
  /\ world.race = "none" =>
       \A i \in DOMAIN sent : sent[i].what = "root" /\ sent[i].out # None =>
         LET run == StartOf(EventOf(sent[i].out)) IN
         \/ run = StartOf(EventOf(sent[i].trace))
         \/ {world.log[run].by, sent[i].trace} \cap world.died # {}
=============================================================================
