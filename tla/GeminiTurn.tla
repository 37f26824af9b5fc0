----------------------------- MODULE GeminiTurn -----------------------------
(***************************************************************************)
(* The hooks of one Gemini session (tracing/gemini/hooks).  A turn lives   *)
(* in the dict from BeforeAgent to AfterAgent, which does not always come. *)
(* The answer of the model is streamed: every chunk is an AfterModel event *)
(* of its own, whose text is added to an accumulator in the dict, and one  *)
(* LLM span is sent when the last chunk, the next call or the end of the   *)
(* turn flushes it.  A step is one access of the dict or one span sent.    *)
(***************************************************************************)
EXTENDS SessionDict, Naturals, Sequences, FiniteSets

CONSTANTS
  Hooks,      (* hook processes; each one handles one event, and its name   *)
              (* stands for what is drawn or carried by it: a trace id and  *)
              (* root span id, a model call id, the text of a chunk         *)
  MaxCrashes, (* bound on the hooks that die                                *)
  Overlaps    (* whether hooks of AfterModel may overlap, per behaviour     *)

(* "chunk" and "last" are AfterModel without and with token counts.        *)
Main == {"beforeAgent", "afterAgent", "beforeModel", "chunk", "last", "sessionEnd"}
Kinds == Main \cup {"afterTool"}

GeminiAssumption ==
  /\ None \notin Hooks /\ MaxCrashes \in Nat /\ Overlaps \subseteq BOOLEAN

VARIABLES
  store,  (* state_<session>.json                                          *)
  hooks,  (* per hook, its event, where it is, its local variables         *)
  world,  (* overlap: chunks may overlap; crashes; heard: the chunks taken *)
          (* while a turn was open, with its trace                         *)
  sent    (* history: the spans handed to send_span                        *)

vars == <<store, hooks, world, sent>>

SessionKey == <<"session_id">>
TraceKey == <<"current_trace_id">>
SpanKey == <<"current_trace_span_id">>
CallKey == <<"current_model_call_id">>
TextKey(c) == <<"model_response", c>>

(* trace, span, call, text: local variables; next: where to go after a     *)
(* flush.                                                                  *)
Unborn == [at |-> "new", kind |-> None, trace |-> None, span |-> None,
           call |-> None, text |-> <<>>, next |-> "done"]
Ended == [Unborn EXCEPT !.at = "done"]

Init ==
  /\ store = Empty
  /\ hooks = [h \in Hooks |-> Unborn]
  /\ \E o \in Overlaps : world = [overlap |-> o, crashes |-> 0, heard |-> {}]
  /\ sent = <<>>

Running(h) == hooks[h].at \notin {"new", "done"}

Goto(h, s, l) == hooks' = [hooks EXCEPT ![h] = IF s = "done" THEN Ended ELSE [l EXCEPT !.at = s]]

Local(h) == hooks[h]
Keeps == UNCHANGED <<store, world, sent>>
Writes(d) == store' = d /\ UNCHANGED <<world, sent>>
Sends(s) == sent' = Append(sent, s) /\ UNCHANGED <<store, world>>

(* Gemini waits for a hook before it goes on; tools run in parallel, and   *)
(* a cancelled one may end after anything.                                 *)
MayStart(k) ==
  \A o \in Hooks :
    Running(o) /\ hooks[o].kind \in Main /\ k \in Main =>
      world.overlap /\ {k, hooks[o].kind} \subseteq {"chunk", "last"}

(* A mutated form: AfterAgent does not flush.                              *)
FirstTrace(k) ==
  CASE k = "beforeAgent" -> "ensure"
    [] k = "afterAgent" -> "trace"
    [] k = "beforeModel" -> "flush"
    [] k \in {"chunk", "last"} -> "chunkTrace"
    [] k = "afterTool" -> "toolTrace"
    [] k = "sessionEnd" -> "known"

First(k) ==
  CASE k = "beforeAgent" -> "ensure"
    [] k = "afterAgent" -> "flush"
    [] k = "beforeModel" -> "flush"
    [] k \in {"chunk", "last"} -> "chunkTrace"
    [] k = "afterTool" -> "toolTrace"
    [] k = "sessionEnd" -> "known"

(* Where a flush returns to, if it is not part of a closing.               *)
AfterFlush(k) ==
  CASE k = "afterAgent" -> "trace" [] k = "beforeModel" -> "newCall" [] OTHER -> "done"

Start(h) ==
  /\ hooks[h].at = "new"
  /\ \E k \in Kinds :
       /\ MayStart(k)
       /\ Goto(h, First(k), [Unborn EXCEPT !.kind = k, !.next = AfterFlush(k)])
  /\ Keeps

-----------------------------------------------------------------------------
(* _flush_pending_model_call *)

FlushCall(h) ==
  /\ Local(h).at = "flush"
  /\ LET c == Get(store, CallKey) IN
     Goto(h, IF c = None THEN Local(h).next ELSE "flushTrace", [Local(h) EXCEPT !.call = c])
  /\ Keeps

(* Without a turn the text is dropped.                                     *)
FlushTrace(h) ==
  /\ Local(h).at = "flushTrace"
  /\ LET t == Get(store, TraceKey) IN
     Goto(h, IF t = None THEN "clear" ELSE "flushText", [Local(h) EXCEPT !.trace = t])
  /\ Keeps

FlushText(h) ==
  /\ Local(h).at = "flushText"
  /\ LET c == Local(h).call IN
     Goto(h, "sendLlm", [Local(h) EXCEPT !.span = Get(store, SpanKey),
            !.text = IF Has(store, TextKey(c)) THEN store[TextKey(c)] ELSE <<>>])
  /\ Keeps

SendLlm(h) ==
  /\ Local(h).at = "sendLlm"
  /\ Sends([what |-> "llm", trace |-> Local(h).trace, parent |-> Local(h).span, text |-> Local(h).text])
  /\ Goto(h, "clear", Local(h))

(* _clear_model_state: the accumulator, then the pointer if still its own. *)
Clear(h) ==
  /\ Local(h).at = "clear"
  /\ Writes(Drop(store, {TextKey(Local(h).call)}))
  /\ Goto(h, "clearCall", Local(h))

ClearCall(h) ==
  /\ Local(h).at = "clearCall"
  /\ Writes(IF Get(store, CallKey) = Local(h).call THEN Drop(store, {CallKey}) ELSE store)
  /\ Goto(h, Local(h).next, Local(h))

-----------------------------------------------------------------------------
(* BeforeAgent, AfterAgent, SessionEnd *)

Ensure(h) ==
  /\ Local(h).at = "ensure"
  /\ Writes(IF Has(store, SessionKey) THEN store ELSE Put(store, SessionKey, h))
  /\ Goto(h, "pending", Local(h))

Known(h) ==
  /\ Local(h).at = "known"
  /\ Goto(h, IF Has(store, SessionKey) THEN "pending" ELSE "done", Local(h))
  /\ Keeps

AfterClose(k) == IF k = "beforeAgent" THEN "open" ELSE "remove"

(* A mutated form: without the fail-safe.                                  *)
PendingIgnored(h) ==
  /\ Local(h).at = "pending"
  /\ Goto(h, "flush", [Local(h) EXCEPT !.next = AfterClose(Local(h).kind)])
  /\ Keeps

(* _close_pending_turn: a pending turn is flushed, sent and forgotten.     *)
Pending(h) ==
  /\ Local(h).at = "pending"
  /\ LET open == Has(store, TraceKey) /\ Has(store, SpanKey) IN
     Goto(h, "flush", [Local(h) EXCEPT !.trace = Get(store, TraceKey), !.span = Get(store, SpanKey),
                         !.next = IF open THEN "sendRoot" ELSE AfterClose(Local(h).kind)])
  /\ Keeps

ReadTurn(h) ==
  /\ Local(h).at = "trace"
  /\ LET t == Get(store, TraceKey) s == Get(store, SpanKey) IN
     Goto(h, IF t = None \/ s = None THEN "done" ELSE "sendRoot",
          [Local(h) EXCEPT !.trace = t, !.span = s])
  /\ Keeps

SendRoot(h) ==
  /\ Local(h).at = "sendRoot"
  /\ Sends([what |-> "root", trace |-> Local(h).trace, parent |-> None, text |-> <<>>])
  /\ Goto(h, "forget", Local(h))

Forget(h) ==
  /\ Local(h).at = "forget"
  /\ Writes(Drop(store, {TraceKey}))
  /\ Goto(h, "forgetSpan", Local(h))

ForgetSpan(h) ==
  /\ Local(h).at = "forgetSpan"
  /\ Writes(Drop(store, {SpanKey}))
  /\ Goto(h, IF Local(h).kind = "afterAgent" THEN "done" ELSE AfterClose(Local(h).kind), Local(h))

Open(h) ==
  /\ Local(h).at = "open"
  /\ Writes(Put(store, TraceKey, h))
  /\ Goto(h, "openSpan", Local(h))

OpenSpan(h) ==
  /\ Local(h).at = "openSpan"
  /\ Writes(Put(store, SpanKey, h))
  /\ Goto(h, "done", Local(h))

(* The state file goes, whatever is in it.                                 *)
Remove(h) ==
  /\ Local(h).at = "remove"
  /\ Writes(Empty)
  /\ Goto(h, "done", Local(h))

-----------------------------------------------------------------------------
(* BeforeModel, AfterModel, AfterTool *)

NewCall(h) ==
  /\ Local(h).at = "newCall"
  /\ Writes(Put(store, CallKey, h))
  /\ Goto(h, "done", Local(h))

(* A chunk outside of a turn is ignored.                                   *)
ChunkTrace(h) ==
  /\ Local(h).at = "chunkTrace"
  /\ LET t == Get(store, TraceKey) IN
     /\ Goto(h, IF t = None THEN "done" ELSE "chunkCall", [Local(h) EXCEPT !.trace = t])
     /\ world' = IF t = None THEN world
                 ELSE [world EXCEPT !.heard = @ \cup {[chunk |-> h, trace |-> t]}]
  /\ UNCHANGED <<store, sent>>

(* Without a BeforeModel the chunk starts a call of its own.               *)
ChunkCall(h) ==
  /\ Local(h).at = "chunkCall"
  /\ LET c == Get(store, CallKey) IN
     Goto(h, IF c = None THEN "chunkNew" ELSE "readText", [Local(h) EXCEPT !.call = c])
  /\ Keeps

ChunkNew(h) ==
  /\ Local(h).at = "chunkNew"
  /\ Writes(Put(store, CallKey, h))
  /\ Goto(h, "readText", [Local(h) EXCEPT !.call = h])

ReadText(h) ==
  /\ Local(h).at = "readText"
  /\ LET k == TextKey(Local(h).call) IN
     Goto(h, "writeText", [Local(h) EXCEPT !.text = IF Has(store, k) THEN store[k] ELSE <<>>])
  /\ Keeps

WriteText(h) ==
  /\ Local(h).at = "writeText"
  /\ Writes(Put(store, TextKey(Local(h).call), Append(Local(h).text, h)))
  /\ Goto(h, IF Local(h).kind = "last" THEN "flush" ELSE "done", Local(h))

ToolTrace(h) ==
  /\ Local(h).at = "toolTrace"
  /\ LET t == Get(store, TraceKey) IN
     Goto(h, IF t = None THEN "done" ELSE "toolSpan", [Local(h) EXCEPT !.trace = t])
  /\ Keeps

ToolSpan(h) ==
  /\ Local(h).at = "toolSpan"
  /\ LET s == Get(store, SpanKey) IN
     Goto(h, IF s = None THEN "done" ELSE "sendTool", [Local(h) EXCEPT !.span = s])
  /\ Keeps

SendTool(h) ==
  /\ Local(h).at = "sendTool"
  /\ Sends([what |-> "tool", trace |-> Local(h).trace, parent |-> Local(h).span, text |-> <<>>])
  /\ Goto(h, "done", Local(h))

Crash(h) ==
  /\ Running(h) /\ world.crashes < MaxCrashes
  /\ hooks' = [hooks EXCEPT ![h] = Ended]
  /\ world' = [world EXCEPT !.crashes = @ + 1]
  /\ UNCHANGED <<store, sent>>

Step(h) ==
  \/ Start(h) \/ FlushCall(h) \/ FlushTrace(h) \/ FlushText(h) \/ SendLlm(h)
  \/ Clear(h) \/ ClearCall(h) \/ Ensure(h) \/ Known(h) \/ Pending(h) \/ ReadTurn(h)
  \/ SendRoot(h) \/ Forget(h) \/ ForgetSpan(h) \/ Open(h) \/ OpenSpan(h) \/ Remove(h)
  \/ NewCall(h) \/ ChunkTrace(h) \/ ChunkCall(h) \/ ChunkNew(h) \/ ReadText(h)
  \/ WriteText(h) \/ ToolTrace(h) \/ ToolSpan(h) \/ SendTool(h) \/ Crash(h)

Next == \E h \in Hooks : Step(h)

Spec == Init /\ [][Next]_vars

-----------------------------------------------------------------------------
(* Properties *)

TextOf(s) == {s.text[i] : i \in DOMAIN s.text}
Kept(c) ==
  Has(store, CallKey) /\ LET k == TextKey(store[CallKey]) IN
    Has(store, k) /\ \E i \in DOMAIN store[k] : store[k][i] = c

Quiet == \A h \in Hooks : ~Running(h)

(* The text of a chunk is reported in the turn in which it was streamed,   *)
(* whatever overlaps and dies.  While no hook dies and chunks do not       *)
(* overlap, it is in one LLM span or waits for the next flush.             *)
TextOnceInItsTurn ==
  /\ \A i \in DOMAIN sent : \A c \in TextOf(sent[i]) :
       [chunk |-> c, trace |-> sent[i].trace] \in world.heard
  /\ Quiet /\ world.crashes = 0 /\ ~world.overlap =>
       \A e \in world.heard :
         Cardinality({i \in DOMAIN sent : e.chunk \in TextOf(sent[i])})
           + (IF Kept(e.chunk) THEN 1 ELSE 0) = 1

(* Children are not left without a root: unless a hook died, every turn    *)
(* with a span is open or has its root, and a turn has one root at most.   *)
TurnsGetRoots ==
  world.crashes = 0 =>
    /\ \A i, j \in DOMAIN sent :
         sent[i].what = "root" /\ sent[j].what = "root" /\ sent[i].trace = sent[j].trace => i = j
    /\ Quiet => \A i \in DOMAIN sent :
         \/ Get(store, TraceKey) = sent[i].trace
         \/ \E j \in DOMAIN sent : sent[j].what = "root" /\ sent[j].trace = sent[i].trace
=============================================================================
