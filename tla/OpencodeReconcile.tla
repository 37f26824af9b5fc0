------------------------- MODULE OpencodeReconcile -------------------------
(***************************************************************************)
(* The opencode harness (tracing/opencode): a plugin inside opencode takes *)
(* a snapshot of the whole session when an assistant message completes     *)
(* ("reconcile") and when the session goes idle ("close"), and pipes each  *)
(* one to a detached hook process.  Snapshots are fetched asynchronously   *)
(* and their processes take the handler lock in any order, so an old       *)
(* snapshot may be handled after a newer one.                              *)
(*                                                                         *)
(* A hook holds the handler lock while it walks the items of its snapshot; *)
(* what it does about an item is a sequence of updates of the dict and of  *)
(* spans sent, and it may die between any two of them.  Nobody else writes *)
(* the dict meanwhile: what it reads it may read when it comes to the item.*)
(***************************************************************************)
EXTENDS SessionDict, Sequences, Positions

CONSTANTS
  Hooks,     (* hook processes; each one handles one snapshot              *)
  MaxTurns,  (* bound on the prompts of the session                        *)
  MaxSteps,  (* bound on the assistant messages of a turn                  *)
  Calls,     (* the messages with a tool call                              *)
  Tasks,     (* those whose call runs a subagent in a child session        *)
  MaxCrashes (* bound on the hooks that die                                *)

(* A message: step 0 is the prompt of a turn, the others its answers; sub: *)
(* the answer of the subagent of that task.                                *)
Messages == [turn : 1..MaxTurns, step : 0..MaxSteps, sub : BOOLEAN]
Prompt(t) == [turn |-> t, step |-> 0, sub |-> FALSE]
Sub(m) == [m EXCEPT !.sub = TRUE]

(* The ids that the hooks draw, by what for.                               *)
Drawn ==
  [by : Hooks, of : ({"trace", "turn"} \X (1..MaxTurns))
                      \cup ({"span_msg", "span_tool", "span_agent"} \X Messages)]

OpencodeAssumption ==
  /\ MaxTurns \in Nat \ {0} /\ MaxSteps \in Nat \ {0} /\ MaxCrashes \in Nat
  /\ None \notin 1..MaxTurns /\ None \notin Drawn /\ None \notin [trace : Drawn, span : Drawn]
  /\ Calls \subseteq Messages
  /\ Tasks \subseteq {m \in Calls : ~m.sub /\ m.step > 0}

VARIABLES
  store,  (* state_<sessionID>.json                                        *)
  hooks,  (* per hook process, where it is; steps, what it has still to do *)
          (* about an item, and todo, the items that it will come to       *)
  world,  (* the session: log, the order of its messages; done and ran,    *)
          (* the messages and tool calls that completed; idle, the length  *)
          (* of the log when it was last reported idle; crashes            *)
  sent    (* history: the spans handed to send_span                        *)

vars == <<store, hooks, world, sent>>

-----------------------------------------------------------------------------
(* The steps of a hook *)

Set(k, v) == [do |-> "set", key |-> k, val |-> v]
Delete(k) == [do |-> "delete", key |-> k]
Send(s) == [do |-> "send", span |-> s]

If(c, steps) == IF c THEN steps ELSE <<>>

(* An id, by the hook that draws it and what for.                          *)
Id(h, k) == [by |-> h, of |-> k]

(* _message_span_id, _tool_span_id, _agent_span_id: the id reserved under  *)
(* key k, and the update that reserves it.                                 *)
SpanId(h, k) == IF Has(store, k) THEN store[k] ELSE Id(h, k)
Reserve(h, k) == If(~Has(store, k), <<Set(k, Id(h, k))>>)

UserKey == <<"current_user_message_id">>
TraceKey == <<"current_trace_id">>
SpanKey == <<"current_trace_span_id">>
PendingKey == <<"pending_child_finalizers">>
Finalizers == IF Has(store, PendingKey) THEN store[PendingKey] ELSE {}

(* Where the spans of the open turn belong.                                *)
OpenTurn == [trace |-> Get(store, TraceKey), span |-> Get(store, SpanKey)]

(* Sends the root of the open turn, marks its prompt closed, forgets it.   *)
CloseTurn(out) ==
  LET u == Get(store, UserKey) IN
  If(OpenTurn.trace # None /\ OpenTurn.span # None,
     <<Send([what |-> "root", of |-> u, id |-> OpenTurn.span, trace |-> OpenTurn.trace,
             parent |-> None, out |-> out])>>
     \o If(u # None, <<Set(<<"closed_user", u>>, "1")>>)
     \o <<Delete(TraceKey), Delete(SpanKey), Delete(UserKey)>>)

(* A mutated form: a prompt joins the turn that is open.                   *)
OpenTurnIfNone(h, u) ==
  If(~Has(store, <<"closed_user", u>>) /\ OpenTurn.trace = None,
     <<Set(UserKey, u), Set(TraceKey, Id(h, <<"trace", u>>)), Set(SpanKey, Id(h, <<"turn", u>>))>>)

(* A new prompt closes the turn that is still open, as a fail-safe.  The   *)
(* snapshot shows every prompt of the session again, closed ones, too.     *)
OpenTurnIfNew(h, u) ==
  If(~Has(store, <<"closed_user", u>>) /\ Get(store, UserKey) # u,
     If(OpenTurn.trace # None, CloseTurn(None))
     \o <<Set(UserKey, u), Set(TraceKey, Id(h, <<"trace", u>>)), Set(SpanKey, Id(h, <<"turn", u>>))>>)

EmitLlm(h, m, under) ==
  If(~Has(store, <<"emitted_msg", m>>) /\ under.trace # None /\ under.span # None,
     Reserve(h, <<"span_msg", m>>)
     \o <<Send([what |-> "llm", of |-> m, id |-> SpanId(h, <<"span_msg", m>>),
                trace |-> under.trace, parent |-> under.span, out |-> m]),
          Set(<<"emitted_msg", m>>, "1")>>)

(* A call hangs under its message once that is sent, else under the turn.  *)
(* The link to it stands for tool_session, tool_trace, tool_turn_span.     *)
EmitTool(h, m, under) ==
  LET linked == Has(store, <<"emitted_msg", m>>) IN
  If(~Has(store, <<"emitted_tool", m>>) /\ under.trace # None /\ under.span # None,
     If(linked, Reserve(h, <<"span_msg", m>>))
     \o Reserve(h, <<"span_tool", m>>)
     \o <<Send([what |-> "tool", of |-> m, id |-> SpanId(h, <<"span_tool", m>>),
                trace |-> under.trace, out |-> m,
                parent |-> IF linked THEN SpanId(h, <<"span_msg", m>>) ELSE under.span]),
          Set(<<"tool_link", m>>, under),
          Set(<<"emitted_tool", m>>, "1")>>)

(* A mutated form: only a close knows of the child.                        *)
RememberNone(m) == <<>>

(* _remember_child_finalizer, _forget_child_finalizer                      *)
Remember(m) == <<Set(PendingKey, Finalizers \cup {m})>>

Forget(m) ==
  If(m \in Finalizers,
     <<IF Finalizers = {m} THEN Delete(PendingKey) ELSE Set(PendingKey, Finalizers \ {m})>>)

-----------------------------------------------------------------------------
(* The items of a snapshot.  What belongs to the open turn has no place of *)
(* its own (under).                                                        *)

Item(do, of, under) == [do |-> do, of |-> of, under |-> under]

(* The parts of one answer that a snapshot shows complete.                 *)
Parts(m, snap, under) ==
  If(m \in snap.done, <<Item("llm", m, under)>>) \o If(m \in snap.ran, <<Item("tool", m, under)>>)

ItemsOf(snap, m) ==
  IF m.step = 0 THEN <<Item("user", m.turn, None)>> ELSE Parts(m, snap, None)

(* The items of the first messages of a snapshot, in the order of the walk.*)
Walked(snap) ==
  LET items[n \in 0..Len(snap.log)] ==
        IF n = 0 THEN <<>> ELSE items[n - 1] \o ItemsOf(snap, snap.log[n])
  IN items

Children(snap) ==
  LET kids == ElementsAt(snap.log, {i \in DOMAIN snap.log : snap.log[i] \in snap.kids}) IN
  [i \in DOMAIN kids |-> Item("child", kids[i], None)]

Items(kind, snap) ==
  Walked(snap)[Len(snap.log)] \o Children(snap)
  \o If(kind = "close", <<Item("pending", None, None), Item("root", None, None)>>)

NoSnap == [log |-> <<>>, done |-> {}, ran |-> {}, kids |-> {}]

(* One child session: its agent span is sent by a close only; before, the  *)
(* child is remembered for the close.  `snap` shows its messages, or none. *)
ChildLink(m) == IF Has(store, <<"emitted_tool", m>>) THEN Get(store, <<"tool_link", m>>) ELSE None

EmitChild(h, m, snap, final) ==
  LET agent == <<"span_agent", m>>
      new == ~Has(store, <<"emitted_agent", m>>) IN
  If(ChildLink(m) # None,
     If(~final /\ new, Remember(m))
     \o Reserve(h, agent)
     \o If(final /\ new,
           Reserve(h, <<"span_tool", m>>)
           \o <<Send([what |-> "agent", of |-> m, id |-> SpanId(h, agent), trace |-> ChildLink(m).trace,
                      parent |-> SpanId(h, <<"span_tool", m>>),
                      out |-> IF Sub(m) \in snap.done THEN Sub(m) ELSE None]),
                Set(<<"emitted_agent", m>>, "1")>>)
     \o If(final, Forget(m)))

(* Its messages belong below the agent span.                               *)
ChildItems(h, m, snap) ==
  If(ChildLink(m) # None,
     Parts(Sub(m), snap, [trace |-> ChildLink(m).trace, span |-> SpanId(h, <<"span_agent", m>>)]))

(* What hook h has to do for item i, and the items that it comes to by it: *)
(* a close looks at the children that are still remembered, in any order.  *)
StepsOf(h, i) ==
  LET under == IF i.under = None THEN OpenTurn ELSE i.under IN
  CASE i.do = "user" -> OpenTurnIfNew(h, i.of)
    [] i.do = "llm" -> EmitLlm(h, i.of, under)
    [] i.do = "tool" -> EmitTool(h, i.of, under)
    [] i.do = "child" -> EmitChild(h, i.of, hooks[h].snap, hooks[h].kind = "close")
    [] i.do = "vanished" -> EmitChild(h, i.of, NoSnap, TRUE)
    [] i.do = "root" -> CloseTurn(hooks[h].final)
    [] OTHER -> <<>>

MoreItems(h, i) ==
  CASE i.do = "child" -> {ChildItems(h, i.of, hooks[h].snap)}
    [] i.do = "vanished" -> {ChildItems(h, i.of, NoSnap)}
    [] i.do = "pending" -> {<<Item("children", Finalizers, None)>>}
    [] i.do = "children" /\ i.of # {} ->
         {<<Item("vanished", m, None), Item("children", i.of \ {m}, None)>> : m \in i.of}
    [] OTHER -> {<<>>}

(* The last complete answer of the turn that is open becomes its output.   *)
FinalAfter(h, i) ==
  IF i.do = "llm" /\ i.under = None /\ i.of.turn = Get(store, UserKey)
  THEN i.of ELSE hooks[h].final
-----------------------------------------------------------------------------
(* The session *)

Unborn ==
  [at |-> "new", kind |-> None, snap |-> NoSnap, steps |-> <<>>, todo |-> <<>>, final |-> None]
Ended == [Unborn EXCEPT !.at = "done"]

Init ==
  /\ store = Empty
  /\ hooks = [h \in Hooks |-> Unborn]
  /\ world = [log |-> <<>>, done |-> {}, ran |-> {}, idle |-> 0, crashes |-> 0]
  /\ sent = <<>>

InLog(m) == \E i \in DOMAIN world.log : world.log[i] = m

Busy == \E i \in DOMAIN world.log : world.log[i].step > 0 /\ world.log[i] \notin world.done

(* The plugin reacts to an event; a process that cannot be started, or the *)
(* bound on Hooks, loses it.                                               *)
Fire(kind) ==
  \/ \E h \in Hooks : /\ hooks[h].at = "new"
                      /\ hooks' = [hooks EXCEPT ![h].at = "asked", ![h].kind = kind]
  \/ (\A h \in Hooks : hooks[h].at # "new") /\ UNCHANGED hooks

(* A prompt may be queued while the answer to the one before is written.   *)
Ask(t) ==
  /\ ~InLog(Prompt(t)) /\ (t > 1 => InLog(Prompt(t - 1)))
  /\ world' = [world EXCEPT !.log = Append(@, Prompt(t))]
  /\ UNCHANGED <<store, hooks, sent>>

(* Answers are written one after the other, those of a turn together.      *)
Answer(m) ==
  /\ m.step > 0 /\ ~m.sub /\ ~InLog(m) /\ InLog(Prompt(m.turn)) /\ ~Busy
  /\ m.step > 1 => InLog([m EXCEPT !.step = @ - 1])
  /\ \A i \in DOMAIN world.log : LET n == world.log[i] IN n.step > 0 => n.turn <= m.turn
  /\ world' = [world EXCEPT !.log = Append(@, m)]
  /\ UNCHANGED <<store, hooks, sent>>

(* A call completes or fails; late ones do so after their message.         *)
RunCall(m) ==
  /\ m \in Calls \ world.ran
  /\ IF m.sub THEN InLog([m EXCEPT !.sub = FALSE]) ELSE InLog(m)
  /\ world' = [world EXCEPT !.ran = @ \cup {m}]
  /\ UNCHANGED <<store, hooks, sent>>

Complete(m) ==
  /\ InLog(m) /\ m.step > 0 /\ m \notin world.done
  /\ world' = [world EXCEPT !.done = @ \cup {m}]
  /\ Fire("reconcile")
  /\ UNCHANGED <<store, sent>>

(* The answer of a subagent: the plugin ignores events of child sessions.  *)
CompleteSub(m) ==
  /\ m \in Tasks /\ InLog(m) /\ m \notin world.ran /\ Sub(m) \notin world.done
  /\ world' = [world EXCEPT !.done = @ \cup {Sub(m)}]
  /\ UNCHANGED <<store, hooks, sent>>

Idle ==
  /\ ~Busy /\ Len(world.log) > world.idle /\ world.log[Len(world.log)].step > 0
  /\ world' = [world EXCEPT !.idle = Len(world.log)]
  /\ Fire("close")
  /\ UNCHANGED <<store, sent>>

-----------------------------------------------------------------------------
(* The plugin and the hook processes *)

(* The snapshot is what the session has become by then; a child session    *)
(* that cannot be fetched is left out.                                     *)
Fetch(h) ==
  /\ hooks[h].at = "asked"
  /\ \E kids \in SUBSET {m \in Tasks : InLog(m)} :
       hooks' = [hooks EXCEPT ![h].at = "ready",
                   ![h].snap = [log |-> world.log, done |-> world.done,
                                ran |-> world.ran, kids |-> kids]]
  /\ UNCHANGED <<store, world, sent>>

Inside == {h \in Hooks : hooks[h].at = "inside"}

(* A mutated form: without the handler lock.                               *)
EnterUnlocked(h) ==
  /\ hooks[h].at = "ready"
  /\ hooks' = [hooks EXCEPT ![h].at = "inside",
                            ![h].todo = Items(hooks[h].kind, hooks[h].snap)]
  /\ UNCHANGED <<store, world, sent>>

(* main, with the handler lock, which is never broken.                     *)
Enter(h) ==
  /\ hooks[h].at = "ready" /\ Inside = {}
  /\ hooks' = [hooks EXCEPT ![h].at = "inside",
                            ![h].todo = Items(hooks[h].kind, hooks[h].snap)]
  /\ UNCHANGED <<store, world, sent>>

(* 30 s have passed behind another hook: the snapshot is dropped.          *)
GiveUp(h) ==
  /\ hooks[h].at = "ready" /\ Inside # {}
  /\ hooks' = [hooks EXCEPT ![h] = Ended]
  /\ UNCHANGED <<store, world, sent>>

NextStep(h) == Head(hooks[h].steps)
ComesTo(h, do) == hooks[h].at = "inside" /\ hooks[h].steps # <<>> /\ NextStep(h).do = do
Pops(h) == hooks' = [hooks EXCEPT ![h].steps = Tail(@)]

(* The hook comes to an item: what it reads decides what it will do.       *)
Walk(h) ==
  /\ hooks[h].at = "inside" /\ hooks[h].steps = <<>> /\ hooks[h].todo # <<>>
  /\ LET i == Head(hooks[h].todo) IN
     \E more \in MoreItems(h, i) :
       hooks' = [hooks EXCEPT ![h].steps = StepsOf(h, i), ![h].todo = more \o Tail(@),
                              ![h].final = FinalAfter(h, i)]
  /\ UNCHANGED <<store, world, sent>>

SetKey(h) ==
  /\ ComesTo(h, "set")
  /\ store' = Put(store, NextStep(h).key, NextStep(h).val)
  /\ Pops(h)
  /\ UNCHANGED <<world, sent>>

DeleteKey(h) ==
  /\ ComesTo(h, "delete")
  /\ store' = Drop(store, {NextStep(h).key})
  /\ Pops(h)
  /\ UNCHANGED <<world, sent>>

SendSpan(h) ==
  /\ ComesTo(h, "send")
  /\ sent' = Append(sent, NextStep(h).span)
  /\ Pops(h)
  /\ UNCHANGED <<store, world>>

Return(h) ==
  /\ hooks[h].at = "inside" /\ hooks[h].steps = <<>> /\ hooks[h].todo = <<>>
  /\ hooks' = [hooks EXCEPT ![h] = Ended]
  /\ UNCHANGED <<store, world, sent>>

Crash(h) ==
  /\ hooks[h].at = "inside" /\ world.crashes < MaxCrashes
  /\ hooks' = [hooks EXCEPT ![h] = Ended]
  /\ world' = [world EXCEPT !.crashes = @ + 1]
  /\ UNCHANGED <<store, sent>>

Session ==
  \/ \E t \in 1..MaxTurns : Ask(t)
  \/ \E m \in Messages : Answer(m) \/ RunCall(m) \/ Complete(m) \/ CompleteSub(m)
  \/ Idle

Step(h) ==
  \/ Fetch(h) \/ Enter(h) \/ GiveUp(h) \/ Walk(h)
  \/ SetKey(h) \/ DeleteKey(h) \/ SendSpan(h) \/ Return(h) \/ Crash(h)

Next == Session \/ \E h \in Hooks : Step(h)

Spec == Init /\ [][Next]_vars

-----------------------------------------------------------------------------
(* Properties *)

UserOf(trace) == trace.of[2]
TurnOf(s) == IF s.what = "root" THEN s.of ELSE s.of.turn
SentIs(what, x) == \E i \in DOMAIN sent : sent[i].what = what /\ sent[i].of = x

(* A turn, a message, a call and a subagent have one span each, however    *)
(* often and in whatever order the snapshots that show them are handled:   *)
(* it is sent once, and again only after a hook died, under the same id.   *)
OneSpanEach ==
  \A i, j \in DOMAIN sent :
    (sent[i].what = sent[j].what /\ sent[i].of = sent[j].of) =>
      /\ sent[i].id = sent[j].id
      /\ world.crashes = 0 => i = j

(* A span belongs to the trace of its own turn, unless that turn had been  *)
(* closed before the snapshot that shows it complete was handled.  A root  *)
(* always does; the others while no hook died between the updates that     *)
(* open a turn.  Spans of a subagent do not stay without their agent span: *)
(* it was sent, or the next close will send it, even if the child session  *)
(* has gone by then or a hook dies anywhere.                               *)
SpansInPlace ==
  /\ \A i \in DOMAIN sent :
       LET own == UserOf(sent[i].trace) = TurnOf(sent[i]) IN
       /\ sent[i].what = "root" => own
       /\ world.crashes = 0 => own \/ Has(store, <<"closed_user", TurnOf(sent[i])>>)
  /\ \A m \in Tasks : SentIs("llm", Sub(m)) => SentIs("agent", m) \/ m \in Finalizers

(* What the comment in _reconcile_messages says of the output of a root:   *)
(* it is an answer of its own turn.                                        *)
OutputOfOwnTurn ==
  \A i \in DOMAIN sent :
    sent[i].what = "root" /\ sent[i].out # None => sent[i].out.turn = sent[i].of
=============================================================================
