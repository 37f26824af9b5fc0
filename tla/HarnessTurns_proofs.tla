------------------------ MODULE HarnessTurns_proofs -------------------------
(***************************************************************************)
(* Proofs about the turns and calls of three small harnesses, for all      *)
(* values of their constants: any number of hooks, of deaths and of        *)
(* events.  Kiro keeps the ids of the turn that is open in slots, Copilot  *)
(* counts its calls and keeps the start of each one, Gemini opens turns in *)
(* the dict and adds up their text in it.                                  *)
(***************************************************************************)
EXTENDS Harnesses, Positions_proofs

-----------------------------------------------------------------------------
(* Turns of a log *)

EventsOf(k) == {i \in DOMAIN world.log : world.log[i].kind = k}

(* Event p is the prompt of the turn of event i.                           *)
TurnOf(p, i) ==
  /\ p \in EventsOf("prompt") /\ p <= i
  /\ \A q \in EventsOf("prompt") : q <= i => q <= p

LEMMA SameEvents == \A k : Ki!Events(k) = EventsOf(k) /\ Co!Events(k) = EventsOf(k)
BY DEF Ki!Events, Co!Events, EventsOf

(* Every position has one prompt of its turn.                              *)
LEMMA TurnOfEvent ==
  ASSUME IsSeq(world.log), NEW p, NEW i \in DOMAIN world.log, TurnOf(p, i)
  PROVE  /\ p \in Nat /\ p \in DOMAIN world.log /\ i \in Nat /\ p <= i /\ world.log[p].kind = "prompt"
         /\ \A q : TurnOf(q, i) => q = p
         /\ Ki!PromptOf(i) = p /\ Co!PromptOf(i) = p
<1>1. Len(world.log) \in Nat /\ DOMAIN world.log = 1 .. Len(world.log)
  BY AppendAny
<1>2. p \in Nat /\ i \in Nat /\ p \in DOMAIN world.log /\ p <= i /\ world.log[p].kind = "prompt"
  BY <1>1 DEF TurnOf, EventsOf
<1>3. \A q : TurnOf(q, i) => q \in Nat /\ q <= p /\ p <= q
  BY <1>1 DEF TurnOf, EventsOf
<1>4. \A q : TurnOf(q, i) => q = p
  BY <1>2, <1>3
<1> DEFINE I == {j \in EventsOf("prompt") : j <= i}
<1>5. Ki!PromptsTo(i) = I /\ Co!PromptsTo(i) = I
  BY SameEvents DEF Ki!PromptsTo, Co!PromptsTo
<1>6. \A j : TurnOf(j, i) <=> j \in I /\ \A q \in I : q <= j
  BY DEF TurnOf
<1> HIDE DEF I
<1>7. /\ Ki!PromptOf(i) = CHOOSE j : j \in I /\ \A q \in I : q <= j
      /\ Co!PromptOf(i) = CHOOSE j : j \in I /\ \A q \in I : q <= j
  BY <1>5 DEF Ki!PromptOf, Co!PromptOf
<1>8. (CHOOSE j : j \in I /\ \A q \in I : q <= j) = p
  BY <1>4, <1>6
<1> QED
  BY <1>2, <1>4, <1>7, <1>8

(* What is in the turn that goes on.                                       *)
LEMMA OpenTurn ==
  ASSUME IsSeq(world.log), Ki!InTurn \/ Co!InTurn
  PROVE  \E p \in EventsOf("prompt") :
           /\ p = Ki!PromptOf(Ki!Here) /\ p = Co!PromptOf(Co!Here)
           /\ p \in Nat /\ p <= Len(world.log)
           /\ \A q \in EventsOf("prompt") : q <= p
           /\ \A s \in EventsOf("stop") : s < p
<1> DEFINE n == Len(world.log)
           I == EventsOf("prompt")
<1>1. n \in Nat /\ DOMAIN world.log = 1 .. n
  BY AppendAny
<1>2. I \in SUBSET (1 .. n) /\ \A j \in I : j \in Nat /\ j <= n
  BY <1>1 DEF EventsOf
<1>3. Ki!PromptsTo(n) = I /\ Co!PromptsTo(n) = I
  BY <1>2, SameEvents DEF Ki!PromptsTo, Co!PromptsTo
<1> HIDE DEF I
<1>4. /\ Ki!PromptOf(n) = CHOOSE j \in I : \A q \in I : q <= j
      /\ Co!PromptOf(n) = CHOOSE j \in I : \A q \in I : q <= j
  BY <1>3 DEF Ki!PromptOf, Co!PromptOf
<1>5. /\ Ki!InTurn => I # {} /\ \A s \in EventsOf("stop") : s < Ki!PromptOf(n)
      /\ Co!InTurn => I # {} /\ \A s \in EventsOf("stop") : s < Co!PromptOf(n)
  BY <1>3, SameEvents DEF Ki!InTurn, Ki!Here, Co!InTurn, Co!Here
<1> DEFINE last == CHOOSE j \in I : \A q \in I : q <= j
<1>6. I # {} /\ \A s \in EventsOf("stop") : s < last
  BY <1>4, <1>5
<1>7. PICK p \in I : \A j \in I : j <= p
  BY <1>1, <1>2, <1>6, LastPosition
<1>8. last \in I /\ \A q \in I : q <= last
  BY <1>7
<1> HIDE DEF last
<1>9. last = p
  BY <1>2, <1>7, <1>8
<1>10. p = Ki!PromptOf(Ki!Here) /\ p = Co!PromptOf(Co!Here)
  BY <1>4, <1>9 DEF Ki!Here, Co!Here, last
<1>11. \A s \in EventsOf("stop") : s < p
  BY <1>6, <1>9
<1>12. p \in EventsOf("prompt") /\ \A q \in EventsOf("prompt") : q <= p
  BY <1>7 DEF I
<1>13. p \in Nat /\ p <= n
  BY <1>2, <1>7
<1> QED
  BY <1>10, <1>11, <1>12, <1>13

-----------------------------------------------------------------------------
(* Kiro *)

KiHooks == HooksOf["kiro"]
KiFields == {"at", "kind", "call", "slot", "id", "input", "trace", "span"}
KiTools == {"preTool", "postTool"}
KiReports == {"postTool", "stop"}
KiEnd == {"clear", "clearRest"}
KiUnclosed == {"ensure", "trace", "span", "send", "clear"}

(* Where a hook of a kind can be.                                          *)
KiPlaced(l) ==
  /\ DOMAIN l = KiFields
  /\ \/ l.at \in {"new", "done"}
     \/ l.at = "ensure" /\ l.kind \in Ki!Kinds
     \/ l.at \in {"open", "openSpan"} /\ l.kind = "prompt"
     \/ l.at \in {"increment", "readBack", "setSpan", "setCall"} /\ l.kind = "preTool"
     \/ l.at \in {"readSlot", "slotSpan", "slotCall"} /\ l.kind = "postTool"
     \/ l.at \in {"trace", "span", "send"} \cup KiEnd /\ l.kind \in KiReports

(* The events: each one has its hook, and what belongs to a turn comes     *)
(* before the turn is stopped.                                             *)
KiLog ==
  /\ None \notin KiHooks /\ DOMAIN hooks = KiHooks /\ (\A h \in KiHooks : KiPlaced(hooks[h]))
  /\ DOMAIN world = {"overlap", "died", "log"} /\ world.overlap \in BOOLEAN
  /\ world.died \subseteq {h \in KiHooks : hooks[h].at = "done"}
  /\ IsSeq(world.log)
  /\ \A h \in KiHooks : hooks[h].at # "new" => \E i \in DOMAIN world.log : world.log[i].by = h
  /\ \A i, j \in DOMAIN world.log : world.log[i].by = world.log[j].by => i = j
  /\ \A i \in DOMAIN world.log :
       LET e == world.log[i]
           l == hooks[e.by] IN
       /\ e.by \in KiHooks /\ l.at # "new"
       /\ e.kind = "preTool" => e.call = e.by
       /\ e.kind = "postTool" => \E j \in DOMAIN world.log : j < i /\ world.log[j].by = e.call
       /\ e.kind \notin KiTools => e.call = None
       /\ Ki!Running(e.by) => l.kind = e.kind /\ l.call = e.call
       /\ e.kind \in KiTools \cup {"stop"} =>
            \E p \in EventsOf("prompt") :
              TurnOf(p, i) /\ \A s \in EventsOf("stop") : s < i => s < p

(* An event comes while no other is handled, unless both are of calls that *)
(* overlap.                                                                *)
KiAlone ==
  \A i, j \in DOMAIN world.log :
    i < j /\ Ki!Running(world.log[i].by) =>
      world.overlap /\ {world.log[i].kind, world.log[j].kind} \subseteq KiTools

(* The dict has the ids of the last turn, if its prompt lived, until its   *)
(* stop clears them.                                                       *)
KiOpen ==
  /\ \A h \in KiHooks : hooks[h].at = "openSpan" => Ki!Get(store, Ki!TraceKey) = h
  /\ \A p \in EventsOf("prompt") :
       /\ \A q \in EventsOf("prompt") : q <= p
       /\ Ki!Lived(world.log[p].by)
       /\ \A s \in EventsOf("stop") : p < s => hooks[world.log[s].by].at \in KiUnclosed
       => /\ Ki!Get(store, Ki!TraceKey) = world.log[p].by
          /\ Ki!Get(store, Ki!SpanKey) = world.log[p].by

(* What a hook has read is of its turn.                                    *)
KiReads ==
  \A i, p \in DOMAIN world.log :
    LET l == hooks[world.log[i].by]
        turn == world.log[p].by IN
    TurnOf(p, i) /\ Ki!Lived(turn) =>
      /\ l.kind = "postTool" /\ l.at \in {"trace", "send"} => l.span = turn
      /\ l.kind = "postTool" /\ l.at = "send" => l.trace = turn
      /\ l.kind = "stop" /\ l.at \in {"span", "send"} => l.trace = turn
      /\ l.kind = "stop" /\ l.at = "send" => l.id = turn

(* The slot of the last call is that of the counter.                       *)
Slots(c) ==
  /\ Ki!Get(store, Ki!SlotSpan(Ki!Count)) = c
  /\ Ki!Get(store, Ki!SlotCall(Ki!Count)) = c

KiSlots ==
  ~world.overlap =>
    /\ \A h \in KiHooks : LET l == hooks[h] IN
         /\ l.at \in {"setSpan", "setCall", "slotSpan", "slotCall"} => l.slot = Ki!Count
         /\ l.at = "setCall" => Ki!Get(store, Ki!SlotSpan(Ki!Count)) = h
         /\ Ki!Running(h) /\ l.kind = "postTool" /\ Ki!Lived(l.call) =>
              /\ l.at \in {"ensure", "readSlot", "slotSpan", "slotCall"} => Slots(l.call)
              /\ l.at \in {"slotCall", "span", "trace", "send"} => l.id = l.call
              /\ l.at \in {"span", "trace", "send"} => l.input = l.call
    /\ \A i \in DOMAIN world.log :
         /\ \A j \in DOMAIN world.log : j <= i
         /\ world.log[i].kind = "preTool" /\ Ki!Lived(world.log[i].by)
         => Slots(world.log[i].by)

(* A hook sends one span, before it clears.                                *)
KiSent ==
  /\ IsSeq(sent) /\ \A k, m \in DOMAIN sent : sent[k].by = sent[m].by => k = m
  /\ \A k \in DOMAIN sent : sent[k].by \in KiHooks /\ hooks[sent[k].by].at \in KiEnd \cup {"done"}
  /\ \A i \in DOMAIN world.log : LET e == world.log[i] IN
       e.kind \in KiReports /\ (hooks[e.by].at \in KiEnd \/ Ki!Lived(e.by)) =>
         \E k \in DOMAIN sent : sent[k].by = e.by

KiReported ==
  \A i, p \in DOMAIN world.log, k \in DOMAIN sent :
    LET e == world.log[i]
        turn == world.log[p].by IN
    e.kind \in KiReports /\ sent[k].by = e.by /\ TurnOf(p, i) /\ Ki!Lived(turn) =>
      /\ sent[k].trace = turn
      /\ e.kind = "stop" => sent[k].id = turn
      /\ e.kind = "postTool" =>
           /\ sent[k].parent = turn
           /\ ~world.overlap /\ Ki!Lived(e.call) => sent[k].id = e.call /\ sent[k].input = e.call

KiInv == KiLog /\ KiAlone /\ KiOpen /\ KiReads /\ KiSlots /\ KiSent /\ KiReported

LEMMA KiPut ==
  ASSUME NEW d, NEW k, NEW v
  PROVE  /\ Ki!Get(Ki!Put(d, k, v), k) = v
         /\ \A x : x # k => Ki!Get(Ki!Put(d, k, v), x) = Ki!Get(d, x)
         /\ \A x : x # k => (Ki!Has(Ki!Put(d, k, v), x) <=> Ki!Has(d, x))
BY DEF Ki!Get, Ki!Put, Ki!Has

LEMMA KiKeys ==
  /\ Ki!TraceKey # Ki!SpanKey /\ Ki!TraceKey # Ki!SessionKey /\ Ki!SpanKey # Ki!SessionKey
  /\ Ki!CountKey \notin {Ki!TraceKey, Ki!SpanKey, Ki!SessionKey}
  /\ \A n : {Ki!SlotSpan(n), Ki!SlotCall(n)} \cap {Ki!TraceKey, Ki!SpanKey, Ki!SessionKey, Ki!CountKey} = {}
  /\ \A n, m : Ki!SlotSpan(n) # Ki!SlotCall(m)
<1>1. /\ Ki!TraceKey # Ki!SpanKey /\ Ki!TraceKey # Ki!SessionKey /\ Ki!SpanKey # Ki!SessionKey
      /\ Ki!CountKey # Ki!TraceKey /\ Ki!CountKey # Ki!SpanKey /\ Ki!CountKey # Ki!SessionKey
  BY DEF Ki!TraceKey, Ki!SpanKey, Ki!SessionKey, Ki!CountKey
<1>2. \A n : /\ Ki!SlotSpan(n) # Ki!TraceKey /\ Ki!SlotSpan(n) # Ki!SpanKey
             /\ Ki!SlotSpan(n) # Ki!SessionKey /\ Ki!SlotSpan(n) # Ki!CountKey
  BY DEF Ki!SlotSpan, Ki!TraceKey, Ki!SpanKey, Ki!SessionKey, Ki!CountKey
<1>3. \A n : /\ Ki!SlotCall(n) # Ki!TraceKey /\ Ki!SlotCall(n) # Ki!SpanKey
             /\ Ki!SlotCall(n) # Ki!SessionKey /\ Ki!SlotCall(n) # Ki!CountKey
  BY DEF Ki!SlotCall, Ki!TraceKey, Ki!SpanKey, Ki!SessionKey, Ki!CountKey
<1>4. \A n, m : Ki!SlotSpan(n) # Ki!SlotCall(m)
  BY DEF Ki!SlotSpan, Ki!SlotCall
<1> QED
  BY <1>1, <1>2, <1>3, <1>4

(* A hook goes on with the local variables k, or comes to its end.         *)
LEMMA KiGoto ==
  ASSUME DOMAIN hooks = KiHooks, NEW h \in KiHooks, NEW s, NEW k, Ki!Goto(h, s, k), DOMAIN k = KiFields
  PROVE  LET t == hooks'[h] IN
         /\ DOMAIN hooks' = KiHooks /\ (\A g \in KiHooks : g # h => hooks'[g] = hooks[g])
         /\ DOMAIN t = KiFields /\ t.at = s
         /\ s # "done" => /\ t.kind = k.kind /\ t.call = k.call /\ t.slot = k.slot /\ t.id = k.id
                          /\ t.input = k.input /\ t.trace = k.trace /\ t.span = k.span
<1>1. hooks' = [hooks EXCEPT ![h] = IF s = "done" THEN Ki!Ended ELSE [k EXCEPT !.at = s]]
  BY DEF Ki!Goto
<1>2. Ki!Ended = [at |-> "done", kind |-> None, call |-> None, slot |-> 0, id |-> None,
                  input |-> None, trace |-> None, span |-> None]
  BY DEF Ki!Ended, Ki!Unborn
<1>3. hooks'[h] = IF s = "done" THEN Ki!Ended ELSE [k EXCEPT !.at = s]
  BY <1>1
<1>4. DOMAIN hooks' = KiHooks /\ \A g \in KiHooks : g # h => hooks'[g] = hooks[g]
  BY <1>1
<1> QED
  BY <1>2, <1>3, <1>4 DEF KiFields

KiSame(k) == Ki!Get(store', k) = Ki!Get(store, k)

(* From where a hook goes on, what it takes along, writes and sends.       *)
KiFrom(l, t) ==
  /\ t.at = "done" => \/ l.at = "ensure" /\ l.kind = "agentSpawn"
                      \/ l.at \in {"openSpan", "setCall", "clearRest"}
  /\ t.at # "done" => t.kind = l.kind /\ t.call = l.call
  /\ t.at \notin {"new", "ensure"}
  /\ t.at \in {"open", "increment", "readSlot"} => l.at = "ensure"
  /\ t.at = "openSpan" => l.at = "open"
  /\ t.at = "readBack" => l.at = "increment"
  /\ t.at = "setSpan" => l.at = "readBack"
  /\ t.at = "setCall" => l.at = "setSpan"
  /\ t.at = "slotSpan" => l.at = "readSlot"
  /\ t.at = "slotCall" => l.at = "slotSpan"
  /\ t.at = "span" => (l.at = "trace" /\ l.kind = "stop") \/ l.at \in {"slotSpan", "slotCall"}
  /\ t.at = "trace" => (l.at = "ensure" /\ l.kind = "stop") \/ (l.at = "span" /\ l.kind = "postTool")
  /\ t.at = "send" => (l.at = "trace" /\ l.kind = "postTool") \/ (l.at = "span" /\ l.kind = "stop")
  /\ t.at = "clear" => l.at = "send"
  /\ t.at = "clearRest" => l.at = "clear"

KiVars(h, l, t) ==
  t.at # "done" =>
    /\ t.slot = IF l.at \in {"readBack", "readSlot"} THEN Ki!Count ELSE l.slot
    /\ t.id = IF l.at = "slotSpan" THEN Ki!IfNone(Ki!Get(store, Ki!SlotSpan(l.slot)), h)
              ELSE IF l.at = "span" /\ l.kind = "stop" THEN Ki!IfNone(Ki!Get(store, Ki!SpanKey), h)
              ELSE l.id
    /\ t.input = IF l.at = "slotSpan" THEN l.call
                 ELSE IF l.at = "slotCall" THEN Ki!Get(store, Ki!SlotCall(l.slot)) ELSE l.input
    /\ l.at = "slotSpan" => (t.at = "span" <=> Ki!Get(store, Ki!SlotSpan(l.slot)) = None)
    /\ t.trace = IF l.at = "trace" THEN Ki!IfNone(Ki!Get(store, Ki!TraceKey), h) ELSE l.trace
    /\ t.span = IF l.at = "span" /\ l.kind # "stop" THEN Ki!Get(store, Ki!SpanKey) ELSE l.span

KiStore(h, l) ==
  /\ \/ KiSame(Ki!TraceKey)
     \/ l.at = "open" /\ Ki!Get(store', Ki!TraceKey) = h
     \/ l.at = "clear" /\ l.kind = "stop"
  /\ l.at = "open" => Ki!Get(store', Ki!TraceKey) = h
  /\ \/ KiSame(Ki!SpanKey)
     \/ l.at = "openSpan" /\ Ki!Get(store', Ki!SpanKey) = h
     \/ l.at = "clearRest" /\ l.kind = "stop"
  /\ l.at = "openSpan" => Ki!Get(store', Ki!SpanKey) = h
  /\ l.at = "increment" \/ Ki!Count' = Ki!Count
  /\ \A n : \/ KiSame(Ki!SlotSpan(n))
            \/ l.at = "setSpan"
            \/ l.at = "clear" /\ l.kind # "stop"
  /\ l.at = "setSpan" => Ki!Get(store', Ki!SlotSpan(l.slot)) = h
  /\ \A n : \/ KiSame(Ki!SlotCall(n))
            \/ l.at = "setCall"
            \/ l.at = "clearRest" /\ l.kind # "stop"
  /\ l.at = "setCall" => Ki!Get(store', Ki!SlotCall(l.slot)) = h

KiSends(h, l) ==
  IF l.at = "send"
  THEN sent' = Append(sent, [what |-> l.kind, by |-> h, id |-> l.id, trace |-> l.trace,
                             parent |-> l.span, input |-> l.input])
  ELSE sent' = sent

(* A step of hook h that is neither its begin nor its death.               *)
KiMove(h) ==
  /\ DOMAIN hooks' = KiHooks /\ (\A g \in KiHooks : g # h => hooks'[g] = hooks[g])
  /\ world' = world /\ Ki!Running(h) /\ KiPlaced(hooks'[h])
  /\ KiFrom(hooks[h], hooks'[h]) /\ KiVars(h, hooks[h], hooks'[h])
  /\ KiStore(h, hooks[h]) /\ KiSends(h, hooks[h])

LEMMA KiMoves ==
  ASSUME KiLog, NEW h \in KiHooks, Ki!Step(h), ~Ki!Fire(h), ~Ki!Crash(h)
  PROVE  KiMove(h)
<1> DEFINE l == hooks[h]
           t == hooks'[h]
<1> USE DEF Ki!Local, Ki!Keeps, Ki!Writes, Ki!Sends
<1>l. KiPlaced(l) /\ DOMAIN l = KiFields /\ DOMAIN hooks = KiHooks
  BY DEF KiLog, KiPlaced
<1>g. ASSUME NEW s, NEW k, Ki!Goto(h, s, k), DOMAIN k = KiFields
      PROVE  /\ DOMAIN hooks' = KiHooks /\ (\A g \in KiHooks : g # h => hooks'[g] = hooks[g])
             /\ DOMAIN t = KiFields /\ t.at = s
             /\ s # "done" => /\ t.kind = k.kind /\ t.call = k.call /\ t.slot = k.slot /\ t.id = k.id
                              /\ t.input = k.input /\ t.trace = k.trace /\ t.span = k.span
  BY <1>g, <1>l, KiGoto
<1>k. /\ Ki!TraceKey # Ki!SpanKey /\ Ki!TraceKey # Ki!SessionKey /\ Ki!SpanKey # Ki!SessionKey
      /\ Ki!CountKey # Ki!TraceKey /\ Ki!CountKey # Ki!SpanKey /\ Ki!CountKey # Ki!SessionKey
      /\ \A n : /\ Ki!SlotSpan(n) # Ki!TraceKey /\ Ki!SlotSpan(n) # Ki!SpanKey
                /\ Ki!SlotSpan(n) # Ki!SessionKey /\ Ki!SlotSpan(n) # Ki!CountKey
                /\ Ki!SlotCall(n) # Ki!TraceKey /\ Ki!SlotCall(n) # Ki!SpanKey
                /\ Ki!SlotCall(n) # Ki!SessionKey /\ Ki!SlotCall(n) # Ki!CountKey
      /\ \A n, m : Ki!SlotSpan(n) # Ki!SlotCall(m)
  BY KiKeys
<1>n. store' = store => (\A k : KiSame(k)) /\ Ki!Count' = Ki!Count
  BY DEF KiSame, Ki!Count
<1>p. ASSUME NEW k, NEW v, store' = Ki!Put(store, k, v)
      PROVE  /\ Ki!Get(store', k) = v /\ (\A x : x # k => KiSame(x))
             /\ k # Ki!CountKey => Ki!Count' = Ki!Count
  <2>1. Ki!Get(store', k) = v /\ \A x : x # k => KiSame(x) /\ (Ki!Has(store', x) <=> Ki!Has(store, x))
    BY <1>p, KiPut DEF KiSame
  <2> QED
    BY <2>1 DEF Ki!Count, KiSame, Ki!Get, Ki!Has
<1> HIDE DEF t
<1>1. CASE Ki!Ensure(h)
  <2>1. store' = store \/ store' = Ki!Put(store, Ki!SessionKey, h)
    BY <1>1 DEF Ki!Ensure
  <2>2. KiStore(h, l)
    BY <2>1, <1>n, <1>p, <1>k, <1>1 DEF KiStore, Ki!Ensure
  <2>3. l.at = "ensure" /\ world' = world /\ sent' = sent /\ Ki!Goto(h, Ki!AfterEnsure(l.kind), l)
    BY <1>1 DEF Ki!Ensure
  <2>4. l.kind \in Ki!Kinds
    BY <2>3, <1>l DEF KiPlaced, KiEnd, KiReports, Ki!Kinds
  <2>5. /\ l.kind = "agentSpawn" => Ki!AfterEnsure(l.kind) = "done"
        /\ l.kind = "prompt" => Ki!AfterEnsure(l.kind) = "open"
        /\ l.kind = "preTool" => Ki!AfterEnsure(l.kind) = "increment"
        /\ l.kind = "postTool" => Ki!AfterEnsure(l.kind) = "readSlot"
        /\ l.kind = "stop" => Ki!AfterEnsure(l.kind) = "trace"
    BY DEF Ki!AfterEnsure
  <2> HIDE DEF l
  <2>6. KiFrom(l, t) /\ KiPlaced(t)
    BY <2>3, <2>4, <2>5, <1>g, <1>l DEF Ki!Kinds, KiFrom, KiPlaced, KiReports
  <2>7. KiVars(h, l, t)
    BY <2>3, <1>g, <1>l DEF KiVars
  <2> QED
    BY <2>2, <2>3, <2>6, <2>7, <1>g, <1>l DEF l, t, KiSends, Ki!Running, KiMove
<1>2. CASE Ki!Open(h)
  <2>1. /\ l.at = "open" /\ world' = world /\ sent' = sent
        /\ store' = Ki!Put(store, Ki!TraceKey, h)
        /\ Ki!Goto(h, "openSpan", l)
    BY <1>2 DEF Ki!Open
  <2> HIDE DEF l
  <2>2. KiStore(h, l)
    BY <2>1, <1>n, <1>p, <1>k DEF KiStore
  <2>3. KiPlaced(t) /\ KiFrom(l, t)
    BY <2>1, <1>g, <1>l DEF KiPlaced, KiFrom, KiEnd, KiReports
  <2>4. KiVars(h, l, t)
    BY <2>1, <1>g, <1>l DEF KiVars
  <2>5. KiSends(h, l)
    BY <2>1 DEF KiSends
  <2> QED
    BY <2>1, <2>2, <2>3, <2>4, <2>5, <1>l, <1>g DEF Ki!Running, KiMove, l, t
<1>3. CASE Ki!OpenSpan(h)
  <2>1. /\ l.at = "openSpan" /\ world' = world /\ sent' = sent
        /\ store' = Ki!Put(store, Ki!SpanKey, h)
        /\ Ki!Goto(h, "done", l)
    BY <1>3 DEF Ki!OpenSpan
  <2> HIDE DEF l
  <2>2. KiStore(h, l)
    BY <2>1, <1>n, <1>p, <1>k DEF KiStore
  <2>3. KiPlaced(t) /\ KiFrom(l, t)
    BY <2>1, <1>g, <1>l DEF KiPlaced, KiFrom, KiEnd, KiReports
  <2>4. KiVars(h, l, t)
    BY <2>1, <1>g, <1>l DEF KiVars
  <2>5. KiSends(h, l)
    BY <2>1 DEF KiSends
  <2> QED
    BY <2>1, <2>2, <2>3, <2>4, <2>5, <1>l, <1>g DEF Ki!Running, KiMove, l, t
<1>4. CASE Ki!Increment(h)
  <2>1. /\ l.at = "increment" /\ world' = world /\ sent' = sent
        /\ store' = Ki!Put(store, Ki!CountKey, Ki!Count + 1)
        /\ Ki!Goto(h, "readBack", l)
    BY <1>4 DEF Ki!Increment
  <2> HIDE DEF l
  <2>2. KiStore(h, l)
    BY <2>1, <1>n, <1>p, <1>k DEF KiStore
  <2>3. KiPlaced(t) /\ KiFrom(l, t)
    BY <2>1, <1>g, <1>l DEF KiPlaced, KiFrom, KiEnd, KiReports
  <2>4. KiVars(h, l, t)
    BY <2>1, <1>g, <1>l DEF KiVars
  <2>5. KiSends(h, l)
    BY <2>1 DEF KiSends
  <2> QED
    BY <2>1, <2>2, <2>3, <2>4, <2>5, <1>l, <1>g DEF Ki!Running, KiMove, l, t
<1>5. CASE Ki!ReadBack(h)
  <2>1. /\ l.at = "readBack" /\ world' = world /\ sent' = sent
        /\ store' = store
        /\ Ki!Goto(h, "setSpan", [l EXCEPT !.slot = Ki!Count])
    BY <1>5 DEF Ki!ReadBack
  <2> HIDE DEF l
  <2>2. KiStore(h, l)
    BY <2>1, <1>n, <1>p, <1>k DEF KiStore
  <2>g. /\ DOMAIN hooks' = KiHooks /\ (\A g \in KiHooks : g # h => hooks'[g] = hooks[g])
        /\ DOMAIN t = KiFields /\ t.at = ("setSpan")
        /\ t.kind = l.kind /\ t.call = l.call /\ t.slot = Ki!Count
        /\ t.id = l.id
        /\ t.input = l.input /\ t.trace = l.trace /\ t.span = l.span
    <3> DEFINE k == [l EXCEPT !.slot = Ki!Count]
    <3>1. /\ DOMAIN k = KiFields
          /\ k.kind = l.kind /\ k.call = l.call /\ k.slot = Ki!Count
          /\ k.id = l.id
          /\ k.input = l.input /\ k.trace = l.trace /\ k.span = l.span
      BY <1>l DEF KiFields
    <3>2. Ki!Goto(h, "setSpan", k)
      BY <2>1
    <3> HIDE DEF k
    <3> QED
      BY <3>1, <3>2, <1>g
  <2>3. KiPlaced(t) /\ KiFrom(l, t)
    BY <2>1, <2>g, <1>l DEF KiPlaced, KiFrom, KiEnd, KiReports
  <2>4. KiVars(h, l, t)
    BY <2>1, <2>g, <1>l DEF KiVars
  <2>5. KiSends(h, l)
    BY <2>1 DEF KiSends
  <2> QED
    BY <2>1, <2>2, <2>3, <2>4, <2>5, <2>g, <1>l DEF Ki!Running, KiMove, l, t
<1>6. CASE Ki!SetSpan(h)
  <2>1. /\ l.at = "setSpan" /\ world' = world /\ sent' = sent
        /\ store' = Ki!Put(store, Ki!SlotSpan(l.slot), h)
        /\ Ki!Goto(h, "setCall", l)
    BY <1>6 DEF Ki!SetSpan
  <2> HIDE DEF l
  <2>2. KiStore(h, l)
    BY <2>1, <1>n, <1>p, <1>k DEF KiStore
  <2>3. KiPlaced(t) /\ KiFrom(l, t)
    BY <2>1, <1>g, <1>l DEF KiPlaced, KiFrom, KiEnd, KiReports
  <2>4. KiVars(h, l, t)
    BY <2>1, <1>g, <1>l DEF KiVars
  <2>5. KiSends(h, l)
    BY <2>1 DEF KiSends
  <2> QED
    BY <2>1, <2>2, <2>3, <2>4, <2>5, <1>l, <1>g DEF Ki!Running, KiMove, l, t
<1>7. CASE Ki!SetCall(h)
  <2>1. /\ l.at = "setCall" /\ world' = world /\ sent' = sent
        /\ store' = Ki!Put(store, Ki!SlotCall(l.slot), h)
        /\ Ki!Goto(h, "done", l)
    BY <1>7 DEF Ki!SetCall
  <2> HIDE DEF l
  <2>2. KiStore(h, l)
    BY <2>1, <1>n, <1>p, <1>k DEF KiStore
  <2>3. KiPlaced(t) /\ KiFrom(l, t)
    BY <2>1, <1>g, <1>l DEF KiPlaced, KiFrom, KiEnd, KiReports
  <2>4. KiVars(h, l, t)
    BY <2>1, <1>g, <1>l DEF KiVars
  <2>5. KiSends(h, l)
    BY <2>1 DEF KiSends
  <2> QED
    BY <2>1, <2>2, <2>3, <2>4, <2>5, <1>l, <1>g DEF Ki!Running, KiMove, l, t
<1>8. CASE Ki!ReadSlot(h)
  <2>1. /\ l.at = "readSlot" /\ world' = world /\ sent' = sent
        /\ store' = store
        /\ Ki!Goto(h, "slotSpan", [l EXCEPT !.slot = Ki!Count])
    BY <1>8 DEF Ki!ReadSlot
  <2> HIDE DEF l
  <2>2. KiStore(h, l)
    BY <2>1, <1>n, <1>p, <1>k DEF KiStore
  <2>g. /\ DOMAIN hooks' = KiHooks /\ (\A g \in KiHooks : g # h => hooks'[g] = hooks[g])
        /\ DOMAIN t = KiFields /\ t.at = ("slotSpan")
        /\ t.kind = l.kind /\ t.call = l.call /\ t.slot = Ki!Count
        /\ t.id = l.id
        /\ t.input = l.input /\ t.trace = l.trace /\ t.span = l.span
    <3> DEFINE k == [l EXCEPT !.slot = Ki!Count]
    <3>1. /\ DOMAIN k = KiFields
          /\ k.kind = l.kind /\ k.call = l.call /\ k.slot = Ki!Count
          /\ k.id = l.id
          /\ k.input = l.input /\ k.trace = l.trace /\ k.span = l.span
      BY <1>l DEF KiFields
    <3>2. Ki!Goto(h, "slotSpan", k)
      BY <2>1
    <3> HIDE DEF k
    <3> QED
      BY <3>1, <3>2, <1>g
  <2>3. KiPlaced(t) /\ KiFrom(l, t)
    BY <2>1, <2>g, <1>l DEF KiPlaced, KiFrom, KiEnd, KiReports
  <2>4. KiVars(h, l, t)
    BY <2>1, <2>g, <1>l DEF KiVars
  <2>5. KiSends(h, l)
    BY <2>1 DEF KiSends
  <2> QED
    BY <2>1, <2>2, <2>3, <2>4, <2>5, <2>g, <1>l DEF Ki!Running, KiMove, l, t
<1>9. CASE Ki!ReadSlotSpan(h)
  <2>1. /\ l.at = "slotSpan" /\ world' = world /\ sent' = sent
        /\ store' = store
        /\ Ki!Goto(h, IF Ki!Get(store, Ki!SlotSpan(l.slot)) = None THEN "span" ELSE "slotCall", [l EXCEPT !.id = Ki!IfNone(Ki!Get(store, Ki!SlotSpan(l.slot)), h), !.input = l.call])
    BY <1>9 DEF Ki!ReadSlotSpan
  <2> HIDE DEF l
  <2>2. KiStore(h, l)
    BY <2>1, <1>n, <1>p, <1>k DEF KiStore
  <2>g. /\ DOMAIN hooks' = KiHooks /\ (\A g \in KiHooks : g # h => hooks'[g] = hooks[g])
        /\ DOMAIN t = KiFields /\ t.at = (IF Ki!Get(store, Ki!SlotSpan(l.slot)) = None THEN "span" ELSE "slotCall")
        /\ t.kind = l.kind /\ t.call = l.call /\ t.slot = l.slot
        /\ t.id = Ki!IfNone(Ki!Get(store, Ki!SlotSpan(l.slot)), h)
        /\ t.input = l.call /\ t.trace = l.trace /\ t.span = l.span
    <3> DEFINE k == [l EXCEPT !.id = Ki!IfNone(Ki!Get(store, Ki!SlotSpan(l.slot)), h), !.input = l.call]
    <3>1. /\ DOMAIN k = KiFields
          /\ k.kind = l.kind /\ k.call = l.call /\ k.slot = l.slot
          /\ k.id = Ki!IfNone(Ki!Get(store, Ki!SlotSpan(l.slot)), h)
          /\ k.input = l.call /\ k.trace = l.trace /\ k.span = l.span
      BY <1>l DEF KiFields
    <3>2. Ki!Goto(h, IF Ki!Get(store, Ki!SlotSpan(l.slot)) = None THEN "span" ELSE "slotCall", k)
      BY <2>1
    <3> HIDE DEF k
    <3> QED
      BY <3>1, <3>2, <1>g
  <2>3. KiPlaced(t) /\ KiFrom(l, t)
    BY <2>1, <2>g, <1>l DEF KiPlaced, KiFrom, KiEnd, KiReports
  <2>4. KiVars(h, l, t)
    BY <2>1, <2>g, <1>l DEF KiVars
  <2>5. KiSends(h, l)
    BY <2>1 DEF KiSends
  <2> QED
    BY <2>1, <2>2, <2>3, <2>4, <2>5, <2>g, <1>l DEF Ki!Running, KiMove, l, t
<1>10. CASE Ki!ReadSlotCall(h)
  <2>1. /\ l.at = "slotCall" /\ world' = world /\ sent' = sent
        /\ store' = store
        /\ Ki!Goto(h, "span", [l EXCEPT !.input = Ki!Get(store, Ki!SlotCall(l.slot))])
    BY <1>10 DEF Ki!ReadSlotCall
  <2> HIDE DEF l
  <2>2. KiStore(h, l)
    BY <2>1, <1>n, <1>p, <1>k DEF KiStore
  <2>g. /\ DOMAIN hooks' = KiHooks /\ (\A g \in KiHooks : g # h => hooks'[g] = hooks[g])
        /\ DOMAIN t = KiFields /\ t.at = ("span")
        /\ t.kind = l.kind /\ t.call = l.call /\ t.slot = l.slot
        /\ t.id = l.id
        /\ t.input = Ki!Get(store, Ki!SlotCall(l.slot)) /\ t.trace = l.trace /\ t.span = l.span
    <3> DEFINE k == [l EXCEPT !.input = Ki!Get(store, Ki!SlotCall(l.slot))]
    <3>1. /\ DOMAIN k = KiFields
          /\ k.kind = l.kind /\ k.call = l.call /\ k.slot = l.slot
          /\ k.id = l.id
          /\ k.input = Ki!Get(store, Ki!SlotCall(l.slot)) /\ k.trace = l.trace /\ k.span = l.span
      BY <1>l DEF KiFields
    <3>2. Ki!Goto(h, "span", k)
      BY <2>1
    <3> HIDE DEF k
    <3> QED
      BY <3>1, <3>2, <1>g
  <2>3. KiPlaced(t) /\ KiFrom(l, t)
    BY <2>1, <2>g, <1>l DEF KiPlaced, KiFrom, KiEnd, KiReports
  <2>4. KiVars(h, l, t)
    BY <2>1, <2>g, <1>l DEF KiVars
  <2>5. KiSends(h, l)
    BY <2>1 DEF KiSends
  <2> QED
    BY <2>1, <2>2, <2>3, <2>4, <2>5, <2>g, <1>l DEF Ki!Running, KiMove, l, t
<1>11. CASE Ki!ReadParent(h)
  <2>1. /\ l.at = "span" /\ world' = world /\ sent' = sent /\ store' = store
        /\ IF l.kind = "stop"
           THEN Ki!Goto(h, "send", [l EXCEPT !.id = Ki!IfNone(Ki!Get(store, Ki!SpanKey), h)])
           ELSE Ki!Goto(h, "trace", [l EXCEPT !.span = Ki!Get(store, Ki!SpanKey)])
    BY <1>11 DEF Ki!ReadParent
  <2> HIDE DEF l
  <2>2. KiStore(h, l)
    BY <2>1, <1>n DEF KiStore
  <2>g. LET stop == l.kind = "stop" IN
        /\ DOMAIN hooks' = KiHooks /\ (\A g \in KiHooks : g # h => hooks'[g] = hooks[g])
        /\ DOMAIN t = KiFields /\ t.at = (IF stop THEN "send" ELSE "trace")
        /\ t.kind = l.kind /\ t.call = l.call /\ t.slot = l.slot
        /\ t.id = (IF stop THEN Ki!IfNone(Ki!Get(store, Ki!SpanKey), h) ELSE l.id)
        /\ t.input = l.input /\ t.trace = l.trace
        /\ t.span = (IF stop THEN l.span ELSE Ki!Get(store, Ki!SpanKey))
    <3> DEFINE k == [l EXCEPT !.id = Ki!IfNone(Ki!Get(store, Ki!SpanKey), h)]
               m == [l EXCEPT !.span = Ki!Get(store, Ki!SpanKey)]
    <3>1. /\ DOMAIN k = KiFields /\ k.kind = l.kind /\ k.call = l.call /\ k.slot = l.slot /\ k.span = l.span
          /\ k.id = Ki!IfNone(Ki!Get(store, Ki!SpanKey), h) /\ k.input = l.input /\ k.trace = l.trace
      BY <1>l DEF KiFields
    <3>2. /\ DOMAIN m = KiFields /\ m.kind = l.kind /\ m.call = l.call /\ m.slot = l.slot /\ m.id = l.id
          /\ m.span = Ki!Get(store, Ki!SpanKey) /\ m.input = l.input /\ m.trace = l.trace
      BY <1>l DEF KiFields
    <3>3. IF l.kind = "stop" THEN Ki!Goto(h, "send", k) ELSE Ki!Goto(h, "trace", m)
      BY <2>1
    <3> HIDE DEF k, m
    <3>4. CASE l.kind = "stop"
      BY <3>1, <3>3, <3>4, <1>g
    <3>5. CASE l.kind # "stop"
      BY <3>2, <3>3, <3>5, <1>g
    <3> QED
      BY <3>4, <3>5
  <2>3. KiPlaced(t) /\ KiFrom(l, t)
    BY <2>1, <2>g, <1>l DEF KiPlaced, KiFrom, KiEnd, KiReports
  <2>4. KiVars(h, l, t)
    BY <2>1, <2>g, <1>l DEF KiVars
  <2>5. KiSends(h, l)
    BY <2>1 DEF KiSends
  <2> QED
    BY <2>1, <2>2, <2>3, <2>4, <2>5, <2>g, <1>l DEF Ki!Running, KiMove, l, t
<1>12. CASE Ki!ReadTrace(h)
  <2>1. /\ l.at = "trace" /\ world' = world /\ sent' = sent
        /\ store' = store
        /\ Ki!Goto(h, IF l.kind = "stop" THEN "span" ELSE "send", [l EXCEPT !.trace = Ki!IfNone(Ki!Get(store, Ki!TraceKey), h)])
    BY <1>12 DEF Ki!ReadTrace
  <2> HIDE DEF l
  <2>2. KiStore(h, l)
    BY <2>1, <1>n, <1>p, <1>k DEF KiStore
  <2>g. /\ DOMAIN hooks' = KiHooks /\ (\A g \in KiHooks : g # h => hooks'[g] = hooks[g])
        /\ DOMAIN t = KiFields /\ t.at = (IF l.kind = "stop" THEN "span" ELSE "send")
        /\ t.kind = l.kind /\ t.call = l.call /\ t.slot = l.slot
        /\ t.id = l.id
        /\ t.input = l.input /\ t.trace = Ki!IfNone(Ki!Get(store, Ki!TraceKey), h) /\ t.span = l.span
    <3> DEFINE k == [l EXCEPT !.trace = Ki!IfNone(Ki!Get(store, Ki!TraceKey), h)]
    <3>1. /\ DOMAIN k = KiFields
          /\ k.kind = l.kind /\ k.call = l.call /\ k.slot = l.slot
          /\ k.id = l.id
          /\ k.input = l.input /\ k.trace = Ki!IfNone(Ki!Get(store, Ki!TraceKey), h) /\ k.span = l.span
      BY <1>l DEF KiFields
    <3>2. Ki!Goto(h, IF l.kind = "stop" THEN "span" ELSE "send", k)
      BY <2>1
    <3> HIDE DEF k
    <3> QED
      BY <3>1, <3>2, <1>g
  <2>3. KiPlaced(t) /\ KiFrom(l, t)
    BY <2>1, <2>g, <1>l DEF KiPlaced, KiFrom, KiEnd, KiReports
  <2>4. KiVars(h, l, t)
    BY <2>1, <2>g, <1>l DEF KiVars
  <2>5. KiSends(h, l)
    BY <2>1 DEF KiSends
  <2> QED
    BY <2>1, <2>2, <2>3, <2>4, <2>5, <2>g, <1>l DEF Ki!Running, KiMove, l, t
<1>13. CASE Ki!Send(h)
  <2>1. /\ l.at = "send" /\ world' = world /\ KiSends(h, l)
        /\ store' = store
        /\ Ki!Goto(h, "clear", l)
    BY <1>13 DEF Ki!Send, KiSends
  <2> HIDE DEF l
  <2>2. KiStore(h, l)
    BY <2>1, <1>n, <1>p, <1>k DEF KiStore
  <2>3. KiPlaced(t) /\ KiFrom(l, t)
    BY <2>1, <1>g, <1>l DEF KiPlaced, KiFrom, KiEnd, KiReports
  <2>4. KiVars(h, l, t)
    BY <2>1, <1>g, <1>l DEF KiVars
  <2>5. KiSends(h, l)
    BY <2>1 DEF KiSends
  <2> QED
    BY <2>1, <2>2, <2>3, <2>4, <2>5, <1>l, <1>g DEF Ki!Running, KiMove, l, t
<1>14. CASE Ki!Clear(h)
  <2>1. /\ l.at = "clear" /\ world' = world /\ sent' = sent
        /\ store' = Ki!Put(store, IF l.kind = "stop" THEN Ki!TraceKey ELSE Ki!SlotSpan(l.slot), None)
        /\ Ki!Goto(h, "clearRest", l)
    BY <1>14 DEF Ki!Clear
  <2> HIDE DEF l
  <2>2. KiStore(h, l)
    BY <2>1, <1>n, <1>p, <1>k DEF KiStore
  <2>3. KiPlaced(t) /\ KiFrom(l, t)
    BY <2>1, <1>g, <1>l DEF KiPlaced, KiFrom, KiEnd, KiReports
  <2>4. KiVars(h, l, t)
    BY <2>1, <1>g, <1>l DEF KiVars
  <2>5. KiSends(h, l)
    BY <2>1 DEF KiSends
  <2> QED
    BY <2>1, <2>2, <2>3, <2>4, <2>5, <1>l, <1>g DEF Ki!Running, KiMove, l, t
<1>15. CASE Ki!ClearRest(h)
  <2>1. /\ l.at = "clearRest" /\ world' = world /\ sent' = sent
        /\ store' = Ki!Put(store, IF l.kind = "stop" THEN Ki!SpanKey ELSE Ki!SlotCall(l.slot), None)
        /\ Ki!Goto(h, "done", l)
    BY <1>15 DEF Ki!ClearRest
  <2> HIDE DEF l
  <2>2. KiStore(h, l)
    BY <2>1, <1>n, <1>p, <1>k DEF KiStore
  <2>3. KiPlaced(t) /\ KiFrom(l, t)
    BY <2>1, <1>g, <1>l DEF KiPlaced, KiFrom, KiEnd, KiReports
  <2>4. KiVars(h, l, t)
    BY <2>1, <1>g, <1>l DEF KiVars
  <2>5. KiSends(h, l)
    BY <2>1 DEF KiSends
  <2> QED
    BY <2>1, <2>2, <2>3, <2>4, <2>5, <1>l, <1>g DEF Ki!Running, KiMove, l, t
<1> QED
  BY <1>1, <1>2, <1>3, <1>4, <1>5, <1>6, <1>7, <1>8, <1>9, <1>10, <1>11, <1>12, <1>13, <1>14, <1>15 DEF Ki!Step

(* A hook begins with an event of kind k, about call c.                    *)
KiBegin(h, k, c) ==
  /\ hooks[h].at = "new" /\ DOMAIN hooks' = KiHooks /\ (\A g \in KiHooks : g # h => hooks'[g] = hooks[g])
  /\ DOMAIN hooks'[h] = KiFields /\ hooks'[h].at = "ensure" /\ hooks'[h].kind = k /\ hooks'[h].call = c
  /\ k \in Ki!Kinds /\ c \in KiHooks \cup {None}
  /\ k \in KiTools \cup {"stop"} => Ki!InTurn
  /\ k = "preTool" => c = h
  /\ k = "postTool" => c \in Ki!OpenCalls
  /\ k \notin KiTools => c = None
  /\ Ki!MayStart(k, c)
  /\ store' = store /\ sent' = sent
  /\ DOMAIN world' = DOMAIN world /\ world'.overlap = world.overlap /\ world'.died = world.died
  /\ world'.log = Append(world.log, [kind |-> k, by |-> h, call |-> c])

LEMMA KiBegins ==
  ASSUME KiLog, NEW h \in KiHooks, Ki!Fire(h)
  PROVE  \E k, c : KiBegin(h, k, c)
<1>1. PICK k \in Ki!Kinds, c \in KiHooks \cup {None} :
        /\ k \in {"preTool", "postTool", "stop"} => Ki!InTurn
        /\ CASE k = "preTool" -> c = h
             [] k = "postTool" -> c \in Ki!OpenCalls
             [] OTHER -> c = None
        /\ Ki!MayStart(k, c)
        /\ Ki!Goto(h, "ensure", [Ki!Unborn EXCEPT !.kind = k, !.call = c])
        /\ world' = [world EXCEPT !.log = Append(@, [kind |-> k, by |-> h, call |-> c])]
  BY DEF Ki!Fire, KiHooks
<1> DEFINE l == [Ki!Unborn EXCEPT !.kind = k, !.call = c]
<1>2. DOMAIN l = KiFields /\ l.kind = k /\ l.call = c
  BY DEF Ki!Unborn, KiFields
<1>3. Ki!Goto(h, "ensure", l) /\ DOMAIN hooks = KiHooks
  BY <1>1 DEF KiLog
<1> HIDE DEF l
<1>4. /\ DOMAIN hooks' = KiHooks /\ (\A g \in KiHooks : g # h => hooks'[g] = hooks[g])
      /\ DOMAIN hooks'[h] = KiFields /\ hooks'[h].at = "ensure" /\ hooks'[h].kind = k /\ hooks'[h].call = c
  BY <1>2, <1>3, KiGoto
<1>5. /\ DOMAIN world' = DOMAIN world /\ world'.overlap = world.overlap /\ world'.died = world.died
      /\ world'.log = Append(world.log, [kind |-> k, by |-> h, call |-> c])
  BY <1>1 DEF KiLog
<1>6. hooks[h].at = "new" /\ store' = store /\ sent' = sent
  BY DEF Ki!Fire
<1>7. /\ k = "preTool" => c = h
      /\ k = "postTool" => c \in Ki!OpenCalls
      /\ k \notin KiTools => c = None
  BY <1>1 DEF KiTools
<1>8. k \in KiTools \cup {"stop"} => Ki!InTurn
  BY <1>1 DEF KiTools
<1> QED
  BY <1>1, <1>4, <1>5, <1>6, <1>7, <1>8 DEF KiBegin

(* A hook dies.                                                            *)
KiDeath(h) ==
  /\ Ki!Running(h) /\ DOMAIN hooks' = KiHooks /\ (\A g \in KiHooks : g # h => hooks'[g] = hooks[g])
  /\ DOMAIN hooks'[h] = KiFields /\ hooks'[h].at = "done"
  /\ store' = store /\ sent' = sent
  /\ DOMAIN world' = DOMAIN world /\ world'.overlap = world.overlap /\ world'.log = world.log
  /\ world'.died = world.died \cup {h}

LEMMA KiDeaths ==
  ASSUME KiLog, NEW h \in KiHooks, Ki!Crash(h)
  PROVE  KiDeath(h)
<1>1. DOMAIN hooks = KiHooks /\ DOMAIN world = {"overlap", "died", "log"}
  BY DEF KiLog
<1>2. DOMAIN Ki!Ended = KiFields /\ Ki!Ended.at = "done"
  BY DEF Ki!Ended, Ki!Unborn, KiFields
<1>3. hooks' = [hooks EXCEPT ![h] = Ki!Ended]
  BY DEF Ki!Crash
<1>4. hooks'[h] = Ki!Ended /\ DOMAIN hooks' = KiHooks /\ (\A g \in KiHooks : g # h => hooks'[g] = hooks[g])
  BY <1>1, <1>3
<1>5. world' = [world EXCEPT !.died = @ \cup {h}]
  BY DEF Ki!Crash
<1>6. /\ DOMAIN world' = DOMAIN world /\ world'.overlap = world.overlap /\ world'.log = world.log
      /\ world'.died = world.died \cup {h}
  BY <1>1, <1>5
<1> QED
  BY <1>2, <1>4, <1>6 DEF Ki!Crash, KiDeath

(* A step is the begin, the death or a move of a hook.                     *)
LEMMA KiSteps ==
  ASSUME KiLog, NEW h \in KiHooks, Ki!Step(h)
  PROVE  KiMove(h) \/ KiDeath(h) \/ \E k, c : KiBegin(h, k, c)
BY KiMoves, KiBegins, KiDeaths

(* The log after an event.                                                 *)
LEMMA KiAppended ==
  ASSUME KiLog, NEW h \in KiHooks, NEW k, NEW c, KiBegin(h, k, c)
  PROVE  LET n == Len(world.log) IN
         /\ n \in Nat /\ DOMAIN world.log = 1 .. n /\ DOMAIN world'.log = 1 .. n + 1 /\ IsSeq(world'.log)
         /\ \A i \in 1 .. n : world'.log[i] = world.log[i] /\ world.log[i].by # h
         /\ world'.log[n + 1].kind = k /\ world'.log[n + 1].by = h /\ world'.log[n + 1].call = c
<1> DEFINE e == [kind |-> k, by |-> h, call |-> c]
<1>1. IsSeq(world.log) /\ world'.log = Append(world.log, e)
  BY DEF KiLog, KiBegin
<1>2. e.kind = k /\ e.by = h /\ e.call = c
  OBVIOUS
<1> HIDE DEF e
<1> DEFINE q == world.log
           s == Append(q, e)
<1>3. /\ IsSeq(s) /\ Len(q) \in Nat /\ DOMAIN q = 1 .. Len(q) /\ Len(s) = Len(q) + 1
      /\ DOMAIN s = DOMAIN q \cup {Len(s)} /\ Len(s) \notin DOMAIN q
      /\ (\A i \in DOMAIN q : s[i] = q[i]) /\ s[Len(s)] = e
  BY <1>1, AppendAny
<1>4. \A i \in DOMAIN q : q[i].by # h
  BY DEF KiLog, KiBegin
<1> HIDE DEF s
<1>5. DOMAIN s = 1 .. Len(q) + 1
  BY <1>3
<1>6. world'.log = s
  BY <1>1 DEF s
<1> QED
  BY <1>2, <1>3, <1>4, <1>5, <1>6

-----------------------------------------------------------------------------
(* Turns *)

LEMMA KiTurnOf ==
  ASSUME KiLog, NEW p, NEW i \in DOMAIN world.log, TurnOf(p, i)
  PROVE  /\ p \in Nat /\ p \in DOMAIN world.log /\ i \in Nat /\ p <= i /\ world.log[p].kind = "prompt"
         /\ \A q : TurnOf(q, i) => q = p
         /\ Ki!PromptOf(i) = p
BY TurnOfEvent DEF KiLog

(* A hook that is running has one event, of its kind and about its call.   *)
LEMMA KiEvent ==
  ASSUME KiLog, NEW h \in KiHooks, Ki!Running(h)
  PROVE  \E i \in DOMAIN world.log : /\ world.log[i].by = h /\ world.log[i].kind = hooks[h].kind
                                     /\ world.log[i].call = hooks[h].call
<1>1. PICK i \in DOMAIN world.log : world.log[i].by = h
  BY DEF KiLog, Ki!Running
<1> QED
  BY <1>1 DEF KiLog

(* A hook that is running is alone with what comes after its event and     *)
(* with what is running, but for calls that overlap.                       *)
LEMMA KiSolo ==
  ASSUME KiLog, KiAlone, NEW i \in DOMAIN world.log, NEW j \in DOMAIN world.log, i # j,
         Ki!Running(world.log[i].by), i < j \/ Ki!Running(world.log[j].by)
  PROVE  world.overlap /\ world.log[i].kind \in KiTools /\ world.log[j].kind \in KiTools
<1>1. i \in Nat /\ j \in Nat
  BY AppendAny DEF KiLog
<1> QED
  BY <1>1 DEF KiAlone

(* While a hook that reports is running, the dict has the ids of its turn. *)
LEMMA KiNow ==
  ASSUME KiLog, KiAlone, KiOpen, NEW i \in DOMAIN world.log, NEW p, TurnOf(p, i),
         Ki!Lived(world.log[p].by), Ki!Running(world.log[i].by), world.log[i].kind \in KiReports,
         world.log[i].kind = "stop" => hooks[world.log[i].by].at \in KiUnclosed
  PROVE  /\ Ki!Get(store, Ki!TraceKey) = world.log[p].by
         /\ Ki!Get(store, Ki!SpanKey) = world.log[p].by
<1>1. \A k : EventsOf(k) = {j \in DOMAIN world.log : world.log[j].kind = k}
  BY DEF EventsOf
<1>2. /\ p \in Nat /\ p \in DOMAIN world.log /\ i \in Nat /\ p <= i /\ world.log[p].kind = "prompt"
      /\ \A q : TurnOf(q, i) => q = p
  BY KiTurnOf
<1>3. \A j \in DOMAIN world.log : j \in Nat
  BY AppendAny DEF KiLog
<1>4. \A j \in DOMAIN world.log : i < j => world.log[j].kind \in KiTools
  BY <1>3, KiSolo
<1>5. \A q \in EventsOf("prompt") : q <= p
  BY <1>1, <1>2, <1>3, <1>4 DEF KiTools, TurnOf
<1>6. ASSUME NEW s \in EventsOf("stop"), p < s
      PROVE  hooks[world.log[s].by].at \in KiUnclosed
  <2>1. s \in DOMAIN world.log /\ s \in Nat /\ world.log[s].kind = "stop"
    BY <1>1, <1>3, <1>6
  <2>2. ~(i < s)
    BY <1>4, <2>1 DEF KiTools
  <2>3. ~(s < i)
    <3>1. PICK q \in EventsOf("prompt") : TurnOf(q, i) /\ \A z \in EventsOf("stop") : z < i => z < q
      BY DEF KiLog, KiReports, KiTools
    <3> QED
      BY <1>2, <1>6, <2>1, <3>1
  <2>4. s = i
    BY <1>2, <2>1, <2>2, <2>3
  <2> QED
    BY <2>1, <2>4
<1>7. p \in EventsOf("prompt")
  BY <1>1, <1>2
<1> QED
  BY <1>5, <1>6, <1>7 DEF KiOpen

(* What a move and a death keep.                                           *)
KiKept(h) ==
  /\ Ki!Running(h) /\ DOMAIN hooks' = KiHooks /\ (\A g \in KiHooks : g # h => hooks'[g] = hooks[g])
  /\ hooks'[h].at # "new" /\ (hooks'[h].at # "done" => hooks'[h].kind = hooks[h].kind /\ hooks'[h].call = hooks[h].call)
  /\ KiPlaced(hooks'[h])
  /\ DOMAIN world' = DOMAIN world /\ world'.log = world.log /\ world'.overlap = world.overlap
  /\ \A g \in KiHooks : g # h => (Ki!Running(g)' <=> Ki!Running(g)) /\ (Ki!Lived(g)' <=> Ki!Lived(g))
  /\ \A g \in KiHooks : Ki!Lived(g) => g # h
  /\ \A k : EventsOf(k)' = EventsOf(k)
  /\ \A p, i : TurnOf(p, i)' <=> TurnOf(p, i)

LEMMA KiKeeps ==
  ASSUME KiLog, NEW h \in KiHooks, KiMove(h) \/ KiDeath(h)
  PROVE  KiKept(h)
<1>1. /\ Ki!Running(h) /\ DOMAIN hooks' = KiHooks /\ (\A g \in KiHooks : g # h => hooks'[g] = hooks[g])
      /\ DOMAIN world' = DOMAIN world /\ world'.log = world.log /\ world'.overlap = world.overlap
      /\ (world'.died = world.died \/ world'.died = world.died \cup {h})
  BY DEF KiMove, KiDeath
<1>2. KiPlaced(hooks'[h])
  BY DEF KiMove, KiDeath, KiPlaced
<1>3. /\ hooks'[h].at # "new"
      /\ hooks'[h].at # "done" => hooks'[h].kind = hooks[h].kind /\ hooks'[h].call = hooks[h].call
  BY DEF KiMove, KiDeath, KiFrom
<1>4. \A k : EventsOf(k)' = EventsOf(k)
  BY <1>1 DEF EventsOf
<1>5. \A p, i : TurnOf(p, i)' <=> TurnOf(p, i)
  BY <1>4 DEF TurnOf
<1>6. \A g \in KiHooks : g # h => (Ki!Running(g)' <=> Ki!Running(g)) /\ (Ki!Lived(g)' <=> Ki!Lived(g))
  BY <1>1 DEF Ki!Running, Ki!Lived
<1>7. \A g \in KiHooks : Ki!Lived(g) => g # h
  BY <1>1 DEF Ki!Running, Ki!Lived
<1> QED
  BY <1>1, <1>2, <1>3, <1>4, <1>5, <1>6, <1>7 DEF KiKept

LEMMA KiLogKept ==
  ASSUME KiLog, KiAlone, NEW h \in KiHooks, KiMove(h) \/ KiDeath(h)
  PROVE  KiLog' /\ KiAlone'
<1>k. KiKept(h)
  BY KiKeeps
<1>1. KiHooks' = KiHooks
  BY DEF KiHooks
<1>2. \A g \in KiHooks : KiPlaced(hooks'[g])
  BY <1>k DEF KiLog, KiKept
<1>3. world'.died \subseteq {g \in KiHooks : hooks'[g].at = "done"}
  <2>1. h \notin world.died
    BY DEF KiLog, KiMove, KiDeath, Ki!Running
  <2>2. \A g \in world.died : g \in KiHooks /\ hooks[g].at = "done"
    BY DEF KiLog
  <2> QED
    BY <2>1, <2>2 DEF KiMove, KiDeath
<1>4. \A g \in KiHooks : hooks'[g].at # "new" => \E i \in DOMAIN world.log : world.log[i].by = g
  BY <1>k DEF KiLog, KiKept, Ki!Running
<1>5. ASSUME NEW i \in DOMAIN world.log
      PROVE  LET e == world.log[i]
                 l == hooks'[e.by] IN
             /\ e.by \in KiHooks /\ l.at # "new"
             /\ e.kind = "preTool" => e.call = e.by
             /\ e.kind = "postTool" => \E j \in DOMAIN world.log : j < i /\ world.log[j].by = e.call
             /\ e.kind \notin KiTools => e.call = None
             /\ l.at \notin {"new", "done"} => l.kind = e.kind /\ l.call = e.call
             /\ e.kind \in KiTools \cup {"stop"} =>
                  \E p \in EventsOf("prompt") :
                    TurnOf(p, i) /\ \A s \in EventsOf("stop") : s < i => s < p
  <2> DEFINE e == world.log[i]
  <2>1. /\ e.by \in KiHooks /\ hooks[e.by].at # "new"
        /\ e.kind = "preTool" => e.call = e.by
        /\ e.kind = "postTool" => \E j \in DOMAIN world.log : j < i /\ world.log[j].by = e.call
        /\ e.kind \notin KiTools => e.call = None
        /\ Ki!Running(e.by) => hooks[e.by].kind = e.kind /\ hooks[e.by].call = e.call
        /\ e.kind \in KiTools \cup {"stop"} =>
             \E p \in EventsOf("prompt") :
               TurnOf(p, i) /\ \A s \in EventsOf("stop") : s < i => s < p
    BY DEF KiLog
  <2>2. hooks'[e.by].at # "new"
    BY <1>k, <2>1 DEF KiKept
  <2>3. hooks'[e.by].at \notin {"new", "done"} => hooks'[e.by].kind = e.kind /\ hooks'[e.by].call = e.call
    BY <1>k, <2>1 DEF KiKept, Ki!Running
  <2> QED
    BY <2>1, <2>2, <2>3
<1>6. KiLog'
  <2>1. \A i \in DOMAIN world'.log :
          LET e == world'.log[i]
              l == hooks'[e.by] IN
          /\ e.by \in KiHooks /\ l.at # "new"
          /\ e.kind = "preTool" => e.call = e.by
          /\ e.kind = "postTool" => \E j \in DOMAIN world'.log : j < i /\ world'.log[j].by = e.call
          /\ e.kind \notin KiTools => e.call = None
          /\ l.at \notin {"new", "done"} => l.kind = e.kind /\ l.call = e.call
          /\ e.kind \in KiTools \cup {"stop"} =>
               \E p \in EventsOf("prompt")' :
                 TurnOf(p, i)' /\ \A s \in EventsOf("stop")' : s < i => s < p
    BY <1>k, <1>5 DEF KiKept
  <2>2. /\ None \notin KiHooks /\ DOMAIN hooks' = KiHooks
        /\ DOMAIN world' = {"overlap", "died", "log"} /\ world'.overlap \in BOOLEAN
        /\ IsSeq(world'.log)
        /\ \A i, j \in DOMAIN world'.log : world'.log[i].by = world'.log[j].by => i = j
    BY <1>k DEF KiLog, KiKept
  <2>3. \A g \in KiHooks : hooks'[g].at # "new" => \E i \in DOMAIN world'.log : world'.log[i].by = g
    BY <1>k, <1>4 DEF KiKept
  <2> QED
    BY <1>1, <1>2, <1>3, <2>1, <2>2, <2>3 DEF KiLog, KiPlaced, KiHooks, IsSeq, Ki!Running
<1>7. KiAlone'
  <2>1. \A i \in DOMAIN world.log : hooks'[world.log[i].by].at \notin {"new", "done"} => Ki!Running(world.log[i].by)
    BY <1>k DEF KiKept, KiLog, Ki!Running
  <2>2. world'.log = world.log /\ world'.overlap = world.overlap
    BY <1>k DEF KiKept
  <2> SUFFICES ASSUME NEW i \in DOMAIN world'.log, NEW j \in DOMAIN world'.log, i < j,
                      hooks'[world'.log[i].by].at \notin {"new", "done"}
               PROVE  world'.overlap /\ {world'.log[i].kind, world'.log[j].kind} \subseteq KiTools
    BY DEF KiAlone, KiTools, Ki!Running
  <2> QED
    BY <2>1, <2>2 DEF KiAlone
<1> QED
  BY <1>6, <1>7

LEMMA KiOpenKept ==
  ASSUME KiLog, KiAlone, KiOpen, NEW h \in KiHooks, KiMove(h) \/ KiDeath(h)
  PROVE  KiOpen'
<1> DEFINE l == hooks[h]
           t == hooks'[h]
<1>k. KiKept(h)
  BY KiKeeps
<1>n. PICK n \in DOMAIN world.log : world.log[n].by = h /\ world.log[n].kind = l.kind
  BY <1>k, KiEvent DEF KiKept
<1>m. \A j \in DOMAIN world.log : j # n /\ (n < j \/ Ki!Running(world.log[j].by)) =>
        l.kind \in KiTools /\ world.log[j].kind \in KiTools
  BY <1>k, <1>n, KiSolo DEF KiKept
<1>l. /\ KiPlaced(l) /\ \A j \in DOMAIN world.log : j \in Nat /\ world.log[j].by \in KiHooks
      /\ \A i, j \in DOMAIN world.log : world.log[i].by = world.log[j].by => i = j
  BY AppendAny DEF KiLog
<1>e. \A k : EventsOf(k) = {j \in DOMAIN world.log : world.log[j].kind = k}
  BY DEF EventsOf
<1>1. ASSUME NEW g \in KiHooks, hooks'[g].at = "openSpan"
      PROVE  Ki!Get(store', Ki!TraceKey) = g
  <2>1. CASE g = h
    <3>1. KiMove(h) /\ l.at = "open"
      BY <1>1, <2>1 DEF KiMove, KiDeath, KiFrom
    <3> QED
      BY <2>1, <3>1 DEF KiMove, KiStore
  <2>2. CASE g # h
    <3>1. hooks[g].at = "openSpan" /\ Ki!Running(g) /\ hooks[g].kind = "prompt" /\ Ki!Get(store, Ki!TraceKey) = g
      BY <1>1, <1>k, <2>2 DEF KiKept, KiOpen, Ki!Running, KiLog, KiPlaced, KiEnd
    <3>2. PICK j \in DOMAIN world.log : world.log[j].by = g /\ world.log[j].kind = "prompt"
      BY <3>1, KiEvent
    <3> QED
      BY <1>n, <1>m, <2>2, <3>1, <3>2 DEF KiTools
  <2> QED
    BY <2>1, <2>2
<1>2. ASSUME NEW p \in EventsOf("prompt"), \A q \in EventsOf("prompt") : q <= p,
             Ki!Lived(world.log[p].by)',
             \A s \in EventsOf("stop") : p < s => hooks'[world.log[s].by].at \in KiUnclosed
      PROVE  /\ Ki!Get(store', Ki!TraceKey) = world.log[p].by
             /\ Ki!Get(store', Ki!SpanKey) = world.log[p].by
  <2> DEFINE turn == world.log[p].by
  <2>0. p \in DOMAIN world.log /\ world.log[p].kind = "prompt" /\ turn \in KiHooks /\ p \in Nat /\ n \in Nat
    BY <1>e, <1>l, <1>n
  <2>1. CASE turn = h
    <3>1. n = p /\ l.kind = "prompt"
      BY <1>l, <1>n, <2>0, <2>1
    <3>2. KiMove(h) /\ t.at = "done"
      BY <1>2, <1>k, <2>1 DEF KiDeath, Ki!Lived, KiKept
    <3>3. l.at = "openSpan"
      BY <1>l, <3>1, <3>2 DEF KiMove, KiFrom, KiPlaced, KiEnd, KiReports
    <3>4. Ki!Get(store, Ki!TraceKey) = h
      BY <3>3 DEF KiOpen
    <3> QED
      BY <2>1, <3>2, <3>3, <3>4 DEF KiMove, KiStore, KiSame
  <2>2. CASE turn # h
    <3>1. Ki!Lived(turn)
      BY <1>2, <1>k, <2>0, <2>2 DEF KiKept, Ki!Lived
    <3>2. \A s \in EventsOf("stop") : p < s => hooks[world.log[s].by].at \in KiUnclosed
      <4> SUFFICES ASSUME NEW s \in EventsOf("stop"), p < s
                   PROVE  hooks[world.log[s].by].at \in KiUnclosed
        OBVIOUS
      <4>1. s \in DOMAIN world.log /\ world.log[s].kind = "stop" /\ world.log[s].by \in KiHooks
        BY <1>e, <1>l
      <4>2. hooks'[world.log[s].by].at \in KiUnclosed
        BY <1>2
      <4>3. CASE world.log[s].by = h
        <5>1. t.at \in KiUnclosed
          BY <4>2, <4>3
        <5>2. l.kind = "stop"
          BY <1>l, <1>n, <4>1, <4>3
        <5>3. KiMove(h)
          BY <5>1 DEF KiDeath, KiUnclosed
        <5> QED
          BY <4>3, <5>1, <5>2, <5>3, <1>l DEF KiMove, KiFrom, KiUnclosed, KiPlaced, KiEnd
      <4>4. CASE world.log[s].by # h
        BY <4>1, <4>2, <4>4, <1>k DEF KiKept
      <4> QED
        BY <4>3, <4>4
    <3>3. Ki!Get(store, Ki!TraceKey) = turn /\ Ki!Get(store, Ki!SpanKey) = turn
      BY <1>2, <3>1, <3>2 DEF KiOpen
    <3>4. n # p
      BY <1>n, <2>2
    <3>5. CASE KiDeath(h)
      BY <3>3, <3>5 DEF KiDeath
    <3>6. CASE KiMove(h)
      <4>1. l.kind # "prompt"
        <5>1. l.kind = "prompt" => n \in EventsOf("prompt")
          BY <1>e, <1>n
        <5> QED
          BY <1>2, <1>m, <2>0, <3>4, <5>1 DEF KiTools
      <4>2. ~(l.at \in KiEnd /\ l.kind = "stop")
        <5> SUFFICES ASSUME l.at \in KiEnd, l.kind = "stop"
                     PROVE  FALSE
          OBVIOUS
        <5>1. n \in EventsOf("stop")
          BY <1>e, <1>n
        <5>2. ~(n < p)
          BY <1>m, <2>0, <3>4 DEF KiTools
        <5>3. t.at \in KiUnclosed
          BY <1>2, <1>n, <2>0, <3>4, <5>1, <5>2
        <5> QED
          BY <3>6, <5>3 DEF KiMove, KiFrom, KiUnclosed, KiEnd
      <4>3. l.at \notin {"open", "openSpan"}
        BY <1>l, <4>1 DEF KiPlaced, KiEnd
      <4> QED
        BY <3>3, <3>6, <4>2, <4>3 DEF KiMove, KiStore, KiSame, KiEnd
    <3> QED
      BY <3>5, <3>6
  <2> QED
    BY <2>1, <2>2
<1>3. /\ EventsOf("prompt")' = EventsOf("prompt") /\ EventsOf("stop")' = EventsOf("stop")
      /\ world'.log = world.log /\ KiHooks' = KiHooks
  BY <1>k DEF KiKept, KiHooks
<1> QED
  <2>1. \A g \in KiHooks : hooks'[g].at = "openSpan" => Ki!Get(store', Ki!TraceKey) = g
    BY <1>1
  <2>2. ASSUME NEW p \in EventsOf("prompt")', \A q \in EventsOf("prompt")' : q <= p,
               Ki!Lived(world.log[p].by)',
               \A s \in EventsOf("stop")' : p < s => hooks'[world'.log[s].by].at \in KiUnclosed
        PROVE  /\ Ki!Get(store', Ki!TraceKey) = world'.log[p].by
               /\ Ki!Get(store', Ki!SpanKey) = world'.log[p].by
    BY <1>2, <1>3, <2>2
  <2> QED
    BY <1>3, <2>1, <2>2 DEF KiOpen, KiUnclosed, Ki!TraceKey, Ki!SpanKey, Ki!Get, Ki!Has

(* The turn of a hook that reports was alive when it began.                *)
LEMMA KiTurnLives ==
  ASSUME KiLog, KiAlone, NEW h \in KiHooks, KiKept(h),
         NEW i \in DOMAIN world.log, NEW p, TurnOf(p, i), Ki!Lived(world.log[p].by)',
         world.log[i].kind # "prompt"
  PROVE  Ki!Lived(world.log[p].by)
<1> DEFINE turn == world.log[p].by
<1>1. /\ p \in DOMAIN world.log /\ p <= i /\ world.log[p].kind = "prompt" /\ p \in Nat /\ i \in Nat
  BY KiTurnOf
<1>2. turn \in KiHooks
  BY <1>1 DEF KiLog
<1>3. turn # h
  <2> SUFFICES ASSUME turn = h
               PROVE  FALSE
    OBVIOUS
  <2>1. Ki!Running(turn) /\ p < i
    BY <1>1 DEF KiKept
  <2> QED
    BY <1>1, <2>1, KiSolo DEF KiTools
<1>4. Ki!Lived(turn)' <=> Ki!Lived(turn)
  BY <1>2, <1>3 DEF KiKept, Ki!Lived
<1> QED
  BY <1>4

LEMMA KiReadsKept ==
  ASSUME KiLog, KiAlone, KiOpen, KiReads, NEW h \in KiHooks, KiMove(h) \/ KiDeath(h)
  PROVE  KiReads'
<1>k. KiKept(h)
  BY KiKeeps
<1>1. ASSUME NEW i \in DOMAIN world.log, NEW p \in DOMAIN world.log,
             TurnOf(p, i), Ki!Lived(world.log[p].by)'
      PROVE  LET t == hooks'[world.log[i].by]
                 turn == world.log[p].by IN
             /\ t.kind = "postTool" /\ t.at \in {"trace", "send"} => t.span = turn
             /\ t.kind = "postTool" /\ t.at = "send" => t.trace = turn
             /\ t.kind = "stop" /\ t.at \in {"span", "send"} => t.trace = turn
             /\ t.kind = "stop" /\ t.at = "send" => t.id = turn
  <2> DEFINE g == world.log[i].by
             turn == world.log[p].by
             l == hooks[g]
             t == hooks'[g]
  <2> SUFFICES ASSUME t.kind \in KiReports, t.at \in {"trace", "span", "send"}
               PROVE  /\ t.kind = "postTool" /\ t.at \in {"trace", "send"} => t.span = turn
                      /\ t.kind = "postTool" /\ t.at = "send" => t.trace = turn
                      /\ t.kind = "stop" /\ t.at \in {"span", "send"} => t.trace = turn
                      /\ t.kind = "stop" /\ t.at = "send" => t.id = turn
    BY DEF KiReports
  <2>1. g \in KiHooks /\ KiPlaced(l) /\ None \notin KiHooks /\ turn \in KiHooks
    BY DEF KiLog
  <2>2. Ki!Running(g) /\ l.kind = t.kind
    BY <1>k, <2>1 DEF KiKept, Ki!Running
  <2>3. world.log[i].kind = l.kind
    BY <2>2 DEF KiLog
  <2>4. Ki!Lived(turn)
    BY <1>1, <1>k, <2>2, <2>3, KiTurnLives DEF KiReports
  <2>5. /\ l.kind = "postTool" /\ l.at \in {"trace", "send"} => l.span = turn
        /\ l.kind = "postTool" /\ l.at = "send" => l.trace = turn
        /\ l.kind = "stop" /\ l.at \in {"span", "send"} => l.trace = turn
        /\ l.kind = "stop" /\ l.at = "send" => l.id = turn
    BY <1>1, <2>4 DEF KiReads
  <2>6. CASE g # h
    BY <1>k, <2>1, <2>5, <2>6 DEF KiKept
  <2>7. CASE g = h
    <3>1. KiMove(h)
      BY <2>7 DEF KiDeath
    <3>2. KiFrom(l, t) /\ KiVars(h, l, t)
      BY <2>7, <3>1 DEF KiMove
    <3>3. l.kind = "stop" => l.at \in KiUnclosed
      <4> HIDE DEF turn, l, t
      <4> QED
        BY <2>1, <3>2 DEF KiFrom, KiUnclosed, KiPlaced, KiEnd
    <3>4. Ki!Get(store, Ki!TraceKey) = turn /\ Ki!Get(store, Ki!SpanKey) = turn
      BY <1>1, <2>2, <2>3, <2>4, <3>3, KiNow
    <3>5. Ki!IfNone(turn, h) = turn
      BY <2>1 DEF Ki!IfNone
    <3> HIDE DEF turn, l, t
    <3>6. CASE t.kind = "stop"
      <4>1. t.at = "trace" \/ (t.at = "span" /\ l.at = "trace") \/ (t.at = "send" /\ l.at = "span")
        BY <2>1, <2>2, <3>2, <3>6 DEF KiFrom, KiPlaced, KiEnd
      <4> QED
        BY <2>2, <2>5, <3>2, <3>4, <3>5, <3>6, <4>1 DEF KiVars
    <3>7. CASE t.kind = "postTool"
      <4>1. t.at = "span" \/ (t.at = "trace" /\ l.at = "span") \/ (t.at = "send" /\ l.at = "trace")
        BY <2>2, <3>2, <3>7 DEF KiFrom
      <4> QED
        BY <2>2, <2>5, <3>2, <3>4, <3>5, <3>7, <4>1 DEF KiVars
    <3> QED
      BY <3>6, <3>7 DEF KiReports
  <2> QED
    BY <2>6, <2>7
<1>2. world'.log = world.log /\ \A p, i : TurnOf(p, i)' <=> TurnOf(p, i)
  BY <1>k DEF KiKept
<1> QED
  BY <1>1, <1>2 DEF KiReads

LEMMA KiSlotsKept ==
  ASSUME KiLog, KiAlone, KiSlots, NEW h \in KiHooks, KiMove(h) \/ KiDeath(h)
  PROVE  KiSlots'
<1> DEFINE l == hooks[h]
           t == hooks'[h]
           Alive(c) == hooks'[c].at = "done" /\ c \notin world'.died
           Filled(c) == /\ Ki!Get(store', Ki!SlotSpan(Ki!Count')) = c
                        /\ Ki!Get(store', Ki!SlotCall(Ki!Count')) = c
<1>k. KiKept(h)
  BY KiKeeps
<1>0. SUFFICES ASSUME ~world.overlap
               PROVE  KiSlots'
  BY <1>k DEF KiSlots, KiKept
<1>n. PICK n \in DOMAIN world.log : world.log[n].by = h /\ world.log[n].kind = l.kind /\ world.log[n].call = l.call
  BY <1>k, KiEvent DEF KiKept
<1>l. /\ \A g \in KiHooks : KiPlaced(hooks[g])
      /\ None \notin KiHooks /\ \A j \in DOMAIN world.log : j \in Nat /\ world.log[j].by \in KiHooks
      /\ \A i, j \in DOMAIN world.log : world.log[i].by = world.log[j].by => i = j
  BY AppendAny DEF KiLog
<1>m. \A j \in DOMAIN world.log : j <= n
  BY <1>0, <1>k, <1>l, <1>n, KiSolo DEF KiKept
<1>g. \A g \in KiHooks : g # h => ~Ki!Running(g) /\ hooks'[g] = hooks[g]
  <2>1. ASSUME NEW g \in KiHooks, g # h, Ki!Running(g)
        PROVE  FALSE
    <3>1. PICK j \in DOMAIN world.log : world.log[j].by = g
      BY <2>1, KiEvent
    <3> QED
      BY <1>0, <1>k, <1>n, <2>1, <3>1, KiSolo DEF KiKept
  <2> QED
    BY <1>k, <2>1 DEF KiKept
<1>s. \A k : KiSame(k) <=> Ki!Get(store', k) = Ki!Get(store, k)
  BY DEF KiSame
<1>f. \A c : Filled(c) <=> Slots(c)'
  BY DEF Slots, Ki!Count, Ki!Has, Ki!CountKey, Ki!Get, Ki!SlotSpan, Ki!SlotCall
<1>1. ASSUME NEW g \in KiHooks
      PROVE  LET u == hooks'[g] IN
             /\ u.at \in {"setSpan", "setCall", "slotSpan", "slotCall"} => u.slot = Ki!Count'
             /\ u.at = "setCall" => Ki!Get(store', Ki!SlotSpan(Ki!Count')) = g
             /\ u.at \notin {"new", "done"} /\ u.kind = "postTool" /\ Alive(u.call) =>
                  /\ u.at \in {"ensure", "readSlot", "slotSpan", "slotCall"} => Filled(u.call)
                  /\ u.at \in {"slotCall", "span", "trace", "send"} => u.id = u.call
                  /\ u.at \in {"span", "trace", "send"} => u.input = u.call
  <2>1. CASE g # h
    <3>1. hooks'[g].at \in {"new", "done"}
      BY <1>g, <2>1 DEF Ki!Running
    <3> QED
      BY <3>1
  <2>2. CASE g = h
    <3>1. CASE t.at = "done"
      BY <2>2, <3>1
    <3>2. CASE t.at # "done"
      <4>1. KiMove(h)
        BY <3>2 DEF KiDeath
      <4>2. KiFrom(l, t) /\ KiVars(h, l, t) /\ KiStore(h, l)
        BY <4>1 DEF KiMove
      <4>3. /\ l.at \in {"setSpan", "setCall", "slotSpan", "slotCall"} => l.slot = Ki!Count
            /\ l.at = "setCall" => Ki!Get(store, Ki!SlotSpan(Ki!Count)) = h
        BY <1>0 DEF KiSlots
      <4> HIDE DEF l, t
      <4>4. t.at \in {"setSpan", "setCall", "slotSpan", "slotCall"} => t.slot = Ki!Count'
        BY <3>2, <4>2, <4>3 DEF KiFrom, KiVars, KiStore
      <4>5. t.at = "setCall" => Ki!Get(store', Ki!SlotSpan(Ki!Count')) = h
        BY <4>2, <4>3 DEF KiFrom, KiStore
      <4>6. ASSUME t.kind = "postTool", Alive(t.call)
            PROVE  /\ t.at \in {"ensure", "readSlot", "slotSpan", "slotCall"} => Filled(t.call)
                   /\ t.at \in {"slotCall", "span", "trace", "send"} => t.id = t.call
                   /\ t.at \in {"span", "trace", "send"} => t.input = t.call
        <5>1. l.kind = "postTool" /\ l.call = t.call
          BY <3>2, <4>2, <4>6 DEF KiFrom
        <5>2. PICK j \in DOMAIN world.log : j < n /\ world.log[j].by = l.call
          BY <1>n, <5>1 DEF KiLog
        <5>3. l.call \in KiHooks /\ l.call # h
          BY <1>l, <1>n, <5>2
        <5>4. Ki!Lived(l.call)
          BY <1>k, <4>1, <4>6, <5>1, <5>3 DEF KiMove, Ki!Lived
        <5>6. /\ l.at \in {"ensure", "readSlot", "slotSpan", "slotCall"} => Slots(l.call)
              /\ l.at \in {"slotCall", "span", "trace", "send"} => l.id = l.call
              /\ l.at \in {"span", "trace", "send"} => l.input = l.call
          BY <1>0, <1>k, <5>1, <5>4 DEF KiSlots, KiKept, l
        <5>7. l.at \in {"ensure", "readSlot", "slotSpan", "slotCall"} => Filled(l.call)
          BY <1>s, <4>2, <5>6 DEF Slots, KiStore
        <5>8. t.at \in {"ensure", "readSlot", "slotSpan", "slotCall"} => l.at \in {"ensure", "readSlot", "slotSpan"}
          BY <4>2 DEF KiFrom
        <5>9. l.at = "slotSpan" => t.id = l.call /\ t.input = l.call /\ t.at # "span"
          BY <1>l, <3>2, <4>2, <4>3, <5>3, <5>6 DEF Slots, KiVars, Ki!IfNone
        <5>10. l.at = "slotCall" => t.id = l.call /\ t.input = l.call
          BY <3>2, <4>2, <4>3, <5>6 DEF Slots, KiVars
        <5>11. l.at \in {"span", "trace", "send"} => t.id = l.id /\ t.input = l.input
          BY <3>2, <4>2, <5>1 DEF KiVars
        <5>12. /\ t.at = "slotCall" => l.at = "slotSpan"
               /\ t.at \in {"span", "trace", "send"} => l.at \in {"slotSpan", "slotCall", "span", "trace"}
          BY <4>2, <5>1 DEF KiFrom
        <5> HIDE DEF Filled
        <5> QED
          BY <5>1, <5>6, <5>7, <5>8, <5>9, <5>10, <5>11, <5>12
      <4> QED
        BY <2>2, <4>4, <4>5, <4>6 DEF t
    <3> QED
      BY <3>1, <3>2
  <2> QED
    BY <2>1, <2>2
<1>2. ASSUME NEW i \in DOMAIN world.log, \A j \in DOMAIN world.log : j <= i,
             world.log[i].kind = "preTool", Ki!Lived(world.log[i].by)'
      PROVE  Filled(world.log[i].by)
  <2>1. i = n
    BY <1>2, <1>l, <1>m
  <2>2. l.kind = "preTool" /\ KiMove(h) /\ t.at = "done"
    BY <1>2, <1>n, <1>k, <2>1 DEF KiDeath, Ki!Lived, KiKept
  <2>3. KiFrom(l, t) /\ KiStore(h, l) /\ KiPlaced(l)
    BY <1>l, <2>2 DEF KiMove
  <2>4. l.slot = Ki!Count /\ Ki!Get(store, Ki!SlotSpan(Ki!Count)) = h /\ l.at = "setCall"
    <3>1. l.at = "setCall"
      BY <2>2, <2>3 DEF KiFrom, KiPlaced, KiEnd, KiReports
    <3> QED
      BY <1>0, <3>1 DEF KiSlots
  <2> QED
    BY <1>n, <1>s, <2>1, <2>3, <2>4 DEF KiStore
<1>3. /\ world'.log = world.log /\ KiHooks' = KiHooks
  BY <1>k DEF KiKept, KiHooks
<1> QED
  <2>1. \A c : Ki!Lived(c)' <=> Alive(c)
    BY DEF Ki!Lived
  <2> HIDE DEF Filled, Alive
  <2> QED
    BY <1>1, <1>2, <1>3, <1>f, <2>1 DEF KiSlots, Ki!Running

(* The spans after a step: those before, and one of a hook that was about  *)
(* to send it.                                                             *)
KiNew(h) ==
  LET n == Len(sent) + 1
      l == hooks[h] IN
  /\ l.at = "send" /\ DOMAIN sent' = DOMAIN sent \cup {n} /\ n \notin DOMAIN sent
  /\ \A k \in DOMAIN sent : sent'[k] = sent[k]
  /\ sent'[n].by = h /\ sent'[n].id = l.id /\ sent'[n].trace = l.trace
  /\ sent'[n].parent = l.span /\ sent'[n].input = l.input

LEMMA KiSpan ==
  ASSUME IsSeq(sent), NEW h \in KiHooks, KiMove(h) \/ KiDeath(h)
  PROVE  /\ IsSeq(sent') /\ ((hooks[h].at = "send" /\ KiNew(h)) \/ sent' = sent)
         /\ (KiMove(h) /\ hooks[h].at = "send" => KiNew(h))
<1>1. CASE KiDeath(h) \/ (KiMove(h) /\ hooks[h].at # "send")
  <2>1. sent' = sent
    BY <1>1 DEF KiDeath, KiMove, KiSends
  <2> QED
    BY <1>1, <2>1 DEF IsSeq, KiDeath, KiMove, KiSends
<1>2. CASE KiMove(h) /\ hooks[h].at = "send"
  <2> DEFINE l == hooks[h]
             e == [what |-> l.kind, by |-> h, id |-> l.id, trace |-> l.trace,
                   parent |-> l.span, input |-> l.input]
             s == Append(sent, e)
  <2>1. sent' = s
    BY <1>2 DEF KiMove, KiSends
  <2>2. e.by = h /\ e.id = l.id /\ e.trace = l.trace /\ e.parent = l.span /\ e.input = l.input
    OBVIOUS
  <2> HIDE DEF e
  <2>3. /\ IsSeq(s) /\ Len(s) = Len(sent) + 1 /\ DOMAIN s = DOMAIN sent \cup {Len(s)} /\ Len(s) \notin DOMAIN sent
        /\ (\A k \in DOMAIN sent : s[k] = sent[k]) /\ s[Len(s)] = e
    BY AppendAny
  <2> HIDE DEF s
  <2>4. IsSeq(sent')
    BY <2>1, <2>3 DEF IsSeq
  <2> QED
    BY <1>2, <2>1, <2>2, <2>3, <2>4 DEF KiNew
<1> QED
  BY <1>1, <1>2

LEMMA KiSentKept ==
  ASSUME KiLog, KiSent, NEW h \in KiHooks, KiMove(h) \/ KiDeath(h)
  PROVE  KiSent'
<1> DEFINE l == hooks[h]
           t == hooks'[h]
<1>k. KiKept(h)
  BY KiKeeps
<1>0. IsSeq(sent)
  BY DEF KiSent
<1>s. IsSeq(sent') /\ ((l.at = "send" /\ KiNew(h)) \/ sent' = sent) /\ (KiMove(h) /\ l.at = "send" => KiNew(h))
  BY <1>0, KiSpan
<1>d. DOMAIN sent \subseteq DOMAIN sent' /\ \A k \in DOMAIN sent : sent'[k] = sent[k]
  BY <1>s DEF KiNew
<1>l. KiPlaced(l) /\ \A i \in DOMAIN world.log : world.log[i].by \in KiHooks
  BY DEF KiLog
<1>1. ASSUME NEW k \in DOMAIN sent', NEW m \in DOMAIN sent', sent'[k].by = sent'[m].by
      PROVE  k = m
  <2>1. sent' # sent => \A j \in DOMAIN sent : sent[j].by # h
    BY <1>s DEF KiSent, KiEnd
  <2>2. \A a, b \in DOMAIN sent : sent[a].by = sent[b].by => a = b
    BY DEF KiSent
  <2> QED
    BY <1>1, <1>s, <2>1, <2>2 DEF KiNew
<1>2. ASSUME NEW k \in DOMAIN sent'
      PROVE  sent'[k].by \in KiHooks /\ hooks'[sent'[k].by].at \in KiEnd \cup {"done"}
  <2>1. CASE k \in DOMAIN sent
    <3>1. sent'[k] = sent[k] /\ sent[k].by \in KiHooks /\ hooks[sent[k].by].at \in KiEnd \cup {"done"}
      BY <1>d, <2>1 DEF KiSent
    <3>2. CASE sent[k].by = h
      <4>1. t.at \in KiEnd \cup {"done"}
        BY <1>k, <3>1, <3>2 DEF KiMove, KiDeath, KiFrom, KiEnd, KiPlaced, KiReports, Ki!Kinds
      <4> QED
        BY <3>1, <3>2, <4>1
    <3> QED
      BY <1>k, <3>1, <3>2 DEF KiKept
  <2>2. CASE k \notin DOMAIN sent
    <3>1. l.at = "send" /\ sent'[k].by = h
      BY <1>s, <2>2 DEF KiNew
    <3>2. t.at \in KiEnd \cup {"done"}
      BY <1>k, <3>1 DEF KiKept, KiPlaced, KiMove, KiDeath, KiFrom, KiEnd, KiReports, Ki!Kinds
    <3> QED
      BY <3>1, <3>2
  <2> QED
    BY <2>1, <2>2
<1>3. ASSUME NEW i \in DOMAIN world.log, world.log[i].kind \in KiReports,
             hooks'[world.log[i].by].at \in KiEnd \/ Ki!Lived(world.log[i].by)'
      PROVE  \E k \in DOMAIN sent' : sent'[k].by = world.log[i].by
  <2> DEFINE g == world.log[i].by
  <2>0. g \in KiHooks
    BY <1>l
  <2>1. CASE hooks[g].at \in KiEnd \/ Ki!Lived(g)
    <3>1. PICK k \in DOMAIN sent : sent[k].by = g
      BY <1>3, <2>1 DEF KiSent
    <3> QED
      BY <1>d, <3>1
  <2>2. CASE ~(hooks[g].at \in KiEnd \/ Ki!Lived(g))
    <3>1. g = h
      BY <1>3, <1>k, <2>0, <2>2 DEF KiKept, Ki!Lived
    <3>2. KiMove(h)
      BY <1>3, <1>k, <3>1 DEF KiDeath, Ki!Lived, KiKept, KiEnd
    <3>3. l.kind = world.log[i].kind
      BY <1>k, <3>1 DEF KiLog, KiKept
    <3>4. t.at \in KiEnd \cup {"done"}
      BY <1>3, <1>k, <3>1 DEF KiKept, Ki!Lived
    <3>5. l.at = "send"
      BY <1>3, <1>l, <2>2, <3>1, <3>2, <3>3, <3>4 DEF KiMove, KiFrom, KiPlaced, KiEnd, KiReports
    <3>6. Len(sent) + 1 \in DOMAIN sent' /\ sent'[Len(sent) + 1].by = h
      BY <1>s, <3>2, <3>5 DEF KiNew
    <3> QED
      BY <3>1, <3>6
  <2> QED
    BY <2>1, <2>2
<1>4. /\ world'.log = world.log /\ KiHooks' = KiHooks
  BY <1>k DEF KiKept, KiHooks
<1> QED
  BY <1>s, <1>1, <1>2, <1>3, <1>4 DEF KiSent, IsSeq

LEMMA KiReportedKept ==
  ASSUME KiLog, KiAlone, KiReads, KiSlots, KiSent, KiReported, NEW h \in KiHooks, KiMove(h) \/ KiDeath(h)
  PROVE  KiReported'
<1> DEFINE l == hooks[h]
<1>k. KiKept(h)
  BY KiKeeps
<1>0. IsSeq(sent)
  BY DEF KiSent
<1>s. (l.at = "send" /\ KiNew(h)) \/ sent' = sent
  BY <1>0, KiSpan
<1>n. PICK n \in DOMAIN world.log : world.log[n].by = h /\ world.log[n].kind = l.kind /\ world.log[n].call = l.call
  BY <1>k, KiEvent DEF KiKept
<1>l. /\ None \notin KiHooks /\ \A j \in DOMAIN world.log : j \in Nat /\ world.log[j].by \in KiHooks
      /\ \A i, j \in DOMAIN world.log : world.log[i].by = world.log[j].by => i = j
  BY AppendAny DEF KiLog
<1>1. ASSUME NEW i \in DOMAIN world.log, NEW p \in DOMAIN world.log, NEW k \in DOMAIN sent',
             world.log[i].kind \in KiReports, sent'[k].by = world.log[i].by, TurnOf(p, i), Ki!Lived(world.log[p].by)'
      PROVE  LET e == world.log[i]
                 turn == world.log[p].by IN
             /\ sent'[k].trace = turn
             /\ e.kind = "stop" => sent'[k].id = turn
             /\ e.kind = "postTool" =>
                  /\ sent'[k].parent = turn
                  /\ ~world.overlap /\ Ki!Lived(e.call)' => sent'[k].id = e.call /\ sent'[k].input = e.call
  <2> DEFINE e == world.log[i]
             turn == world.log[p].by
  <2>1. Ki!Lived(turn)
    BY <1>1, <1>k, KiTurnLives DEF KiReports
  <2>2. e.kind = "postTool" /\ ~world.overlap /\ Ki!Lived(e.call)' => Ki!Lived(e.call)
    <3> SUFFICES ASSUME e.kind = "postTool", ~world.overlap, Ki!Lived(e.call)'
                 PROVE  Ki!Lived(e.call)
      OBVIOUS
    <3>1. PICK j \in DOMAIN world.log : j < i /\ world.log[j].by = e.call
      BY DEF KiLog
    <3>2. e.call \in KiHooks
      BY <1>l, <3>1
    <3>3. e.call # h
      BY <1>k, <1>l, <3>1, KiSolo DEF KiKept
    <3> QED
      BY <1>k, <3>2, <3>3 DEF KiKept, Ki!Lived
  <2>3. CASE k \in DOMAIN sent
    <3>1. sent'[k] = sent[k]
      BY <1>s, <2>3 DEF KiNew
    <3> QED
      BY <1>1, <2>1, <2>2, <2>3, <3>1 DEF KiReported
  <2>4. CASE k \notin DOMAIN sent
    <3>1. /\ l.at = "send" /\ sent'[k].by = h /\ sent'[k].id = l.id /\ sent'[k].trace = l.trace
          /\ sent'[k].parent = l.span /\ sent'[k].input = l.input
      BY <1>s, <2>4 DEF KiNew
    <3>2. i = n /\ e.by = h /\ e.kind = l.kind /\ e.call = l.call
      BY <1>1, <1>l, <1>n, <3>1
    <3>3. /\ l.kind = "postTool" => l.span = turn /\ l.trace = turn
          /\ l.kind = "stop" => l.trace = turn /\ l.id = turn
      BY <1>1, <2>1, <3>1, <3>2 DEF KiReads
    <3>4. l.kind = "postTool" /\ ~world.overlap /\ Ki!Lived(l.call) => l.id = l.call /\ l.input = l.call
      BY <1>k, <3>1 DEF KiSlots, KiKept
    <3> QED
      BY <1>1, <2>2, <3>1, <3>2, <3>3, <3>4 DEF KiReports
  <2> QED
    BY <2>3, <2>4
<1>2. /\ world'.log = world.log /\ world'.overlap = world.overlap /\ \A p, i : TurnOf(p, i)' <=> TurnOf(p, i)
  BY <1>k DEF KiKept
<1> QED
  BY <1>1, <1>2 DEF KiReported

-----------------------------------------------------------------------------
(* The begin of a hook *)

(* What a begin adds.                                                      *)
KiBegun(h, k, c) ==
  LET n == Len(world.log) IN
  /\ n \in Nat /\ DOMAIN world.log = 1 .. n /\ DOMAIN world'.log = 1 .. n + 1
  /\ \A i \in 1 .. n : world'.log[i] = world.log[i] /\ world.log[i].by # h /\ world.log[i].by \in KiHooks
  /\ world'.log[n + 1].kind = k /\ world'.log[n + 1].by = h /\ world'.log[n + 1].call = c
  /\ \A x : EventsOf(x)' = IF x = k THEN EventsOf(x) \cup {n + 1} ELSE EventsOf(x)
  /\ \A x : EventsOf(x) \subseteq 1 .. n
  /\ \A p : \A i \in 1 .. n : TurnOf(p, i)' <=> TurnOf(p, i)
  /\ \A g \in KiHooks : g # h => (Ki!Running(g)' <=> Ki!Running(g)) /\ (Ki!Lived(g)' <=> Ki!Lived(g))
  /\ ~Ki!Lived(h)' /\ ~Ki!Lived(h) /\ ~Ki!Running(h)

LEMMA KiBegunBy ==
  ASSUME KiLog, NEW h \in KiHooks, NEW k, NEW c, KiBegin(h, k, c)
  PROVE  KiBegun(h, k, c)
<1> DEFINE n == Len(world.log)
<1>1. /\ n \in Nat /\ DOMAIN world.log = 1 .. n /\ DOMAIN world'.log = 1 .. n + 1
      /\ \A i \in 1 .. n : world'.log[i] = world.log[i] /\ world.log[i].by # h
      /\ world'.log[n + 1].kind = k /\ world'.log[n + 1].by = h /\ world'.log[n + 1].call = c
  BY KiAppended
<1>2. \A i \in 1 .. n : world.log[i].by \in KiHooks
  BY <1>1 DEF KiLog
<1> HIDE DEF n
<1>3. ASSUME NEW x
      PROVE  /\ EventsOf(x)' = IF x = k THEN EventsOf(x) \cup {n + 1} ELSE EventsOf(x)
             /\ EventsOf(x) \subseteq 1 .. n
  <2>1. EventsOf(x) = {j \in 1 .. n : world.log[j].kind = x}
    BY <1>1 DEF EventsOf
  <2>2. EventsOf(x)' = {j \in 1 .. n + 1 : world'.log[j].kind = x}
    BY <1>1 DEF EventsOf
  <2> QED
    BY <1>1, <2>1, <2>2
<1>4. \A p : \A i \in 1 .. n : TurnOf(p, i)' <=> TurnOf(p, i)
  <2> SUFFICES ASSUME NEW p, NEW i \in 1 .. n
               PROVE  TurnOf(p, i)' <=> TurnOf(p, i)
    OBVIOUS
  <2>1. \A q : q <= i => (q \in EventsOf("prompt")' <=> q \in EventsOf("prompt"))
    BY <1>1, <1>3
  <2> QED
    BY <2>1 DEF TurnOf
<1>5. \A g \in KiHooks : g # h => (Ki!Running(g)' <=> Ki!Running(g)) /\ (Ki!Lived(g)' <=> Ki!Lived(g))
  BY DEF KiBegin, Ki!Running, Ki!Lived
<1>6. ~Ki!Lived(h)' /\ ~Ki!Lived(h) /\ ~Ki!Running(h)
  BY DEF KiBegin, Ki!Running, Ki!Lived
<1> QED
  BY <1>1, <1>2, <1>3, <1>4, <1>5, <1>6 DEF KiBegun, n

LEMMA KiLogBegun ==
  ASSUME KiLog, KiAlone, NEW h \in KiHooks, NEW k, NEW c, KiBegin(h, k, c)
  PROVE  KiLog' /\ KiAlone'
<1> DEFINE n == Len(world.log)
           log == world'.log
<1>b. KiBegun(h, k, c)
  BY KiBegunBy
<1>n. /\ n \in Nat /\ DOMAIN world.log = 1 .. n /\ DOMAIN log = 1 .. n + 1
      /\ \A i \in 1 .. n : log[i] = world.log[i] /\ world.log[i].by # h /\ world.log[i].by \in KiHooks
      /\ log[n + 1].kind = k /\ log[n + 1].by = h /\ log[n + 1].call = c
  BY <1>b DEF KiBegun
<1> HIDE DEF n, log
<1>1. DOMAIN hooks' = KiHooks /\ \A g \in KiHooks : KiPlaced(hooks'[g])
  BY DEF KiLog, KiBegin, KiPlaced
<1>2. world'.died \subseteq {g \in KiHooks : hooks'[g].at = "done"}
  BY DEF KiLog, KiBegin
<1>3. ASSUME NEW g \in KiHooks, hooks'[g].at # "new"
      PROVE  \E i \in DOMAIN log : log[i].by = g
  <2>1. CASE g = h
    BY <1>n, <2>1
  <2>2. CASE g # h
    <3>1. PICK i \in DOMAIN world.log : world.log[i].by = g
      BY <1>3, <2>2 DEF KiBegin, KiLog
    <3> QED
      BY <1>n, <3>1
  <2> QED
    BY <2>1, <2>2
<1>4. \A i, j \in DOMAIN log : log[i].by = log[j].by => i = j
  <2>1. \A i, j \in 1 .. n : world.log[i].by = world.log[j].by => i = j
    BY <1>n DEF KiLog
  <2>2. \A i \in 1 .. n + 1 : i \in 1 .. n \/ i = n + 1
    BY <1>n
  <2> QED
    BY <1>n, <2>1, <2>2
<1>5. ASSUME NEW i \in DOMAIN log
      PROVE  LET e == log[i]
                 u == hooks'[e.by] IN
             /\ e.by \in KiHooks /\ u.at # "new"
             /\ e.kind = "preTool" => e.call = e.by
             /\ e.kind = "postTool" => \E j \in DOMAIN log : j < i /\ log[j].by = e.call
             /\ e.kind \notin KiTools => e.call = None
             /\ u.at \notin {"new", "done"} => u.kind = e.kind /\ u.call = e.call
             /\ e.kind \in KiTools \cup {"stop"} =>
                  \E p \in EventsOf("prompt")' :
                    TurnOf(p, i)' /\ \A s \in EventsOf("stop")' : s < i => s < p
  <2>1. CASE i \in 1 .. n
    <3> DEFINE e == world.log[i]
    <3>1. /\ e.by \in KiHooks /\ hooks[e.by].at # "new"
          /\ e.kind = "preTool" => e.call = e.by
          /\ e.kind = "postTool" => \E j \in DOMAIN world.log : j < i /\ world.log[j].by = e.call
          /\ e.kind \notin KiTools => e.call = None
          /\ Ki!Running(e.by) => hooks[e.by].kind = e.kind /\ hooks[e.by].call = e.call
          /\ e.kind \in KiTools \cup {"stop"} =>
               \E p \in EventsOf("prompt") :
                 TurnOf(p, i) /\ \A s \in EventsOf("stop") : s < i => s < p
      BY <1>n, <2>1 DEF KiLog
    <3>2. log[i] = e /\ e.by # h /\ hooks'[e.by] = hooks[e.by]
      BY <1>n, <2>1 DEF KiBegin
    <3>3. e.kind = "postTool" => \E j \in DOMAIN log : j < i /\ log[j].by = e.call
      BY <1>n, <3>1
    <3>4. e.kind \in KiTools \cup {"stop"} =>
            \E p \in EventsOf("prompt")' :
              TurnOf(p, i)' /\ \A s \in EventsOf("stop")' : s < i => s < p
      <4> SUFFICES ASSUME e.kind \in KiTools \cup {"stop"}
                   PROVE  \E p \in EventsOf("prompt")' :
                            TurnOf(p, i)' /\ \A s \in EventsOf("stop")' : s < i => s < p
        OBVIOUS
      <4>1. PICK p \in EventsOf("prompt") : TurnOf(p, i) /\ \A s \in EventsOf("stop") : s < i => s < p
        BY <3>1
      <4>2. TurnOf(p, i)'
        BY <1>b, <2>1, <4>1 DEF KiBegun, n
      <4>3. p \in EventsOf("prompt")' /\ \A s \in EventsOf("stop")' : s \in EventsOf("stop") \/ s = n + 1
        BY <1>b, <4>1 DEF KiBegun, n
      <4>4. ~(n + 1 < i)
        BY <1>n, <2>1
      <4> QED
        BY <4>1, <4>2, <4>3, <4>4
    <3> QED
      BY <3>1, <3>2, <3>3, <3>4 DEF Ki!Running
  <2>2. CASE i = n + 1
    <3>1. /\ log[i].by = h /\ log[i].kind = k /\ log[i].call = c
          /\ hooks'[h].at = "ensure" /\ hooks'[h].kind = k /\ hooks'[h].call = c
          /\ k = "preTool" => c = h
          /\ k \notin KiTools => c = None
      BY <1>n, <2>2 DEF KiBegin
    <3>2. k = "postTool" => \E j \in DOMAIN log : j < i /\ log[j].by = c
      <4> SUFFICES ASSUME k = "postTool"
                   PROVE  \E j \in DOMAIN log : j < i /\ log[j].by = c
        OBVIOUS
      <4>1. PICK j \in EventsOf("preTool") : world.log[j].call = c
        BY SameEvents DEF KiBegin, Ki!OpenCalls
      <4>2. j \in 1 .. n /\ world.log[j].by = c
        BY <1>n, <4>1 DEF KiLog, EventsOf
      <4> QED
        BY <1>n, <2>2, <4>2
    <3>3. k \in KiTools \cup {"stop"} =>
            \E p \in EventsOf("prompt")' :
              TurnOf(p, i)' /\ \A s \in EventsOf("stop")' : s < i => s < p
      <4> SUFFICES ASSUME k \in KiTools \cup {"stop"}
                   PROVE  \E p \in EventsOf("prompt")' :
                            TurnOf(p, i)' /\ \A s \in EventsOf("stop")' : s < i => s < p
        OBVIOUS
      <4>1. PICK p \in EventsOf("prompt") : /\ p \in Nat /\ p <= n
                                             /\ \A q \in EventsOf("prompt") : q <= p
                                             /\ \A s \in EventsOf("stop") : s < p
        BY OpenTurn DEF KiBegin, KiLog, n
      <4>2. EventsOf("prompt")' = EventsOf("prompt")
        BY <1>b DEF KiBegun, KiTools, n
      <4>3. \A s \in EventsOf("stop")' : s \in EventsOf("stop") \/ s = n + 1
        BY <1>b DEF KiBegun, n
      <4>4. TurnOf(p, i)'
        <5>1. p <= i
          BY <1>n, <2>2, <4>1
        <5>2. p \in EventsOf("prompt")' /\ \A q \in EventsOf("prompt")' : q <= p
          BY <4>1, <4>2
        <5> QED
          BY <5>1, <5>2 DEF TurnOf
      <4>5. ~(n + 1 < i)
        BY <1>n, <2>2
      <4> QED
        BY <4>1, <4>2, <4>3, <4>4, <4>5
    <3> QED
      BY <3>1, <3>2, <3>3
  <2> QED
    BY <1>n, <2>1, <2>2
<1>6. KiLog'
  <2>1. IsSeq(world'.log)
    BY KiAppended
  <2>2. /\ None \notin KiHooks /\ KiHooks' = KiHooks
        /\ DOMAIN world' = {"overlap", "died", "log"} /\ world'.overlap \in BOOLEAN
    BY DEF KiLog, KiBegin, KiHooks
  <2> QED
    BY <1>1, <1>2, <1>3, <1>4, <1>5, <2>1, <2>2 DEF KiLog, KiPlaced, KiHooks, IsSeq, Ki!Running, log
<1>7. KiAlone'
  <2>1. world'.overlap = world.overlap
    BY DEF KiBegin
  <2> SUFFICES ASSUME NEW i \in DOMAIN log, NEW j \in DOMAIN log, i < j,
                      hooks'[log[i].by].at \notin {"new", "done"}
               PROVE  world'.overlap /\ log[i].kind \in KiTools /\ log[j].kind \in KiTools
    BY DEF KiAlone, KiTools, Ki!Running, log
  <2>2. i \in 1 .. n /\ log[i] = world.log[i] /\ world.log[i].by # h /\ world.log[i].by \in KiHooks
    BY <1>n
  <2>3. Ki!Running(world.log[i].by)
    BY <2>2 DEF KiBegin, Ki!Running
  <2>4. CASE j \in 1 .. n
    BY <1>n, <2>1, <2>2, <2>3, <2>4 DEF KiAlone
  <2>5. CASE j = n + 1
    <3>1. world.overlap /\ {k, hooks[world.log[i].by].kind} \subseteq {"preTool", "postTool"}
      BY <2>2, <2>3 DEF KiBegin, Ki!MayStart, KiHooks
    <3>2. hooks[world.log[i].by].kind = world.log[i].kind
      BY <1>n, <2>2, <2>3 DEF KiLog
    <3> QED
      BY <1>n, <2>1, <2>2, <2>5, <3>1, <3>2 DEF KiTools
  <2> QED
    BY <1>n, <2>4, <2>5
<1> QED
  BY <1>6, <1>7

LEMMA KiOpenBegun ==
  ASSUME KiLog, KiOpen, NEW h \in KiHooks, NEW k, NEW c, KiBegin(h, k, c)
  PROVE  KiOpen'
<1> DEFINE n == Len(world.log)
           log == world'.log
<1>b. KiBegun(h, k, c)
  BY KiBegunBy
<1>n. /\ n \in Nat /\ DOMAIN world.log = 1 .. n /\ DOMAIN log = 1 .. n + 1
      /\ \A i \in 1 .. n : log[i] = world.log[i] /\ world.log[i].by # h /\ world.log[i].by \in KiHooks
      /\ log[n + 1].kind = k /\ log[n + 1].by = h /\ log[n + 1].call = c
      /\ \A x : EventsOf(x)' = IF x = k THEN EventsOf(x) \cup {n + 1} ELSE EventsOf(x)
      /\ \A x : EventsOf(x) \subseteq 1 .. n
  BY <1>b DEF KiBegun
<1> HIDE DEF n, log
<1>1. \A g \in KiHooks : hooks'[g].at = "openSpan" => Ki!Get(store', Ki!TraceKey) = g
  BY DEF KiOpen, KiBegin
<1>2. ASSUME NEW p \in EventsOf("prompt")', \A q \in EventsOf("prompt")' : q <= p,
             hooks'[log[p].by].at = "done", log[p].by \notin world'.died,
             \A s \in EventsOf("stop")' : p < s => hooks'[log[s].by].at \in KiUnclosed
      PROVE  /\ Ki!Get(store', Ki!TraceKey) = log[p].by
             /\ Ki!Get(store', Ki!SpanKey) = log[p].by
  <2>1. p # n + 1
    BY <1>2, <1>n DEF KiBegin
  <2>2. p \in EventsOf("prompt") /\ p \in 1 .. n
    BY <1>n, <2>1
  <2>3. \A q \in EventsOf("prompt") : q <= p
    BY <1>2, <1>n
  <2>4. Ki!Lived(world.log[p].by) /\ log[p] = world.log[p]
    BY <1>2, <1>n, <2>2 DEF KiBegin, Ki!Lived
  <2>5. ASSUME NEW s \in EventsOf("stop"), p < s
        PROVE  hooks[world.log[s].by].at \in KiUnclosed
    <3>1. s \in 1 .. n /\ s \in EventsOf("stop")'
      BY <1>n
    <3> QED
      BY <1>2, <1>n, <2>5, <3>1 DEF KiBegin
  <2> QED
    BY <2>2, <2>3, <2>4, <2>5 DEF KiOpen, KiBegin
<1>3. KiHooks' = KiHooks
  BY DEF KiHooks
<1>4. \A x : Ki!Lived(x)' <=> hooks'[x].at = "done" /\ x \notin world'.died
  BY DEF Ki!Lived
<1> QED
  <2>1. ASSUME NEW p \in EventsOf("prompt")', \A q \in EventsOf("prompt")' : q <= p,
               Ki!Lived(world.log[p].by)',
               \A s \in EventsOf("stop")' : p < s => hooks'[world'.log[s].by].at \in KiUnclosed
        PROVE  /\ Ki!Get(store', Ki!TraceKey) = world'.log[p].by
               /\ Ki!Get(store', Ki!SpanKey) = world'.log[p].by
    <3>1. hooks'[log[p].by].at = "done" /\ log[p].by \notin world'.died
      BY <2>1 DEF Ki!Lived, log
    <3> QED
      BY <1>2, <2>1, <3>1 DEF log
  <2> QED
    BY <1>1, <1>3, <2>1 DEF KiOpen, KiUnclosed, Ki!TraceKey, Ki!SpanKey, Ki!Get, Ki!Has

LEMMA KiRestBegun ==
  ASSUME KiLog, KiAlone, KiReads, KiSlots, KiSent, KiReported,
         NEW h \in KiHooks, NEW k, NEW c, KiBegin(h, k, c)
  PROVE  KiReads' /\ KiSlots' /\ KiSent' /\ KiReported'
<1> DEFINE n == Len(world.log)
           log == world'.log
           Alive(x) == hooks'[x].at = "done" /\ x \notin world'.died
<1>b. KiBegun(h, k, c)
  BY KiBegunBy
<1>n. /\ n \in Nat /\ DOMAIN world.log = 1 .. n /\ DOMAIN log = 1 .. n + 1
      /\ \A i \in 1 .. n : log[i] = world.log[i] /\ world.log[i].by # h /\ world.log[i].by \in KiHooks
      /\ log[n + 1].kind = k /\ log[n + 1].by = h /\ log[n + 1].call = c
      /\ \A p : \A i \in 1 .. n : TurnOf(p, i)' <=> TurnOf(p, i)
  BY <1>b DEF KiBegun
<1>a. (\A x : Ki!Lived(x)' <=> Alive(x)) /\ (\A x \in KiHooks : Alive(x) <=> Ki!Lived(x)) /\ ~Alive(h)
  BY DEF Ki!Lived, KiBegin
<1>h. /\ \A g \in KiHooks : g # h => hooks'[g] = hooks[g]
      /\ hooks'[h].at = "ensure" /\ hooks'[h].kind = k /\ hooks'[h].call = c /\ hooks[h].at = "new"
      /\ store' = store /\ sent' = sent /\ world'.overlap = world.overlap
  BY DEF KiBegin
<1>t. ASSUME NEW p \in DOMAIN log, NEW i \in DOMAIN log, i # n + 1, TurnOf(p, i)', Alive(log[p].by)
      PROVE  /\ i \in 1 .. n /\ p \in 1 .. n /\ log[i] = world.log[i] /\ log[p] = world.log[p]
             /\ TurnOf(p, i) /\ Ki!Lived(world.log[p].by)
  <2>1. i \in 1 .. n
    BY <1>n, <1>t
  <2>2. TurnOf(p, i)
    BY <1>n, <1>t, <2>1
  <2>3. p \in 1 .. n
    BY <1>n, <2>1, <2>2, KiTurnOf
  <2> HIDE DEF n, log, Alive
  <2> QED
    BY <1>a, <1>n, <1>t, <2>1, <2>2, <2>3
<1>s. store' = store => Ki!Count' = Ki!Count /\ \A x : (Slots(x)' <=> Slots(x))
  BY DEF Slots, Ki!Count, Ki!Has, Ki!CountKey, Ki!Get, Ki!SlotSpan, Ki!SlotCall
<1> HIDE DEF n, log, Alive
<1>1. KiReads'
  <2>1. ASSUME NEW i \in DOMAIN log, NEW p \in DOMAIN log, TurnOf(p, i)', Alive(log[p].by)
        PROVE  LET u == hooks'[log[i].by]
                   turn == log[p].by IN
               /\ u.kind = "postTool" /\ u.at \in {"trace", "send"} => u.span = turn
               /\ u.kind = "postTool" /\ u.at = "send" => u.trace = turn
               /\ u.kind = "stop" /\ u.at \in {"span", "send"} => u.trace = turn
               /\ u.kind = "stop" /\ u.at = "send" => u.id = turn
    <3>1. CASE i = n + 1
      BY <1>h, <1>n, <3>1
    <3>2. CASE i # n + 1
      <4>1. /\ i \in 1 .. n /\ p \in 1 .. n /\ log[i] = world.log[i] /\ log[p] = world.log[p]
            /\ TurnOf(p, i) /\ Ki!Lived(world.log[p].by)
        BY <1>t, <2>1, <3>2
      <4>2. hooks'[log[i].by] = hooks[world.log[i].by]
        BY <1>h, <1>n, <4>1
      <4> QED
        BY <1>n, <4>1, <4>2 DEF KiReads
    <3> QED
      BY <3>1, <3>2
  <2> QED
    BY <1>a, <2>1 DEF KiReads, log
<1>2. KiSlots'
  <2> SUFFICES ASSUME ~world.overlap
               PROVE  KiSlots'
    BY <1>h DEF KiSlots
  <2>1. \A g \in KiHooks : ~Ki!Running(g)
    BY DEF KiBegin, Ki!MayStart, KiHooks
  <2>2. ASSUME k = "postTool", Alive(c)
        PROVE  Slots(c)
    <3>1. world.log[n].call = c
      BY <2>2 DEF KiBegin, Ki!MayStart, Ki!Here, n
    <3>2. PICK j \in EventsOf("preTool") : world.log[j].call = c
      BY <2>2, SameEvents DEF KiBegin, Ki!OpenCalls
    <3>3. j \in 1 .. n /\ c \in KiHooks /\ None \notin KiHooks
      BY <1>n, <3>2 DEF EventsOf, KiLog
    <3>4. n \in 1 .. n
      BY <1>n, <3>3
    <3>5. world.log[n].kind # "postTool"
      BY <1>n, <2>2, <3>1, <3>4, SameEvents DEF KiBegin, Ki!OpenCalls, EventsOf
    <3>6. world.log[n].kind \in KiTools
      BY <1>n, <3>1, <3>3, <3>4 DEF KiLog
    <3>7. world.log[n].kind = "preTool" /\ world.log[n].by = c
      BY <1>n, <3>1, <3>4, <3>5, <3>6 DEF KiLog, KiTools
    <3>8. Ki!Lived(c)
      BY <1>a, <2>2, <3>3
    <3> QED
      BY <1>n, <3>4, <3>7, <3>8 DEF KiSlots
  <2>3. ASSUME NEW g \in KiHooks
        PROVE  LET u == hooks'[g] IN
               /\ u.at \in {"setSpan", "setCall", "slotSpan", "slotCall"} => u.slot = Ki!Count'
               /\ u.at = "setCall" => Ki!Get(store', Ki!SlotSpan(Ki!Count')) = g
               /\ u.at \notin {"new", "done"} /\ u.kind = "postTool" /\ Alive(u.call) =>
                    /\ u.at \in {"ensure", "readSlot", "slotSpan", "slotCall"} => Slots(u.call)
                    /\ u.at \in {"slotCall", "span", "trace", "send"} => u.id = u.call
                    /\ u.at \in {"span", "trace", "send"} => u.input = u.call
    <3>1. CASE g = h
      BY <1>h, <2>2, <3>1
    <3>2. CASE g # h
      BY <1>h, <2>1, <3>2 DEF Ki!Running
    <3> QED
      BY <3>1, <3>2
  <2>4. ASSUME NEW i \in DOMAIN log, \A j \in DOMAIN log : j <= i, log[i].kind = "preTool", Alive(log[i].by)
        PROVE  Slots(log[i].by)
    <3>1. i = n + 1
      BY <1>n, <2>4
    <3> QED
      BY <1>a, <1>n, <2>4, <3>1
  <2>5. KiHooks' = KiHooks /\ Ki!Count' = Ki!Count /\ \A x : (Slots(x)' <=> Slots(x))
    BY <1>h, <1>s DEF KiHooks
  <2>6. \A x : Ki!Get(store', x) = Ki!Get(store, x)
    BY <1>h
  <2> QED
    BY <1>a, <2>3, <2>4, <2>5, <2>6 DEF KiSlots, Ki!Running, log
<1>3. KiSent'
  <2>1. \A j \in DOMAIN sent : sent[j].by \in KiHooks /\ sent[j].by # h
    BY <1>h DEF KiSent, KiEnd
  <2>2. \A j \in DOMAIN sent : hooks'[sent[j].by].at \in KiEnd \cup {"done"}
    BY <1>h, <2>1 DEF KiSent
  <2>3. ASSUME NEW i \in DOMAIN log, log[i].kind \in KiReports, hooks'[log[i].by].at \in KiEnd \/ Alive(log[i].by)
        PROVE  \E j \in DOMAIN sent : sent[j].by = log[i].by
    <3>1. CASE i = n + 1
      BY <1>a, <1>h, <1>n, <2>3, <3>1 DEF KiEnd
    <3>2. CASE i # n + 1
      <4>1. i \in 1 .. n /\ log[i] = world.log[i] /\ log[i].by # h /\ log[i].by \in KiHooks
        BY <1>n, <3>2
      <4>2. hooks[log[i].by].at \in KiEnd \/ Ki!Lived(log[i].by)
        BY <1>a, <1>h, <2>3, <4>1
      <4> QED
        BY <1>n, <2>3, <4>1, <4>2 DEF KiSent
    <3> QED
      BY <3>1, <3>2
  <2> QED
    BY <1>a, <1>h, <2>1, <2>2, <2>3 DEF KiSent, KiHooks, IsSeq, log
<1>4. KiReported'
  <2>1. ASSUME NEW i \in DOMAIN log, NEW p \in DOMAIN log, NEW j \in DOMAIN sent,
               log[i].kind \in KiReports, sent[j].by = log[i].by, TurnOf(p, i)', Alive(log[p].by)
        PROVE  LET e == log[i]
                   turn == log[p].by IN
               /\ sent[j].trace = turn
               /\ e.kind = "stop" => sent[j].id = turn
               /\ e.kind = "postTool" =>
                    /\ sent[j].parent = turn
                    /\ ~world.overlap /\ Alive(e.call) => sent[j].id = e.call /\ sent[j].input = e.call
    <3>1. i # n + 1
      BY <1>h, <1>n, <2>1 DEF KiSent, KiEnd
    <3>2. /\ i \in 1 .. n /\ p \in 1 .. n /\ log[i] = world.log[i] /\ log[p] = world.log[p]
          /\ TurnOf(p, i) /\ Ki!Lived(world.log[p].by)
      BY <1>t, <2>1, <3>1
    <3>3. world.log[i].kind = "postTool" => world.log[i].call \in KiHooks
      BY <1>n, <3>2 DEF KiLog
    <3> QED
      BY <1>a, <1>n, <2>1, <3>2, <3>3 DEF KiReported
  <2> QED
    BY <1>a, <1>h, <2>1 DEF KiReported, log
<1> QED
  BY <1>1, <1>2, <1>3, <1>4

LEMMA KiInit ==
  ASSUME Ki!KiroAssumption, Ki!Init
  PROVE  KiInv
<1>1. /\ hooks = [h \in KiHooks |-> Ki!Unborn] /\ sent = <<>> /\ None \notin KiHooks
      /\ \E o \in Overlaps : world = [overlap |-> o, died |-> {}, log |-> <<>>]
      /\ Overlaps \subseteq BOOLEAN
  BY DEF Ki!Init, Ki!KiroAssumption, KiHooks
<1>2. /\ DOMAIN hooks = KiHooks /\ \A h \in KiHooks : hooks[h] = Ki!Unborn
      /\ DOMAIN world = {"overlap", "died", "log"} /\ world.overlap \in BOOLEAN
      /\ world.died = {} /\ world.log = <<>>
  BY <1>1
<1>3. DOMAIN Ki!Unborn = KiFields /\ Ki!Unborn.at = "new"
  BY DEF Ki!Unborn, KiFields
<1>4. IsSeq(<<>>) /\ DOMAIN <<>> = {}
  BY DEF IsSeq
<1>5. \A x : EventsOf(x) = {}
  BY <1>2, <1>4 DEF EventsOf
<1>6. KiLog
  BY <1>1, <1>2, <1>3, <1>4 DEF KiLog, KiPlaced
<1>7. KiAlone /\ KiOpen /\ KiReads
  BY <1>2, <1>3, <1>4, <1>5 DEF KiAlone, KiOpen, KiReads
<1>8. KiSlots
  BY <1>2, <1>3, <1>4 DEF KiSlots, Ki!Running
<1>9. KiSent /\ KiReported
  BY <1>1, <1>2, <1>4 DEF KiSent, KiReported
<1> QED
  BY <1>6, <1>7, <1>8, <1>9 DEF KiInv

LEMMA KiStep ==
  ASSUME KiInv, [Ki!Next]_Ki!vars
  PROVE  KiInv'
<1>i. KiLog /\ KiAlone /\ KiOpen /\ KiReads /\ KiSlots /\ KiSent /\ KiReported
  BY DEF KiInv
<1>1. ASSUME NEW h \in KiHooks, KiMove(h) \/ KiDeath(h)
      PROVE  KiInv'
  BY <1>i, <1>1, KiLogKept, KiOpenKept, KiReadsKept, KiSlotsKept, KiSentKept, KiReportedKept DEF KiInv
<1>2. ASSUME NEW h \in KiHooks, NEW k, NEW c, KiBegin(h, k, c)
      PROVE  KiInv'
  BY <1>i, <1>2, KiLogBegun, KiOpenBegun, KiRestBegun DEF KiInv
<1>3. CASE Ki!Next
  <2>1. PICK h \in KiHooks : Ki!Step(h)
    BY <1>3 DEF Ki!Next, KiHooks
  <2> QED
    BY <1>i, <1>1, <1>2, <2>1, KiSteps
<1>4. CASE UNCHANGED Ki!vars
  <2>1. store' = store /\ hooks' = hooks /\ world' = world /\ sent' = sent
    BY <1>4 DEF Ki!vars
  <2>2. /\ \A x : EventsOf(x)' = EventsOf(x)
        /\ \A x : (Ki!Lived(x)' <=> Ki!Lived(x)) /\ (Ki!Running(x)' <=> Ki!Running(x))
        /\ KiHooks' = KiHooks
    BY <2>1 DEF EventsOf, Ki!Lived, Ki!Running, KiHooks
  <2>3. \A p, i : TurnOf(p, i)' <=> TurnOf(p, i)
    BY <2>2 DEF TurnOf
  <2>4. KiLog'
    BY <1>i, <2>1, <2>2, <2>3 DEF KiLog, KiPlaced, IsSeq, Ki!Running
  <2>5. KiAlone'
    BY <1>i, <2>1 DEF KiAlone, Ki!Running
  <2>6. KiOpen'
    BY <1>i, <2>1, <2>2 DEF KiOpen, Ki!Lived, Ki!Get, Ki!Has, Ki!TraceKey, Ki!SpanKey
  <2>7. KiReads'
    BY <1>i, <2>1, <2>3 DEF KiReads, Ki!Lived
  <2>8. KiSlots'
    BY <1>i, <2>1, <2>2 DEF KiSlots, Slots, Ki!Lived, Ki!Running, Ki!Count, Ki!Get, Ki!Has,
                            Ki!CountKey, Ki!SlotSpan, Ki!SlotCall
  <2>9. KiSent'
    BY <1>i, <2>1, <2>2 DEF KiSent, IsSeq, Ki!Lived
  <2>10. KiReported'
    BY <1>i, <2>1, <2>3 DEF KiReported, Ki!Lived
  <2> QED
    BY <2>4, <2>5, <2>6, <2>7, <2>8, <2>9, <2>10 DEF KiInv
<1> QED
  BY <1>3, <1>4

(* Kiro: whatever dies before, a hook that lives and reports in a turn     *)
(* whose prompt hook lived sends one span in the trace of that turn; and   *)
(* when calls do not overlap, a result has the span id and the input of    *)
(* its own call (_handle_pre_tool_use, _handle_post_tool_use, _handle_stop). *)
THEOREM KiroSlots == Spec => []SlotsHold
<1> DEFINE Inv == harness = "kiro" => KiInv
<1>1. Init => Inv
  <2>1. Ki!KiroAssumption
    BY HarnessesAssumption
  <2> QED
    BY <2>1, KiInit DEF Init
<1>2. Inv /\ [Next]_vars => Inv'
  <2> SUFFICES ASSUME Inv, [Next]_vars, harness' = "kiro"
               PROVE  KiInv'
    OBVIOUS
  <2>1. harness = "kiro"
    BY DEF Next, vars
  <2>2. [Next]_vars /\ harness = "kiro" => [Ki!Next]_Ki!vars
    BY DEF Next, vars, Ki!vars
  <2> QED
    BY <2>1, <2>2, KiStep
<1>3. Inv => SlotsHold
  <2> SUFFICES ASSUME KiInv, NEW i \in EventsOf("postTool") \cup EventsOf("stop"),
                      Ki!Lived(world.log[i].by), Ki!Lived(world.log[Ki!PromptOf(i)].by)
               PROVE  LET e == world.log[i]
                          turn == world.log[Ki!PromptOf(i)].by IN
                      \E s \in DOMAIN sent :
                        /\ Ki!SpansOf(e.by) = {s} /\ sent[s].trace = turn
                        /\ e.kind = "stop" => sent[s].id = turn
                        /\ e.kind = "postTool" =>
                             /\ sent[s].parent = turn
                             /\ ~world.overlap /\ Ki!Lived(e.call) => sent[s].id = e.call /\ sent[s].input = e.call
    BY SameEvents DEF SlotsHold, Ki!SlotsHold
  <2>1. i \in DOMAIN world.log /\ world.log[i].kind \in KiReports
    BY DEF EventsOf, KiReports
  <2>2. PICK p \in EventsOf("prompt") : TurnOf(p, i)
    BY <2>1 DEF KiInv, KiLog, KiReports, KiTools
  <2>3. p \in DOMAIN world.log /\ Ki!PromptOf(i) = p
    BY <2>1, <2>2, KiTurnOf DEF KiInv
  <2>4. PICK s \in DOMAIN sent : sent[s].by = world.log[i].by
    BY <2>1 DEF KiInv, KiSent
  <2>5. Ki!SpansOf(world.log[i].by) = {s}
    BY <2>4 DEF KiInv, KiSent, Ki!SpansOf
  <2> QED
    BY <2>1, <2>2, <2>3, <2>4, <2>5 DEF KiInv, KiReported
<1> QED
  BY <1>1, <1>2, <1>3, PTL DEF Spec

-----------------------------------------------------------------------------
(* Copilot *)

CoHooks == HooksOf["copilot"]
CoFields == {"at", "kind", "call", "trace", "span", "start", "count"}
CoReports == {"postTool", "stop"}
CoEnd == {"forget", "forgetSpan"}
CoUnclosed == {"stop", "span", "readCount", "send", "forget"}
CoUncounted == {"postTool", "span", "count"}
CoUnread == CoUncounted \cup {"start"}

CoFirst == {"postTool", "stop", "subagentStop"}

CoLived(h) == hooks[h].at = "done" /\ h \notin world.died

(* Where a hook of a kind can be.                                          *)
CoPlaced(l) ==
  /\ DOMAIN l = CoFields
  /\ \/ l.at \in {"new", "done"}
     \/ l.at \in {"ensure", "open", "openSpan", "resetCount"} /\ l.kind = "prompt"
     \/ l.at = "preTool" /\ l.kind = "preTool"
     \/ l.at \in {"postTool", "count", "start", "dropStart"} /\ l.kind = "postTool"
     \/ l.at \in {"stop", "readCount"} \cup CoEnd /\ l.kind = "stop"
     \/ l.at = "subagentStop" /\ l.kind = "subagentStop"
     \/ l.at \in {"span", "send"} /\ l.kind \in CoReports \cup {"subagentStop"}

(* Event i belongs to a turn that was not stopped before; a result also to *)
(* a call of that turn.                                                    *)
CoInTurn(i) ==
  \E p \in EventsOf("prompt") :
    /\ TurnOf(p, i) /\ \A s \in EventsOf("stop") : s < i => s < p
    /\ world.log[i].kind = "postTool" =>
         \E j \in EventsOf("preTool") : p < j /\ j < i /\ world.log[j].by = world.log[i].call

(* The events: each one has its hook, and a call has one result.           *)
CoLog ==
  /\ None \notin CoHooks /\ DOMAIN hooks = CoHooks /\ (\A h \in CoHooks : CoPlaced(hooks[h]))
  /\ DOMAIN world = {"named", "died", "log"} /\ world.named \in BOOLEAN
  /\ world.died \subseteq {h \in CoHooks : hooks[h].at = "done"}
  /\ IsSeq(world.log)
  /\ \A h \in CoHooks : hooks[h].at # "new" => \E i \in DOMAIN world.log : world.log[i].by = h
  /\ \A i, j \in DOMAIN world.log : world.log[i].by = world.log[j].by => i = j
  /\ \A i, j \in DOMAIN world.log :
       world.log[i].kind = "postTool" /\ world.log[j].kind = "postTool"
         /\ world.log[i].call = world.log[j].call => i = j
  /\ \A i \in DOMAIN world.log :
       LET e == world.log[i]
           l == hooks[e.by] IN
       /\ e.by \in CoHooks /\ l.at # "new"
       /\ e.kind = "preTool" => e.call = e.by
       /\ e.kind \notin KiTools => e.call = None
       /\ Co!Running(e.by) => l.kind = e.kind /\ l.call = e.call
       /\ e.kind \in KiTools \cup {"stop"} => CoInTurn(i)

(* What comes while a hook is running is a tool or a sub-agent, and of     *)
(* another call.                                                           *)
CoAlone ==
  \A i, j \in DOMAIN world.log :
    i < j /\ Co!Running(world.log[i].by) =>
      /\ {world.log[i].kind, world.log[j].kind} \subseteq Co!Background
      /\ world.log[j].call # None => world.log[i].call # world.log[j].call

(* The dict has the ids of the last turn, if its prompt lived, until its   *)
(* stop forgets them.                                                      *)
CoOpen ==
  /\ \A h \in CoHooks :
       /\ hooks[h].at \in {"open", "openSpan", "resetCount"} => Co!Has(store, Co!SessionKey)
       /\ hooks[h].at \in {"openSpan", "resetCount"} => Co!Get(store, Co!TraceKey) = h
       /\ hooks[h].at = "resetCount" => Co!Get(store, Co!SpanKey) = h
  /\ \A p \in EventsOf("prompt") :
       /\ \A q \in EventsOf("prompt") : q <= p
       /\ CoLived(world.log[p].by)
       /\ \A s \in EventsOf("stop") : p < s => hooks[world.log[s].by].at \in CoUnclosed
       => /\ Co!Get(store, Co!TraceKey) = world.log[p].by
          /\ Co!Get(store, Co!SpanKey) = world.log[p].by
          /\ Co!Has(store, Co!SessionKey)

(* What a hook has read is of its turn.                                    *)
CoReads ==
  \A i, p \in DOMAIN world.log :
    LET l == hooks[world.log[i].by]
        turn == world.log[p].by IN
    TurnOf(p, i) /\ CoLived(turn) /\ l.kind \in CoReports =>
      /\ l.at \notin {"postTool", "stop", "done"} => l.trace = turn
      /\ l.at \notin {"postTool", "stop", "span", "done"} => l.span = turn

(* A start that was written stays until the result of its call reads it.   *)
CoStarts ==
  ~world.named =>
    /\ \A i \in EventsOf("preTool") :
         LET c == world.log[i].by IN
         /\ CoLived(c)
         /\ \A j \in EventsOf("postTool") :
              world.log[j].call = c => hooks[world.log[j].by].at \in CoUnread
         => Co!Get(store, Co!StartKey(c)) = c
    /\ \A h \in CoHooks : LET l == hooks[h] IN
         l.kind = "postTool" /\ l.at \in {"dropStart", "send"} /\ CoLived(l.call) => l.start = l.call

(* The counter is the number of the turn's results that were counted; what *)
(* stop has read is the number of its results.                             *)
Counted(p) == {j \in EventsOf("postTool") : p < j /\ hooks[world.log[j].by].at \notin CoUncounted}
Whole(p, i) == \A j \in DOMAIN world.log : p <= j /\ j <= i => world.log[j].by \notin world.died

CoCounts ==
  /\ \A p \in EventsOf("prompt") :
       /\ \A q \in EventsOf("prompt") : q <= p
       /\ CoLived(world.log[p].by) /\ Whole(p, Len(world.log))
       => Co!Count = Cardinality(Counted(p))
  /\ \A i, p \in DOMAIN world.log :
       LET l == hooks[world.log[i].by] IN
       TurnOf(p, i) /\ Whole(p, i) /\ l.kind = "stop" /\ l.at = "send" =>
         l.count = Cardinality(Co!PostsOfTurn(p, i))

(* A hook sends one span, before it forgets.                               *)
CoSent ==
  /\ IsSeq(sent) /\ \A k, m \in DOMAIN sent : sent[k].by = sent[m].by => k = m
  /\ \A k \in DOMAIN sent : sent[k].by \in CoHooks /\ hooks[sent[k].by].at \in CoEnd \cup {"done"}
  /\ \A i, p \in DOMAIN world.log : LET e == world.log[i] IN
       /\ e.kind \in CoReports /\ TurnOf(p, i) /\ CoLived(world.log[p].by)
       /\ hooks[e.by].at \in CoEnd \/ CoLived(e.by)
       => \E k \in DOMAIN sent : sent[k].by = e.by

CoReported ==
  \A i, p \in DOMAIN world.log, k \in DOMAIN sent :
    LET e == world.log[i]
        turn == world.log[p].by IN
    e.kind \in CoReports /\ sent[k].by = e.by /\ TurnOf(p, i) /\ CoLived(turn) =>
      /\ sent[k].trace = turn /\ sent[k].span = turn
      /\ e.kind = "postTool" => sent[k].call = e.call
      /\ e.kind = "postTool" /\ ~world.named /\ CoLived(e.call) => sent[k].start = e.call
      /\ e.kind = "stop" /\ Whole(p, i) => sent[k].count = Cardinality(Co!PostsOfTurn(p, i))

CoInv == CoLog /\ CoAlone /\ CoOpen /\ CoReads /\ CoStarts /\ CoCounts /\ CoSent /\ CoReported

LEMMA CoPut ==
  ASSUME NEW d, NEW k, NEW v
  PROVE  /\ Co!Get(Co!Put(d, k, v), k) = v /\ Co!Has(Co!Put(d, k, v), k)
         /\ \A x : x # k => /\ Co!Get(Co!Put(d, k, v), x) = Co!Get(d, x)
                            /\ Co!Has(Co!Put(d, k, v), x) <=> Co!Has(d, x)
BY DEF Co!Get, Co!Put, Co!Has

LEMMA CoDrop ==
  ASSUME NEW d, NEW k
  PROVE  \A x : x # k => /\ Co!Get(Co!Drop(d, {k}), x) = Co!Get(d, x)
                         /\ Co!Has(Co!Drop(d, {k}), x) <=> Co!Has(d, x)
BY DEF Co!Get, Co!Drop, Co!Has

LEMMA CoKeys ==
  /\ Co!TraceKey # Co!SpanKey /\ Co!TraceKey # Co!SessionKey /\ Co!SpanKey # Co!SessionKey
  /\ Co!CountKey # Co!TraceKey /\ Co!CountKey # Co!SpanKey /\ Co!CountKey # Co!SessionKey
  /\ \A c : /\ Co!StartKey(c) # Co!TraceKey /\ Co!StartKey(c) # Co!SpanKey
            /\ Co!StartKey(c) # Co!SessionKey /\ Co!StartKey(c) # Co!CountKey
  /\ ~world.named => \A c, d : Co!StartKey(c) = Co!StartKey(d) => c = d
<1>1. /\ Co!TraceKey # Co!SpanKey /\ Co!TraceKey # Co!SessionKey /\ Co!SpanKey # Co!SessionKey
      /\ Co!CountKey # Co!TraceKey /\ Co!CountKey # Co!SpanKey /\ Co!CountKey # Co!SessionKey
  BY DEF Co!TraceKey, Co!SpanKey, Co!SessionKey, Co!CountKey
<1>2. \A c : /\ Co!StartKey(c) # Co!TraceKey /\ Co!StartKey(c) # Co!SpanKey
             /\ Co!StartKey(c) # Co!SessionKey /\ Co!StartKey(c) # Co!CountKey
  BY DEF Co!StartKey, Co!TraceKey, Co!SpanKey, Co!SessionKey, Co!CountKey
<1>3. ~world.named => \A c, d : Co!StartKey(c) = Co!StartKey(d) => c = d
  BY DEF Co!StartKey
<1> QED
  BY <1>1, <1>2, <1>3

(* A hook goes on with the local variables k, or comes to its end.         *)
LEMMA CoGoto ==
  ASSUME DOMAIN hooks = CoHooks, NEW h \in CoHooks, NEW s, NEW k, Co!Goto(h, s, k), DOMAIN k = CoFields
  PROVE  LET t == hooks'[h] IN
         /\ DOMAIN hooks' = CoHooks /\ (\A g \in CoHooks : g # h => hooks'[g] = hooks[g])
         /\ DOMAIN t = CoFields /\ t.at = s
         /\ s # "done" => /\ t.kind = k.kind /\ t.call = k.call /\ t.trace = k.trace
                          /\ t.span = k.span /\ t.start = k.start /\ t.count = k.count
<1>1. hooks' = [hooks EXCEPT ![h] = IF s = "done" THEN Co!Ended ELSE [k EXCEPT !.at = s]]
  BY DEF Co!Goto
<1>2. Co!Ended = [at |-> "done", kind |-> None, call |-> None, trace |-> None,
                  span |-> None, start |-> None, count |-> 0]
  BY DEF Co!Ended, Co!Unborn
<1>3. hooks'[h] = IF s = "done" THEN Co!Ended ELSE [k EXCEPT !.at = s]
  BY <1>1
<1>4. DOMAIN hooks' = CoHooks /\ \A g \in CoHooks : g # h => hooks'[g] = hooks[g]
  BY <1>1
<1> QED
  BY <1>2, <1>3, <1>4 DEF CoFields

CoSame(k) == Co!Get(store', k) = Co!Get(store, k) /\ (Co!Has(store', k) <=> Co!Has(store, k))

(* From where a hook goes on, what it takes along, writes and sends.       *)
CoFrom(l, t) ==
  /\ t.at = "done" => \/ l.at \in {"resetCount", "preTool", "forgetSpan"} \cup CoFirst
                      \/ l.at = "send" /\ l.kind # "stop"
  /\ t.at # "done" => t.kind = l.kind /\ t.call = l.call
  /\ t.at \notin {"new", "ensure", "preTool"} \cup CoFirst
  /\ t.at = "open" => l.at = "ensure"
  /\ t.at = "openSpan" => l.at = "open"
  /\ t.at = "resetCount" => l.at = "openSpan"
  /\ t.at = "span" => l.at \in CoFirst
  /\ t.at \in {"count", "readCount"} => l.at = "span"
  /\ t.at = "start" => l.at = "count"
  /\ t.at = "dropStart" => l.at = "start"
  /\ t.at = "send" => l.at \in {"dropStart", "readCount"} \/ (l.at = "span" /\ l.kind = "subagentStop")
  /\ t.at = "forget" => l.at = "send" /\ l.kind = "stop"
  /\ t.at = "forgetSpan" => l.at = "forget"

CoVars(h, l, t) ==
  l.kind \in CoReports =>
    /\ l.at \in CoFirst /\ t.at = "done" =>
         ~Co!Has(store, Co!SessionKey) \/ (l.kind = "stop" /\ Co!Get(store, Co!TraceKey) = None)
    /\ t.at # "done" =>
         /\ t.trace = IF l.at \in CoFirst THEN Co!Get(store, Co!TraceKey) ELSE l.trace
         /\ l.at # "span" => t.span = l.span
         /\ l.at = "span" /\ Co!Get(store, Co!SpanKey) # None => t.span = Co!Get(store, Co!SpanKey)
         /\ l.at # "start" => t.start = l.start
         /\ l.at = "start" /\ Co!Get(store, Co!StartKey(l.call)) # None =>
              t.start = Co!Get(store, Co!StartKey(l.call))
         /\ t.count = IF l.at = "readCount" THEN Co!Count ELSE l.count

CoStore(h, l) ==
  /\ CoSame(Co!TraceKey) \/ l.at \in {"open", "forget"}
  /\ l.at = "open" => Co!Get(store', Co!TraceKey) = h
  /\ CoSame(Co!SpanKey) \/ l.at \in {"openSpan", "forgetSpan"}
  /\ l.at = "openSpan" => Co!Get(store', Co!SpanKey) = h
  /\ Co!Has(store, Co!SessionKey) => Co!Has(store', Co!SessionKey)
  /\ l.at = "ensure" => Co!Has(store', Co!SessionKey)
  /\ Co!Count' = IF l.at = "resetCount" THEN 0 ELSE IF l.at = "count" THEN Co!Count + 1 ELSE Co!Count
  /\ ~world.named => \A c : \/ CoSame(Co!StartKey(c))
                            \/ l.at = "preTool" /\ c = h
                            \/ l.at = "dropStart" /\ c = l.call
  /\ l.at = "preTool" => Co!Get(store', Co!StartKey(h)) = h

CoSends(h, l) ==
  IF l.at = "send"
  THEN sent' = Append(sent, [what |-> l.kind, by |-> h, trace |-> l.trace, span |-> l.span,
                             call |-> l.call, start |-> l.start, count |-> l.count])
  ELSE sent' = sent

(* A step of hook h that is neither its begin nor its death.               *)
CoMove(h) ==
  /\ DOMAIN hooks' = CoHooks /\ (\A g \in CoHooks : g # h => hooks'[g] = hooks[g])
  /\ world' = world /\ Co!Running(h) /\ CoPlaced(hooks'[h])
  /\ CoFrom(hooks[h], hooks'[h]) /\ CoVars(h, hooks[h], hooks'[h])
  /\ CoStore(h, hooks[h]) /\ CoSends(h, hooks[h])

LEMMA CoMoves ==
  ASSUME CoLog, NEW h \in CoHooks, Co!Step(h), ~Co!Fire(h), ~Co!Crash(h)
  PROVE  CoMove(h)
<1> DEFINE l == hooks[h]
           t == hooks'[h]
<1> USE DEF Co!Local, Co!Keeps, Co!Writes, Co!Sends
<1>l. CoPlaced(l) /\ DOMAIN l = CoFields /\ DOMAIN hooks = CoHooks
  BY DEF CoLog, CoPlaced
<1>g. ASSUME NEW s, NEW k, Co!Goto(h, s, k), DOMAIN k = CoFields
      PROVE  /\ DOMAIN hooks' = CoHooks /\ (\A g \in CoHooks : g # h => hooks'[g] = hooks[g])
             /\ DOMAIN t = CoFields /\ t.at = s
             /\ s # "done" => /\ t.kind = k.kind /\ t.call = k.call /\ t.trace = k.trace
                              /\ t.span = k.span /\ t.start = k.start /\ t.count = k.count
  BY <1>g, <1>l, CoGoto
<1>k. /\ Co!TraceKey # Co!SpanKey /\ Co!TraceKey # Co!SessionKey /\ Co!SpanKey # Co!SessionKey
      /\ Co!CountKey # Co!TraceKey /\ Co!CountKey # Co!SpanKey /\ Co!CountKey # Co!SessionKey
      /\ \A c : /\ Co!StartKey(c) # Co!TraceKey /\ Co!StartKey(c) # Co!SpanKey
                /\ Co!StartKey(c) # Co!SessionKey /\ Co!StartKey(c) # Co!CountKey
      /\ ~world.named => \A c, d : Co!StartKey(c) = Co!StartKey(d) => c = d
  BY CoKeys
<1>c. CoSame(Co!CountKey) => Co!Count' = Co!Count
  BY DEF CoSame, Co!Count, Co!Get, Co!Has, Co!CountKey
<1>s. CoSame(Co!SessionKey) => (Co!Has(store, Co!SessionKey) => Co!Has(store', Co!SessionKey))
  BY DEF CoSame
<1>n. store' = store => (\A k : CoSame(k)) /\ Co!Count' = Co!Count
  BY <1>c DEF CoSame
<1>p. ASSUME NEW k, NEW v, store' = Co!Put(store, k, v)
      PROVE  /\ Co!Get(store', k) = v /\ Co!Has(store', k) /\ (\A x : x # k => CoSame(x))
             /\ k = Co!CountKey => Co!Count' = v
  <2>1. Co!Get(store', k) = v /\ Co!Has(store', k) /\ \A x : x # k => CoSame(x)
    BY <1>p, CoPut DEF CoSame
  <2> QED
    BY <2>1 DEF Co!Count, Co!Get, Co!Has, Co!CountKey
<1>d. ASSUME NEW k, store' = Co!Drop(store, {k})
      PROVE  \A x : x # k => CoSame(x)
  BY <1>d, CoDrop DEF CoSame
<1> HIDE DEF t
<1>1. CASE Co!Ensure(h)
  <2>1. /\ l.at = "ensure" /\ world' = world /\ sent' = sent /\ Co!Goto(h, "open", l)
        /\ store' = store \/ store' = Co!Put(store, Co!SessionKey, h)
        /\ Co!Has(store, Co!SessionKey) => store' = store
        /\ ~Co!Has(store, Co!SessionKey) => store' = Co!Put(store, Co!SessionKey, h)
    BY <1>1 DEF Co!Ensure
  <2> HIDE DEF l
  <2>2. CoStore(h, l)
    BY <2>1, <1>n, <1>p, <1>c, <1>k DEF CoStore
  <2>3. CoPlaced(t) /\ CoFrom(l, t)
    BY <2>1, <1>g, <1>l DEF CoPlaced, CoFrom, CoEnd, CoReports, CoFirst
  <2>4. CoVars(h, l, t)
    BY <2>1, <1>l DEF CoVars, CoPlaced, CoEnd, CoReports
  <2>5. CoSends(h, l)
    BY <2>1 DEF CoSends
  <2> QED
    BY <2>1, <2>2, <2>3, <2>4, <2>5, <1>l, <1>g DEF Co!Running, CoMove, l, t
<1>2. CASE Co!Open(h)
  <2>1. /\ l.at = "open" /\ world' = world /\ sent' = sent
        /\ store' = Co!Put(store, Co!TraceKey, h)
        /\ Co!Goto(h, "openSpan", l)
    BY <1>2 DEF Co!Open
  <2> HIDE DEF l
  <2>2. CoStore(h, l)
    <3>1. Co!Get(store', Co!TraceKey) = h /\ \A x : x # Co!TraceKey => CoSame(x)
      BY <2>1, <1>p
    <3>2. /\ CoSame(Co!SpanKey)
          /\ CoSame(Co!CountKey)
          /\ CoSame(Co!SessionKey)
          /\ \A c : CoSame(Co!StartKey(c))
      BY <3>1, <1>k
    <3> QED
      BY <2>1, <3>1, <3>2, <1>c, <1>s DEF CoStore
  <2>3. CoPlaced(t) /\ CoFrom(l, t)
    BY <2>1, <1>g, <1>l DEF CoPlaced, CoFrom, CoEnd, CoReports, CoFirst
  <2>4. CoVars(h, l, t)
    BY <2>1, <1>g, <1>l DEF CoVars, CoPlaced, CoEnd, CoReports, CoFirst
  <2>5. CoSends(h, l)
    BY <2>1 DEF CoSends
  <2> QED
    BY <2>1, <2>2, <2>3, <2>4, <2>5, <1>g, <1>l DEF Co!Running, CoMove, l, t
<1>3. CASE Co!OpenSpan(h)
  <2>1. /\ l.at = "openSpan" /\ world' = world /\ sent' = sent
        /\ store' = Co!Put(store, Co!SpanKey, h)
        /\ Co!Goto(h, "resetCount", l)
    BY <1>3 DEF Co!OpenSpan
  <2> HIDE DEF l
  <2>2. CoStore(h, l)
    <3>1. Co!Get(store', Co!SpanKey) = h /\ \A x : x # Co!SpanKey => CoSame(x)
      BY <2>1, <1>p
    <3>2. /\ CoSame(Co!TraceKey)
          /\ CoSame(Co!CountKey)
          /\ CoSame(Co!SessionKey)
          /\ \A c : CoSame(Co!StartKey(c))
      BY <3>1, <1>k
    <3> QED
      BY <2>1, <3>1, <3>2, <1>c, <1>s DEF CoStore
  <2>3. CoPlaced(t) /\ CoFrom(l, t)
    BY <2>1, <1>g, <1>l DEF CoPlaced, CoFrom, CoEnd, CoReports, CoFirst
  <2>4. CoVars(h, l, t)
    BY <2>1, <1>g, <1>l DEF CoVars, CoPlaced, CoEnd, CoReports, CoFirst
  <2>5. CoSends(h, l)
    BY <2>1 DEF CoSends
  <2> QED
    BY <2>1, <2>2, <2>3, <2>4, <2>5, <1>g, <1>l DEF Co!Running, CoMove, l, t
<1>4. CASE Co!ResetCount(h)
  <2>1. /\ l.at = "resetCount" /\ world' = world /\ sent' = sent
        /\ store' = Co!Put(store, Co!CountKey, 0)
        /\ Co!Goto(h, "done", l)
    BY <1>4 DEF Co!ResetCount
  <2> HIDE DEF l
  <2>2. CoStore(h, l)
    <3>1. Co!Count' = 0 /\ \A x : x # Co!CountKey => CoSame(x)
      BY <2>1, <1>p
    <3>2. /\ CoSame(Co!TraceKey)
          /\ CoSame(Co!SpanKey)
          /\ CoSame(Co!SessionKey)
          /\ \A c : CoSame(Co!StartKey(c))
      BY <3>1, <1>k
    <3> QED
      BY <2>1, <3>1, <3>2, <1>c, <1>s DEF CoStore
  <2>3. CoPlaced(t) /\ CoFrom(l, t)
    BY <2>1, <1>g, <1>l DEF CoPlaced, CoFrom, CoEnd, CoReports, CoFirst
  <2>4. CoVars(h, l, t)
    BY <2>1, <1>g, <1>l DEF CoVars, CoPlaced, CoEnd, CoReports, CoFirst
  <2>5. CoSends(h, l)
    BY <2>1 DEF CoSends
  <2> QED
    BY <2>1, <2>2, <2>3, <2>4, <2>5, <1>g, <1>l DEF Co!Running, CoMove, l, t
<1>5. CASE Co!PreTool(h)
  <2>1. /\ l.at = "preTool" /\ world' = world /\ sent' = sent
        /\ store' = Co!Put(store, Co!StartKey(h), h)
        /\ Co!Goto(h, "done", l)
    BY <1>5 DEF Co!PreTool
  <2> HIDE DEF l
  <2>2. CoStore(h, l)
    <3>1. Co!Get(store', Co!StartKey(h)) = h /\ \A x : x # Co!StartKey(h) => CoSame(x)
      BY <2>1, <1>p
    <3>2. /\ CoSame(Co!TraceKey)
          /\ CoSame(Co!SpanKey)
          /\ CoSame(Co!CountKey)
          /\ CoSame(Co!SessionKey)
          /\ ~world.named => \A c : c # h => CoSame(Co!StartKey(c))
      BY <3>1, <1>k
    <3> QED
      BY <2>1, <3>1, <3>2, <1>c, <1>s DEF CoStore
  <2>3. CoPlaced(t) /\ CoFrom(l, t)
    BY <2>1, <1>g, <1>l DEF CoPlaced, CoFrom, CoEnd, CoReports, CoFirst
  <2>4. CoVars(h, l, t)
    BY <2>1, <1>g, <1>l DEF CoVars, CoPlaced, CoEnd, CoReports, CoFirst
  <2>5. CoSends(h, l)
    BY <2>1 DEF CoSends
  <2> QED
    BY <2>1, <2>2, <2>3, <2>4, <2>5, <1>g, <1>l DEF Co!Running, CoMove, l, t
<1>6. CASE Co!ReadTrace(h)
  <2>1. /\ l.at \in {"postTool", "stop", "subagentStop"} /\ world' = world /\ sent' = sent
        /\ store' = store
        /\ Co!Goto(h, IF ~Co!Has(store, Co!SessionKey) \/ (l.kind = "stop" /\ Co!Get(store, Co!TraceKey) = None) THEN "done" ELSE "span", [l EXCEPT !.trace = Co!Get(store, Co!TraceKey)])
    BY <1>6 DEF Co!ReadTrace
  <2> HIDE DEF l
  <2>2. CoStore(h, l)
    BY <2>1, <1>n, <1>p, <1>d, <1>c, <1>k DEF CoStore
  <2>g. /\ DOMAIN hooks' = CoHooks /\ (\A g \in CoHooks : g # h => hooks'[g] = hooks[g])
        /\ DOMAIN t = CoFields /\ t.at = (IF ~Co!Has(store, Co!SessionKey) \/ (l.kind = "stop" /\ Co!Get(store, Co!TraceKey) = None) THEN "done" ELSE "span")
        /\ t.at # "done" => /\ t.kind = l.kind /\ t.call = l.call /\ t.trace = (Co!Get(store, Co!TraceKey))
                            /\ t.span = l.span /\ t.start = l.start /\ t.count = l.count
    <3> DEFINE k == [l EXCEPT !.trace = Co!Get(store, Co!TraceKey)]
    <3>1. /\ DOMAIN k = CoFields
          /\ k.kind = l.kind /\ k.call = l.call /\ k.trace = (Co!Get(store, Co!TraceKey))
          /\ k.span = l.span /\ k.start = l.start /\ k.count = l.count
      BY <1>l DEF CoFields
    <3>2. Co!Goto(h, IF ~Co!Has(store, Co!SessionKey) \/ (l.kind = "stop" /\ Co!Get(store, Co!TraceKey) = None) THEN "done" ELSE "span", k)
      BY <2>1
    <3> HIDE DEF k
    <3> QED
      BY <3>1, <3>2, <1>g
  <2>3. CoPlaced(t) /\ CoFrom(l, t)
    BY <2>1, <2>g, <1>l DEF CoPlaced, CoFrom, CoEnd, CoReports, CoFirst
  <2>4. CoVars(h, l, t)
    BY <2>1, <2>g, <1>l DEF CoVars, CoPlaced, CoEnd, CoReports, CoFirst
  <2>5. CoSends(h, l)
    BY <2>1 DEF CoSends
  <2> QED
    BY <2>1, <2>2, <2>3, <2>4, <2>5, <2>g, <1>l DEF Co!Running, CoMove, l, t
<1>7. CASE Co!ReadSpan(h)
  <2>1. /\ l.at = "span" /\ world' = world /\ sent' = sent /\ store' = store
        /\ LET s == Co!Get(store, Co!SpanKey) IN
           CASE l.kind = "postTool" -> Co!Goto(h, "count", [l EXCEPT !.span = s])
             [] l.kind = "stop" -> Co!Goto(h, "readCount", [l EXCEPT !.span = IF s = None THEN h ELSE s])
             [] l.kind = "subagentStop" ->
                  Co!Goto(h, "send", [l EXCEPT !.span = s, !.trace = IF l.trace = None THEN h ELSE l.trace])
    BY <1>7, <1>l DEF Co!ReadSpan, CoFields
  <2> HIDE DEF l
  <2>2. CoStore(h, l)
    BY <2>1, <1>n DEF CoStore
  <2>3. CoSends(h, l) /\ l.kind \in {"postTool", "stop", "subagentStop"}
    BY <2>1, <1>l DEF CoSends, CoPlaced, CoReports, CoEnd
  <2>4. CASE l.kind = "postTool"
    <3> DEFINE k == [l EXCEPT !.span = Co!Get(store, Co!SpanKey)]
    <3>1. /\ DOMAIN k = CoFields
          /\ k.kind = l.kind /\ k.call = l.call /\ k.trace = l.trace
          /\ k.span = (Co!Get(store, Co!SpanKey)) /\ k.start = l.start /\ k.count = l.count
      BY <1>l DEF CoFields, l
    <3>2. Co!Goto(h, "count", k)
      BY <2>1, <2>4
    <3> HIDE DEF k
    <3>3. /\ DOMAIN hooks' = CoHooks /\ (\A g \in CoHooks : g # h => hooks'[g] = hooks[g])
          /\ DOMAIN t = CoFields /\ t.at = "count"
          /\ t.kind = l.kind /\ t.call = l.call /\ t.trace = l.trace
          /\ t.span = (Co!Get(store, Co!SpanKey)) /\ t.start = l.start /\ t.count = l.count
      BY <3>1, <3>2, <1>g
    <3>4. CoPlaced(t) /\ CoFrom(l, t)
      BY <2>1, <2>4, <3>3 DEF CoPlaced, CoFrom, CoEnd, CoReports, CoFirst
    <3>5. CoVars(h, l, t)
      BY <2>1, <2>4, <3>3 DEF CoVars, CoReports, CoFirst
    <3> QED
      BY <2>1, <2>2, <2>3, <3>3, <3>4, <3>5, <1>l DEF Co!Running, CoMove, l, t
  <2>5. CASE l.kind = "stop"
    <3> DEFINE k == [l EXCEPT !.span = IF Co!Get(store, Co!SpanKey) = None THEN h ELSE Co!Get(store, Co!SpanKey)]
    <3>1. /\ DOMAIN k = CoFields
          /\ k.kind = l.kind /\ k.call = l.call /\ k.trace = l.trace
          /\ k.span = (IF Co!Get(store, Co!SpanKey) = None THEN h ELSE Co!Get(store, Co!SpanKey)) /\ k.start = l.start /\ k.count = l.count
      BY <1>l DEF CoFields, l
    <3>2. Co!Goto(h, "readCount", k)
      BY <2>1, <2>5
    <3> HIDE DEF k
    <3>3. /\ DOMAIN hooks' = CoHooks /\ (\A g \in CoHooks : g # h => hooks'[g] = hooks[g])
          /\ DOMAIN t = CoFields /\ t.at = "readCount"
          /\ t.kind = l.kind /\ t.call = l.call /\ t.trace = l.trace
          /\ t.span = (IF Co!Get(store, Co!SpanKey) = None THEN h ELSE Co!Get(store, Co!SpanKey)) /\ t.start = l.start /\ t.count = l.count
      BY <3>1, <3>2, <1>g
    <3>4. CoPlaced(t) /\ CoFrom(l, t)
      BY <2>1, <2>5, <3>3 DEF CoPlaced, CoFrom, CoEnd, CoReports, CoFirst
    <3>5. CoVars(h, l, t)
      BY <2>1, <2>5, <3>3 DEF CoVars, CoReports, CoFirst
    <3> QED
      BY <2>1, <2>2, <2>3, <3>3, <3>4, <3>5, <1>l DEF Co!Running, CoMove, l, t
  <2>6. CASE l.kind = "subagentStop"
    <3> DEFINE k == [l EXCEPT !.span = Co!Get(store, Co!SpanKey), !.trace = IF l.trace = None THEN h ELSE l.trace]
    <3>1. /\ DOMAIN k = CoFields
          /\ k.kind = l.kind /\ k.call = l.call /\ k.trace = (IF l.trace = None THEN h ELSE l.trace)
          /\ k.span = (Co!Get(store, Co!SpanKey)) /\ k.start = l.start /\ k.count = l.count
      BY <1>l DEF CoFields, l
    <3>2. Co!Goto(h, "send", k)
      BY <2>1, <2>6
    <3> HIDE DEF k
    <3>3. /\ DOMAIN hooks' = CoHooks /\ (\A g \in CoHooks : g # h => hooks'[g] = hooks[g])
          /\ DOMAIN t = CoFields /\ t.at = "send"
          /\ t.kind = l.kind /\ t.call = l.call /\ t.trace = (IF l.trace = None THEN h ELSE l.trace)
          /\ t.span = (Co!Get(store, Co!SpanKey)) /\ t.start = l.start /\ t.count = l.count
      BY <3>1, <3>2, <1>g
    <3>4. CoPlaced(t) /\ CoFrom(l, t)
      BY <2>1, <2>6, <3>3 DEF CoPlaced, CoFrom, CoEnd, CoReports, CoFirst
    <3>5. CoVars(h, l, t)
      BY <2>1, <2>6, <3>3 DEF CoVars, CoReports, CoFirst
    <3> QED
      BY <2>1, <2>2, <2>3, <3>3, <3>4, <3>5, <1>l DEF Co!Running, CoMove, l, t
  <2> QED
    BY <2>3, <2>4, <2>5, <2>6
<1>8. CASE Co!Increment(h)
  <2>1. /\ l.at = "count" /\ world' = world /\ sent' = sent
        /\ store' = Co!Put(store, Co!CountKey, Co!Count + 1)
        /\ Co!Goto(h, "start", l)
    BY <1>8 DEF Co!Increment
  <2> HIDE DEF l
  <2>2. CoStore(h, l)
    <3>1. Co!Count' = Co!Count + 1 /\ \A x : x # Co!CountKey => CoSame(x)
      BY <2>1, <1>p
    <3>2. /\ CoSame(Co!TraceKey)
          /\ CoSame(Co!SpanKey)
          /\ CoSame(Co!SessionKey)
          /\ \A c : CoSame(Co!StartKey(c))
      BY <3>1, <1>k
    <3> QED
      BY <2>1, <3>1, <3>2, <1>c, <1>s DEF CoStore
  <2>3. CoPlaced(t) /\ CoFrom(l, t)
    BY <2>1, <1>g, <1>l DEF CoPlaced, CoFrom, CoEnd, CoReports, CoFirst
  <2>4. CoVars(h, l, t)
    BY <2>1, <1>g, <1>l DEF CoVars, CoPlaced, CoEnd, CoReports, CoFirst
  <2>5. CoSends(h, l)
    BY <2>1 DEF CoSends
  <2> QED
    BY <2>1, <2>2, <2>3, <2>4, <2>5, <1>g, <1>l DEF Co!Running, CoMove, l, t
<1>9. CASE Co!ReadStart(h)
  <2>1. /\ l.at = "start" /\ world' = world /\ sent' = sent
        /\ store' = store
        /\ Co!Goto(h, "dropStart", [l EXCEPT !.start = IF Co!Get(store, Co!StartKey(l.call)) = None THEN h ELSE Co!Get(store, Co!StartKey(l.call))])
    BY <1>9 DEF Co!ReadStart
  <2> HIDE DEF l
  <2>2. CoStore(h, l)
    BY <2>1, <1>n, <1>p, <1>d, <1>c, <1>k DEF CoStore
  <2>g. /\ DOMAIN hooks' = CoHooks /\ (\A g \in CoHooks : g # h => hooks'[g] = hooks[g])
        /\ DOMAIN t = CoFields /\ t.at = ("dropStart")
        /\ t.at # "done" => /\ t.kind = l.kind /\ t.call = l.call /\ t.trace = l.trace
                            /\ t.span = l.span /\ t.start = (IF Co!Get(store, Co!StartKey(l.call)) = None THEN h ELSE Co!Get(store, Co!StartKey(l.call))) /\ t.count = l.count
    <3> DEFINE k == [l EXCEPT !.start = IF Co!Get(store, Co!StartKey(l.call)) = None THEN h ELSE Co!Get(store, Co!StartKey(l.call))]
    <3>1. /\ DOMAIN k = CoFields
          /\ k.kind = l.kind /\ k.call = l.call /\ k.trace = l.trace
          /\ k.span = l.span /\ k.start = (IF Co!Get(store, Co!StartKey(l.call)) = None THEN h ELSE Co!Get(store, Co!StartKey(l.call))) /\ k.count = l.count
      BY <1>l DEF CoFields
    <3>2. Co!Goto(h, "dropStart", k)
      BY <2>1
    <3> HIDE DEF k
    <3> QED
      BY <3>1, <3>2, <1>g
  <2>3. CoPlaced(t) /\ CoFrom(l, t)
    BY <2>1, <2>g, <1>l DEF CoPlaced, CoFrom, CoEnd, CoReports, CoFirst
  <2>4. CoVars(h, l, t)
    BY <2>1, <2>g, <1>l DEF CoVars, CoPlaced, CoEnd, CoReports, CoFirst
  <2>5. CoSends(h, l)
    BY <2>1 DEF CoSends
  <2> QED
    BY <2>1, <2>2, <2>3, <2>4, <2>5, <2>g, <1>l DEF Co!Running, CoMove, l, t
<1>10. CASE Co!DropStart(h)
  <2>1. /\ l.at = "dropStart" /\ world' = world /\ sent' = sent
        /\ store' = Co!Drop(store, {Co!StartKey(l.call)})
        /\ Co!Goto(h, "send", l)
    BY <1>10 DEF Co!DropStart
  <2> HIDE DEF l
  <2>2. CoStore(h, l)
    <3>1. \A x : x # Co!StartKey(l.call) => CoSame(x)
      BY <2>1, <1>d
    <3>2. /\ CoSame(Co!TraceKey)
          /\ CoSame(Co!SpanKey)
          /\ CoSame(Co!CountKey)
          /\ CoSame(Co!SessionKey)
          /\ ~world.named => \A c : c # l.call => CoSame(Co!StartKey(c))
      BY <3>1, <1>k
    <3> QED
      BY <2>1, <3>1, <3>2, <1>c, <1>s DEF CoStore
  <2>3. CoPlaced(t) /\ CoFrom(l, t)
    BY <2>1, <1>g, <1>l DEF CoPlaced, CoFrom, CoEnd, CoReports, CoFirst
  <2>4. CoVars(h, l, t)
    BY <2>1, <1>g, <1>l DEF CoVars, CoPlaced, CoEnd, CoReports, CoFirst
  <2>5. CoSends(h, l)
    BY <2>1 DEF CoSends
  <2> QED
    BY <2>1, <2>2, <2>3, <2>4, <2>5, <1>g, <1>l DEF Co!Running, CoMove, l, t
<1>11. CASE Co!ReadCount(h)
  <2>1. /\ l.at = "readCount" /\ world' = world /\ sent' = sent
        /\ store' = store
        /\ Co!Goto(h, "send", [l EXCEPT !.count = Co!Count])
    BY <1>11 DEF Co!ReadCount
  <2> HIDE DEF l
  <2>2. CoStore(h, l)
    BY <2>1, <1>n, <1>p, <1>d, <1>c, <1>k DEF CoStore
  <2>g. /\ DOMAIN hooks' = CoHooks /\ (\A g \in CoHooks : g # h => hooks'[g] = hooks[g])
        /\ DOMAIN t = CoFields /\ t.at = ("send")
        /\ t.at # "done" => /\ t.kind = l.kind /\ t.call = l.call /\ t.trace = l.trace
                            /\ t.span = l.span /\ t.start = l.start /\ t.count = (Co!Count)
    <3> DEFINE k == [l EXCEPT !.count = Co!Count]
    <3>1. /\ DOMAIN k = CoFields
          /\ k.kind = l.kind /\ k.call = l.call /\ k.trace = l.trace
          /\ k.span = l.span /\ k.start = l.start /\ k.count = (Co!Count)
      BY <1>l DEF CoFields
    <3>2. Co!Goto(h, "send", k)
      BY <2>1
    <3> HIDE DEF k
    <3> QED
      BY <3>1, <3>2, <1>g
  <2>3. CoPlaced(t) /\ CoFrom(l, t)
    BY <2>1, <2>g, <1>l DEF CoPlaced, CoFrom, CoEnd, CoReports, CoFirst
  <2>4. CoVars(h, l, t)
    BY <2>1, <2>g, <1>l DEF CoVars, CoPlaced, CoEnd, CoReports, CoFirst
  <2>5. CoSends(h, l)
    BY <2>1 DEF CoSends
  <2> QED
    BY <2>1, <2>2, <2>3, <2>4, <2>5, <2>g, <1>l DEF Co!Running, CoMove, l, t
<1>12. CASE Co!Send(h)
  <2>1. /\ l.at = "send" /\ world' = world /\ CoSends(h, l)
        /\ store' = store
        /\ Co!Goto(h, IF l.kind = "stop" THEN "forget" ELSE "done", l)
    BY <1>12 DEF Co!Send, CoSends
  <2> HIDE DEF l
  <2>2. CoStore(h, l)
    BY <2>1, <1>n, <1>p, <1>d, <1>c, <1>k DEF CoStore
  <2>3. CoPlaced(t) /\ CoFrom(l, t)
    BY <2>1, <1>g, <1>l DEF CoPlaced, CoFrom, CoEnd, CoReports, CoFirst
  <2>4. CoVars(h, l, t)
    BY <2>1, <1>g, <1>l DEF CoVars, CoPlaced, CoEnd, CoReports, CoFirst
  <2>5. CoSends(h, l)
    BY <2>1 DEF CoSends
  <2> QED
    BY <2>1, <2>2, <2>3, <2>4, <2>5, <1>g, <1>l DEF Co!Running, CoMove, l, t
<1>13. CASE Co!Forget(h)
  <2>1. /\ l.at = "forget" /\ world' = world /\ sent' = sent
        /\ store' = Co!Drop(store, {Co!TraceKey})
        /\ Co!Goto(h, "forgetSpan", l)
    BY <1>13 DEF Co!Forget
  <2> HIDE DEF l
  <2>2. CoStore(h, l)
    <3>1. \A x : x # Co!TraceKey => CoSame(x)
      BY <2>1, <1>d
    <3>2. /\ CoSame(Co!SpanKey)
          /\ CoSame(Co!CountKey)
          /\ CoSame(Co!SessionKey)
          /\ \A c : CoSame(Co!StartKey(c))
      BY <3>1, <1>k
    <3> QED
      BY <2>1, <3>1, <3>2, <1>c, <1>s DEF CoStore
  <2>3. CoPlaced(t) /\ CoFrom(l, t)
    BY <2>1, <1>g, <1>l DEF CoPlaced, CoFrom, CoEnd, CoReports, CoFirst
  <2>4. CoVars(h, l, t)
    BY <2>1, <1>g, <1>l DEF CoVars, CoPlaced, CoEnd, CoReports, CoFirst
  <2>5. CoSends(h, l)
    BY <2>1 DEF CoSends
  <2> QED
    BY <2>1, <2>2, <2>3, <2>4, <2>5, <1>g, <1>l DEF Co!Running, CoMove, l, t
<1>14. CASE Co!ForgetSpan(h)
  <2>1. /\ l.at = "forgetSpan" /\ world' = world /\ sent' = sent
        /\ store' = Co!Drop(store, {Co!SpanKey})
        /\ Co!Goto(h, "done", l)
    BY <1>14 DEF Co!ForgetSpan
  <2> HIDE DEF l
  <2>2. CoStore(h, l)
    <3>1. \A x : x # Co!SpanKey => CoSame(x)
      BY <2>1, <1>d
    <3>2. /\ CoSame(Co!TraceKey)
          /\ CoSame(Co!CountKey)
          /\ CoSame(Co!SessionKey)
          /\ \A c : CoSame(Co!StartKey(c))
      BY <3>1, <1>k
    <3> QED
      BY <2>1, <3>1, <3>2, <1>c, <1>s DEF CoStore
  <2>3. CoPlaced(t) /\ CoFrom(l, t)
    BY <2>1, <1>g, <1>l DEF CoPlaced, CoFrom, CoEnd, CoReports, CoFirst
  <2>4. CoVars(h, l, t)
    BY <2>1, <1>g, <1>l DEF CoVars, CoPlaced, CoEnd, CoReports, CoFirst
  <2>5. CoSends(h, l)
    BY <2>1 DEF CoSends
  <2> QED
    BY <2>1, <2>2, <2>3, <2>4, <2>5, <1>g, <1>l DEF Co!Running, CoMove, l, t
<1> QED
  BY <1>1, <1>2, <1>3, <1>4, <1>5, <1>6, <1>7, <1>8, <1>9, <1>10, <1>11, <1>12, <1>13, <1>14 DEF Co!Step

(* A hook begins with an event of kind k, about call c.                    *)
CoBegin(h, k, c) ==
  /\ hooks[h].at = "new" /\ DOMAIN hooks' = CoHooks /\ (\A g \in CoHooks : g # h => hooks'[g] = hooks[g])
  /\ DOMAIN hooks'[h] = CoFields /\ hooks'[h].at = (IF k = "prompt" THEN "ensure" ELSE k)
  /\ hooks'[h].kind = k /\ hooks'[h].call = c
  /\ k \in Co!Kinds /\ c \in CoHooks \cup {None}
  /\ k \in KiTools \cup {"stop"} => Co!InTurn
  /\ k = "preTool" => c = h
  /\ k = "postTool" => c \in Co!OpenCalls
  /\ k \notin KiTools => c = None
  /\ Co!MayStart(k, c)
  /\ store' = store /\ sent' = sent
  /\ DOMAIN world' = DOMAIN world /\ world'.named = world.named /\ world'.died = world.died
  /\ world'.log = Append(world.log, [kind |-> k, by |-> h, call |-> c])

LEMMA CoBegins ==
  ASSUME CoLog, NEW h \in CoHooks, Co!Fire(h)
  PROVE  \E k, c : CoBegin(h, k, c)
<1>1. PICK k \in Co!Kinds, c \in CoHooks \cup {None} :
        /\ Co!MayStart(k, c)
        /\ k \in {"preTool", "postTool", "stop"} => Co!InTurn
        /\ CASE k = "preTool" -> c = h
             [] k = "postTool" -> c \in Co!OpenCalls
             [] OTHER -> c = None
        /\ Co!Goto(h, IF k = "prompt" THEN "ensure" ELSE k, [Co!Unborn EXCEPT !.kind = k, !.call = c])
        /\ world' = [world EXCEPT !.log = Append(@, [kind |-> k, by |-> h, call |-> c])]
  BY DEF Co!Fire, CoHooks
<1> DEFINE l == [Co!Unborn EXCEPT !.kind = k, !.call = c]
           s == IF k = "prompt" THEN "ensure" ELSE k
<1>2. DOMAIN l = CoFields /\ l.kind = k /\ l.call = c
  BY DEF Co!Unborn, CoFields
<1>3. Co!Goto(h, s, l) /\ DOMAIN hooks = CoHooks /\ s # "done"
  BY <1>1 DEF CoLog, Co!Kinds
<1> HIDE DEF l
<1>4. /\ DOMAIN hooks' = CoHooks /\ (\A g \in CoHooks : g # h => hooks'[g] = hooks[g])
      /\ DOMAIN hooks'[h] = CoFields /\ hooks'[h].at = s /\ hooks'[h].kind = k /\ hooks'[h].call = c
  BY <1>2, <1>3, CoGoto
<1>5. /\ DOMAIN world' = DOMAIN world /\ world'.named = world.named /\ world'.died = world.died
      /\ world'.log = Append(world.log, [kind |-> k, by |-> h, call |-> c])
  BY <1>1 DEF CoLog
<1>6. hooks[h].at = "new" /\ store' = store /\ sent' = sent
  BY DEF Co!Fire
<1>7. /\ k = "preTool" => c = h
      /\ k = "postTool" => c \in Co!OpenCalls
      /\ k \notin KiTools => c = None
  BY <1>1 DEF KiTools
<1>8. k \in KiTools \cup {"stop"} => Co!InTurn
  BY <1>1 DEF KiTools
<1> QED
  BY <1>1, <1>4, <1>5, <1>6, <1>7, <1>8 DEF CoBegin

(* A hook dies.                                                            *)
CoDeath(h) ==
  /\ Co!Running(h) /\ DOMAIN hooks' = CoHooks /\ (\A g \in CoHooks : g # h => hooks'[g] = hooks[g])
  /\ DOMAIN hooks'[h] = CoFields /\ hooks'[h].at = "done"
  /\ store' = store /\ sent' = sent
  /\ DOMAIN world' = DOMAIN world /\ world'.named = world.named /\ world'.log = world.log
  /\ world'.died = world.died \cup {h}

LEMMA CoDeaths ==
  ASSUME CoLog, NEW h \in CoHooks, Co!Crash(h)
  PROVE  CoDeath(h)
<1>1. DOMAIN hooks = CoHooks /\ DOMAIN world = {"named", "died", "log"}
  BY DEF CoLog
<1>2. DOMAIN Co!Ended = CoFields /\ Co!Ended.at = "done"
  BY DEF Co!Ended, Co!Unborn, CoFields
<1>3. hooks' = [hooks EXCEPT ![h] = Co!Ended]
  BY DEF Co!Crash
<1>4. hooks'[h] = Co!Ended /\ DOMAIN hooks' = CoHooks /\ (\A g \in CoHooks : g # h => hooks'[g] = hooks[g])
  BY <1>1, <1>3
<1>5. world' = [world EXCEPT !.died = @ \cup {h}]
  BY DEF Co!Crash
<1>6. /\ DOMAIN world' = DOMAIN world /\ world'.named = world.named /\ world'.log = world.log
      /\ world'.died = world.died \cup {h}
  BY <1>1, <1>5
<1> QED
  BY <1>2, <1>4, <1>6 DEF Co!Crash, CoDeath

(* A step is the begin, the death or a move of a hook.                     *)
LEMMA CoSteps ==
  ASSUME CoLog, NEW h \in CoHooks, Co!Step(h)
  PROVE  CoMove(h) \/ CoDeath(h) \/ \E k, c : CoBegin(h, k, c)
BY CoMoves, CoBegins, CoDeaths

LEMMA CoTurnOf ==
  ASSUME CoLog, NEW p, NEW i \in DOMAIN world.log, TurnOf(p, i)
  PROVE  /\ p \in Nat /\ p \in DOMAIN world.log /\ i \in Nat /\ p <= i /\ world.log[p].kind = "prompt"
         /\ \A q : TurnOf(q, i) => q = p
         /\ Co!PromptOf(i) = p
BY TurnOfEvent DEF CoLog

(* A hook that is running has one event, of its kind and about its call.   *)
LEMMA CoEvent ==
  ASSUME CoLog, NEW h \in CoHooks, Co!Running(h)
  PROVE  \E i \in DOMAIN world.log : /\ world.log[i].by = h /\ world.log[i].kind = hooks[h].kind
                                     /\ world.log[i].call = hooks[h].call
<1>1. PICK i \in DOMAIN world.log : world.log[i].by = h
  BY DEF CoLog, Co!Running
<1> QED
  BY <1>1 DEF CoLog

(* A hook that is running is alone with what comes after its event and     *)
(* with what is running, but for tools and sub-agents, of other calls.     *)
LEMMA CoSolo ==
  ASSUME CoLog, CoAlone, NEW i \in DOMAIN world.log, NEW j \in DOMAIN world.log, i # j,
         Co!Running(world.log[i].by), i < j \/ Co!Running(world.log[j].by)
  PROVE  /\ world.log[i].kind \in Co!Background /\ world.log[j].kind \in Co!Background
         /\ world.log[i].call = world.log[j].call => world.log[i].call = None
<1>1. i \in Nat /\ j \in Nat
  BY AppendAny DEF CoLog
<1> QED
  BY <1>1 DEF CoAlone

(* The events of a turn.                                                   *)
LEMMA CoOwn ==
  ASSUME CoLog, NEW i \in DOMAIN world.log, NEW p, TurnOf(p, i),
         world.log[i].kind \in KiTools \cup {"stop"}
  PROVE  /\ \A s \in EventsOf("stop") : s < i => s < p
         /\ world.log[i].kind = "postTool" =>
              \E j \in DOMAIN world.log :
                /\ p < j /\ j < i /\ world.log[j].kind = "preTool"
                /\ world.log[j].by = world.log[i].call /\ world.log[j].call = world.log[i].call
                /\ world.log[i].call \in CoHooks
<1>1. PICK q \in EventsOf("prompt") :
        /\ TurnOf(q, i) /\ \A s \in EventsOf("stop") : s < i => s < q
        /\ world.log[i].kind = "postTool" =>
             \E j \in EventsOf("preTool") : q < j /\ j < i /\ world.log[j].by = world.log[i].call
  BY DEF CoLog, CoInTurn
<1>2. q = p
  BY <1>1, CoTurnOf
<1> QED
  BY <1>1, <1>2 DEF CoLog, EventsOf

(* While a hook that reports is running, the dict has the ids of its turn. *)
LEMMA CoNow ==
  ASSUME CoLog, CoAlone, CoOpen, NEW i \in DOMAIN world.log, NEW p, TurnOf(p, i),
         CoLived(world.log[p].by), Co!Running(world.log[i].by), world.log[i].kind \in CoReports,
         world.log[i].kind = "stop" => hooks[world.log[i].by].at \in CoUnclosed
  PROVE  /\ Co!Get(store, Co!TraceKey) = world.log[p].by
         /\ Co!Get(store, Co!SpanKey) = world.log[p].by
         /\ Co!Has(store, Co!SessionKey)
<1>1. \A k : EventsOf(k) = {j \in DOMAIN world.log : world.log[j].kind = k}
  BY DEF EventsOf
<1>2. /\ p \in Nat /\ p \in DOMAIN world.log /\ i \in Nat /\ p <= i /\ world.log[p].kind = "prompt"
      /\ \A q : TurnOf(q, i) => q = p
  BY CoTurnOf
<1>3. \A j \in DOMAIN world.log : j \in Nat
  BY AppendAny DEF CoLog
<1>4. \A j \in DOMAIN world.log : i < j => world.log[j].kind \in Co!Background
  BY <1>3, CoSolo
<1>5. \A q \in EventsOf("prompt") : q <= p
  BY <1>1, <1>2, <1>3, <1>4 DEF Co!Background, TurnOf
<1>6. ASSUME NEW s \in EventsOf("stop"), p < s
      PROVE  hooks[world.log[s].by].at \in CoUnclosed
  <2>1. s \in DOMAIN world.log /\ s \in Nat /\ world.log[s].kind = "stop"
    BY <1>1, <1>3, <1>6
  <2>2. ~(i < s)
    BY <1>4, <2>1 DEF Co!Background
  <2>3. ~(s < i)
    BY <1>2, <1>6, <2>1, CoOwn DEF CoReports, KiTools
  <2>4. s = i
    BY <1>2, <2>1, <2>2, <2>3
  <2> QED
    BY <2>1, <2>4
<1>7. p \in EventsOf("prompt")
  BY <1>1, <1>2
<1> QED
  BY <1>5, <1>6, <1>7 DEF CoOpen

(* What a move and a death keep.                                           *)
CoKept(h) ==
  /\ Co!Running(h) /\ DOMAIN hooks' = CoHooks /\ (\A g \in CoHooks : g # h => hooks'[g] = hooks[g])
  /\ hooks'[h].at # "new" /\ (hooks'[h].at # "done" => hooks'[h].kind = hooks[h].kind /\ hooks'[h].call = hooks[h].call)
  /\ CoPlaced(hooks'[h])
  /\ DOMAIN world' = DOMAIN world /\ world'.log = world.log /\ world'.named = world.named
  /\ world.died \subseteq world'.died
  /\ \A g \in CoHooks : g # h => (Co!Running(g)' <=> Co!Running(g)) /\ (CoLived(g)' <=> CoLived(g))
  /\ \A g \in CoHooks : CoLived(g) => g # h
  /\ \A k : EventsOf(k)' = EventsOf(k)
  /\ \A p, i : TurnOf(p, i)' <=> TurnOf(p, i)

LEMMA CoKeeps ==
  ASSUME CoLog, NEW h \in CoHooks, CoMove(h) \/ CoDeath(h)
  PROVE  CoKept(h)
<1>1. /\ Co!Running(h) /\ DOMAIN hooks' = CoHooks /\ (\A g \in CoHooks : g # h => hooks'[g] = hooks[g])
      /\ DOMAIN world' = DOMAIN world /\ world'.log = world.log /\ world'.named = world.named
      /\ (world'.died = world.died \/ world'.died = world.died \cup {h})
  BY DEF CoMove, CoDeath
<1>2. CoPlaced(hooks'[h])
  BY DEF CoMove, CoDeath, CoPlaced
<1>3. /\ hooks'[h].at # "new"
      /\ hooks'[h].at # "done" => hooks'[h].kind = hooks[h].kind /\ hooks'[h].call = hooks[h].call
  BY DEF CoMove, CoDeath, CoFrom
<1>4. \A k : EventsOf(k)' = EventsOf(k)
  BY <1>1 DEF EventsOf
<1>5. \A p, i : TurnOf(p, i)' <=> TurnOf(p, i)
  BY <1>4 DEF TurnOf
<1>6. \A g \in CoHooks : g # h => (Co!Running(g)' <=> Co!Running(g)) /\ (CoLived(g)' <=> CoLived(g))
  BY <1>1 DEF Co!Running, CoLived
<1>7. \A g \in CoHooks : CoLived(g) => g # h
  BY <1>1 DEF Co!Running, CoLived
<1> QED
  BY <1>1, <1>2, <1>3, <1>4, <1>5, <1>6, <1>7 DEF CoKept

LEMMA CoLogKept ==
  ASSUME CoLog, CoAlone, NEW h \in CoHooks, CoMove(h) \/ CoDeath(h)
  PROVE  CoLog' /\ CoAlone'
<1>k. CoKept(h)
  BY CoKeeps
<1>1. CoHooks' = CoHooks
  BY DEF CoHooks
<1>2. \A g \in CoHooks : CoPlaced(hooks'[g])
  BY <1>k DEF CoLog, CoKept
<1>3. world'.died \subseteq {g \in CoHooks : hooks'[g].at = "done"}
  <2>1. h \notin world.died
    BY DEF CoLog, CoMove, CoDeath, Co!Running
  <2>2. \A g \in world.died : g \in CoHooks /\ hooks[g].at = "done"
    BY DEF CoLog
  <2> QED
    BY <2>1, <2>2 DEF CoMove, CoDeath
<1>4. \A g \in CoHooks : hooks'[g].at # "new" => \E i \in DOMAIN world.log : world.log[i].by = g
  BY <1>k DEF CoLog, CoKept, Co!Running
<1>c. \A i : CoInTurn(i)' <=> CoInTurn(i)
  BY <1>k DEF CoKept, CoInTurn
<1>5. ASSUME NEW i \in DOMAIN world.log
      PROVE  LET e == world.log[i]
                 l == hooks'[e.by] IN
             /\ e.by \in CoHooks /\ l.at # "new"
             /\ e.kind = "preTool" => e.call = e.by
             /\ e.kind \notin KiTools => e.call = None
             /\ l.at \notin {"new", "done"} => l.kind = e.kind /\ l.call = e.call
             /\ e.kind \in KiTools \cup {"stop"} => CoInTurn(i)'
  <2> DEFINE e == world.log[i]
  <2>1. /\ e.by \in CoHooks /\ hooks[e.by].at # "new"
        /\ e.kind = "preTool" => e.call = e.by
        /\ e.kind \notin KiTools => e.call = None
        /\ Co!Running(e.by) => hooks[e.by].kind = e.kind /\ hooks[e.by].call = e.call
        /\ e.kind \in KiTools \cup {"stop"} => CoInTurn(i)
    BY DEF CoLog
  <2>2. hooks'[e.by].at # "new"
    BY <1>k, <2>1 DEF CoKept
  <2>3. hooks'[e.by].at \notin {"new", "done"} => hooks'[e.by].kind = e.kind /\ hooks'[e.by].call = e.call
    BY <1>k, <2>1 DEF CoKept, Co!Running
  <2> QED
    BY <1>c, <2>1, <2>2, <2>3
<1>6. CoLog'
  <2>1. world'.log = world.log
    BY <1>k DEF CoKept
  <2>2. /\ None \notin CoHooks /\ DOMAIN hooks' = CoHooks
        /\ DOMAIN world' = {"named", "died", "log"} /\ world'.named \in BOOLEAN
        /\ IsSeq(world.log)
        /\ \A i, j \in DOMAIN world.log : world.log[i].by = world.log[j].by => i = j
        /\ \A i, j \in DOMAIN world.log :
             world.log[i].kind = "postTool" /\ world.log[j].kind = "postTool"
               /\ world.log[i].call = world.log[j].call => i = j
    BY <1>k DEF CoLog, CoKept
  <2> QED
    BY <1>1, <1>2, <1>3, <1>4, <1>5, <2>1, <2>2 DEF CoLog, CoPlaced, CoHooks, IsSeq, Co!Running
<1>7. CoAlone'
  <2>1. \A i \in DOMAIN world.log : hooks'[world.log[i].by].at \notin {"new", "done"} => Co!Running(world.log[i].by)
    BY <1>k DEF CoKept, CoLog, Co!Running
  <2>2. world'.log = world.log
    BY <1>k DEF CoKept
  <2> SUFFICES ASSUME NEW i \in DOMAIN world.log, NEW j \in DOMAIN world.log, i < j,
                      hooks'[world.log[i].by].at \notin {"new", "done"}
               PROVE  /\ {world.log[i].kind, world.log[j].kind} \subseteq Co!Background
                      /\ world.log[j].call # None => world.log[i].call # world.log[j].call
    BY <2>2 DEF CoAlone, Co!Running, Co!Background
  <2> QED
    BY <2>1 DEF CoAlone
<1> QED
  BY <1>6, <1>7

LEMMA CoOpenKept ==
  ASSUME CoLog, CoAlone, CoOpen, NEW h \in CoHooks, CoMove(h) \/ CoDeath(h)
  PROVE  CoOpen'
<1> DEFINE l == hooks[h]
           t == hooks'[h]
           At(g) == hooks'[g].at
           Here(g) == /\ At(g) \in {"open", "openSpan", "resetCount"} => Co!Has(store', Co!SessionKey)
                      /\ At(g) \in {"openSpan", "resetCount"} => Co!Get(store', Co!TraceKey) = g
                      /\ At(g) = "resetCount" => Co!Get(store', Co!SpanKey) = g
           Open(x) == /\ Co!Get(store', Co!TraceKey) = x /\ Co!Get(store', Co!SpanKey) = x
                      /\ Co!Has(store', Co!SessionKey)
<1>k. CoKept(h)
  BY CoKeeps
<1>n. PICK n \in DOMAIN world.log : world.log[n].by = h /\ world.log[n].kind = l.kind
  BY <1>k, CoEvent DEF CoKept
<1>m. \A j \in DOMAIN world.log : j # n /\ (n < j \/ Co!Running(world.log[j].by)) =>
        l.kind \in Co!Background /\ world.log[j].kind \in Co!Background
  BY <1>k, <1>n, CoSolo DEF CoKept
<1>l. /\ CoPlaced(l) /\ \A j \in DOMAIN world.log : j \in Nat /\ world.log[j].by \in CoHooks
      /\ \A i, j \in DOMAIN world.log : world.log[i].by = world.log[j].by => i = j
  BY AppendAny DEF CoLog
<1>e. \A k : EventsOf(k) = {j \in DOMAIN world.log : world.log[j].kind = k}
  BY DEF EventsOf
<1>s. \A k : CoSame(k) => Co!Get(store', k) = Co!Get(store, k)
  BY DEF CoSame
<1>1. ASSUME NEW g \in CoHooks
      PROVE  Here(g)
  <2>1. CASE g = h
    <3>1. CASE At(g) \in {"open", "openSpan", "resetCount"}
      <4>1. CoFrom(l, t) /\ CoStore(h, l)
        BY <2>1, <3>1 DEF CoMove, CoDeath
      <4>2. /\ l.at \in {"open", "openSpan"} => Co!Has(store, Co!SessionKey)
            /\ l.at = "openSpan" => Co!Get(store, Co!TraceKey) = h
        BY DEF CoOpen
      <4> HIDE DEF l, t
      <4>3. /\ t.at = "open" => l.at = "ensure"
            /\ t.at = "openSpan" => l.at = "open"
            /\ t.at = "resetCount" => l.at = "openSpan"
        BY <4>1 DEF CoFrom
      <4>4. l.at \in {"ensure", "open", "openSpan"} => Co!Has(store', Co!SessionKey)
        BY <4>1, <4>2 DEF CoStore
      <4>5. /\ l.at \in {"open", "openSpan"} => Co!Get(store', Co!TraceKey) = h
            /\ l.at = "openSpan" => Co!Get(store', Co!SpanKey) = h
        BY <1>s, <4>1, <4>2 DEF CoStore
      <4> QED
        BY <2>1, <4>3, <4>4, <4>5 DEF t
    <3>2. CASE At(g) \notin {"open", "openSpan", "resetCount"}
      BY <3>2
    <3> QED
      BY <3>1, <3>2
  <2>2. CASE g # h
    <3>1. hooks'[g] = hooks[g]
      BY <1>k, <2>2 DEF CoKept
    <3> SUFFICES ASSUME hooks[g].at \in {"open", "openSpan", "resetCount"}
                 PROVE  FALSE
      BY <3>1
    <3>2. Co!Running(g) /\ hooks[g].kind = "prompt"
      BY DEF Co!Running, CoLog, CoPlaced, CoEnd
    <3>3. PICK j \in DOMAIN world.log : world.log[j].by = g /\ world.log[j].kind = "prompt"
      BY <3>2, CoEvent
    <3> QED
      BY <1>n, <1>m, <2>2, <3>2, <3>3 DEF Co!Background
  <2> QED
    BY <2>1, <2>2
<1>2. ASSUME NEW p \in EventsOf("prompt"), \A q \in EventsOf("prompt") : q <= p,
             CoLived(world.log[p].by)',
             \A s \in EventsOf("stop") : p < s => hooks'[world.log[s].by].at \in CoUnclosed
      PROVE  Open(world.log[p].by)
  <2> DEFINE turn == world.log[p].by
  <2>0. p \in DOMAIN world.log /\ world.log[p].kind = "prompt" /\ turn \in CoHooks /\ p \in Nat /\ n \in Nat
    BY <1>e, <1>l, <1>n
  <2>1. CASE turn = h
    <3>1. n = p /\ l.kind = "prompt"
      BY <1>l, <1>n, <2>0, <2>1
    <3>2. CoMove(h) /\ t.at = "done"
      BY <1>2, <1>k, <2>1 DEF CoDeath, CoLived, CoKept
    <3>3. l.at = "resetCount"
      BY <1>l, <3>1, <3>2 DEF CoMove, CoFrom, CoFirst, CoPlaced, CoEnd, CoReports
    <3>4. Co!Get(store, Co!TraceKey) = h /\ Co!Get(store, Co!SpanKey) = h /\ Co!Has(store, Co!SessionKey)
      BY <3>3 DEF CoOpen
    <3>5. CoStore(h, l)
      BY <3>2 DEF CoMove
    <3> QED
      BY <1>s, <2>1, <3>3, <3>4, <3>5 DEF CoStore
  <2>2. CASE turn # h
    <3>1. CoLived(turn)
      BY <1>2, <1>k, <2>0, <2>2 DEF CoKept, CoLived
    <3>2. \A s \in EventsOf("stop") : p < s => hooks[world.log[s].by].at \in CoUnclosed
      <4> SUFFICES ASSUME NEW s \in EventsOf("stop"), p < s
                   PROVE  hooks[world.log[s].by].at \in CoUnclosed
        OBVIOUS
      <4>1. s \in DOMAIN world.log /\ world.log[s].kind = "stop" /\ world.log[s].by \in CoHooks
        BY <1>e, <1>l
      <4>2. hooks'[world.log[s].by].at \in CoUnclosed
        BY <1>2
      <4>3. CASE world.log[s].by = h
        <5>1. t.at \in CoUnclosed
          BY <4>2, <4>3
        <5>2. l.kind = "stop"
          BY <1>l, <1>n, <4>1, <4>3
        <5>3. CoMove(h)
          BY <5>1 DEF CoDeath, CoUnclosed
        <5> QED
          BY <4>3, <5>1, <5>2, <5>3, <1>l DEF CoMove, CoFrom, CoFirst, CoUnclosed, CoPlaced, CoEnd
      <4>4. CASE world.log[s].by # h
        BY <4>1, <4>2, <4>4, <1>k DEF CoKept
      <4> QED
        BY <4>3, <4>4
    <3>3. /\ Co!Get(store, Co!TraceKey) = turn /\ Co!Get(store, Co!SpanKey) = turn
          /\ Co!Has(store, Co!SessionKey)
      BY <1>2, <3>1, <3>2 DEF CoOpen
    <3>4. n # p
      BY <1>n, <2>2
    <3>5. CASE CoDeath(h)
      BY <3>3, <3>5 DEF CoDeath
    <3>6. CASE CoMove(h)
      <4>1. l.kind # "prompt"
        <5>1. l.kind = "prompt" => n \in EventsOf("prompt")
          BY <1>e, <1>n
        <5> QED
          BY <1>2, <1>m, <2>0, <3>4, <5>1 DEF Co!Background
      <4>2. l.at \notin CoEnd
        <5> SUFFICES ASSUME l.at \in CoEnd
                     PROVE  FALSE
          OBVIOUS
        <5>0. l.kind = "stop"
          BY <1>l DEF CoPlaced, CoEnd
        <5>1. n \in EventsOf("stop")
          BY <1>e, <1>n, <5>0
        <5>2. ~(n < p)
          BY <1>m, <2>0, <3>4 DEF Co!Background
        <5>3. t.at \in CoUnclosed
          BY <1>2, <1>n, <2>0, <3>4, <5>1, <5>2
        <5> QED
          BY <3>6, <5>3 DEF CoMove, CoFrom, CoFirst, CoUnclosed, CoEnd
      <4>3. l.at \notin {"open", "openSpan"}
        BY <1>l, <4>1 DEF CoPlaced, CoEnd
      <4>4. CoStore(h, l)
        BY <3>6 DEF CoMove
      <4> HIDE DEF l
      <4> QED
        BY <1>s, <3>3, <4>2, <4>3, <4>4 DEF CoStore, CoEnd
    <3> QED
      BY <3>5, <3>6
  <2> QED
    BY <2>1, <2>2
<1>3. /\ EventsOf("prompt")' = EventsOf("prompt") /\ EventsOf("stop")' = EventsOf("stop")
      /\ world'.log = world.log /\ CoHooks' = CoHooks
  BY <1>k DEF CoKept, CoHooks
<1> QED
  <2>1. ASSUME NEW p \in EventsOf("prompt")', \A q \in EventsOf("prompt")' : q <= p,
               CoLived(world.log[p].by)',
               \A s \in EventsOf("stop")' : p < s => hooks'[world'.log[s].by].at \in CoUnclosed
        PROVE  Open(world'.log[p].by)
    BY <1>2, <1>3, <2>1
  <2> QED
    BY <1>1, <1>3, <2>1 DEF CoOpen, CoUnclosed, Co!TraceKey, Co!SpanKey, Co!SessionKey, Co!Get, Co!Has

(* The turn of an event was alive when the event came.                     *)
LEMMA CoTurnLives ==
  ASSUME CoLog, CoAlone, NEW h \in CoHooks, CoKept(h),
         NEW i \in DOMAIN world.log, NEW p, TurnOf(p, i), CoLived(world.log[p].by)',
         world.log[i].kind # "prompt"
  PROVE  CoLived(world.log[p].by)
<1> DEFINE turn == world.log[p].by
<1>1. /\ p \in DOMAIN world.log /\ p <= i /\ world.log[p].kind = "prompt" /\ p \in Nat /\ i \in Nat
  BY CoTurnOf
<1>2. turn \in CoHooks
  BY <1>1 DEF CoLog
<1>3. turn # h
  <2> SUFFICES ASSUME turn = h
               PROVE  FALSE
    OBVIOUS
  <2>1. Co!Running(turn) /\ p < i
    BY <1>1 DEF CoKept
  <2> QED
    BY <1>1, <2>1, CoSolo DEF Co!Background
<1>4. CoLived(turn)' <=> CoLived(turn)
  BY <1>2, <1>3 DEF CoKept, CoLived
<1> QED
  BY <1>4

LEMMA CoReadsKept ==
  ASSUME CoLog, CoAlone, CoOpen, CoReads, NEW h \in CoHooks, CoMove(h) \/ CoDeath(h)
  PROVE  CoReads'
<1>k. CoKept(h)
  BY CoKeeps
<1>1. ASSUME NEW i \in DOMAIN world.log, NEW p \in DOMAIN world.log,
             TurnOf(p, i), CoLived(world.log[p].by)', hooks'[world.log[i].by].kind \in CoReports
      PROVE  LET t == hooks'[world.log[i].by]
                 turn == world.log[p].by IN
             /\ t.at \notin {"postTool", "stop", "done"} => t.trace = turn
             /\ t.at \notin {"postTool", "stop", "span", "done"} => t.span = turn
  <2> DEFINE g == world.log[i].by
             turn == world.log[p].by
             l == hooks[g]
             t == hooks'[g]
  <2> SUFFICES ASSUME t.at \notin {"postTool", "stop", "done"}
               PROVE  /\ t.trace = turn
                      /\ t.at # "span" => t.span = turn
    OBVIOUS
  <2>1. g \in CoHooks /\ CoPlaced(l) /\ None \notin CoHooks /\ turn \in CoHooks /\ l.at # "new"
    BY DEF CoLog
  <2>2. Co!Running(g) /\ l.kind = t.kind
    BY <1>k, <2>1 DEF CoKept, Co!Running
  <2>3. world.log[i].kind = l.kind
    BY <2>2 DEF CoLog
  <2>4. CoLived(turn)
    BY <1>1, <1>k, <2>2, <2>3, CoTurnLives DEF CoReports
  <2>5. /\ l.at \notin {"postTool", "stop", "done"} => l.trace = turn
        /\ l.at \notin {"postTool", "stop", "span", "done"} => l.span = turn
    BY <1>1, <2>2, <2>4 DEF CoReads
  <2>6. CASE g # h
    BY <1>k, <2>1, <2>5, <2>6 DEF CoKept
  <2>7. CASE g = h
    <3>1. CoMove(h)
      BY <2>7 DEF CoDeath
    <3>2. CoFrom(l, t) /\ CoVars(h, l, t) /\ CoPlaced(t)
      BY <2>7, <3>1 DEF CoMove
    <3>3. l.kind = "stop" => l.at \in CoUnclosed
      <4>1. l.at \notin {"new", "done"}
        BY <2>2 DEF Co!Running
      <4> HIDE DEF turn, l, t
      <4> QED
        BY <2>1, <2>2, <3>2, <4>1 DEF CoFrom, CoFirst, CoUnclosed, CoPlaced, CoEnd
    <3>4. Co!Get(store, Co!TraceKey) = turn /\ Co!Get(store, Co!SpanKey) = turn
      BY <1>1, <2>2, <2>3, <2>4, <3>3, CoNow
    <3>5. l.kind \in CoReports /\ turn # None /\ l.at # "done"
      BY <1>1, <2>1, <2>2 DEF Co!Running
    <3> HIDE DEF turn, l, t
    <3>6. t.trace = IF l.at \in CoFirst THEN Co!Get(store, Co!TraceKey) ELSE l.trace
      BY <3>2, <3>5 DEF CoVars
    <3>7. t.trace = turn
      BY <2>5, <3>4, <3>5, <3>6 DEF CoFirst
    <3>8. ASSUME t.at # "span"
          PROVE  t.span = turn
      <4>1. l.at \notin {"postTool", "stop"}
        BY <2>1, <3>2, <3>5, <3>8 DEF CoFrom, CoFirst, CoPlaced, CoReports, CoEnd
      <4>2. CASE l.at = "span"
        BY <3>2, <3>4, <3>5, <4>2 DEF CoVars
      <4>3. CASE l.at # "span"
        BY <2>5, <3>2, <3>5, <4>1, <4>3 DEF CoVars
      <4> QED
        BY <4>2, <4>3
    <3> QED
      BY <3>7, <3>8
  <2> QED
    BY <2>6, <2>7
<1>2. world'.log = world.log /\ \A p, i : TurnOf(p, i)' <=> TurnOf(p, i)
  BY <1>k DEF CoKept
<1> QED
  BY <1>1, <1>2 DEF CoReads, CoReports

(* The call of a result: its pre_tool_use came before, and was over.       *)
LEMMA CoCall ==
  ASSUME CoLog, CoAlone, NEW i \in DOMAIN world.log, world.log[i].kind = "postTool"
  PROVE  \E j \in DOMAIN world.log :
           /\ j < i /\ world.log[j].kind = "preTool" /\ world.log[j].by = world.log[i].call
           /\ world.log[i].call \in CoHooks /\ ~Co!Running(world.log[i].call)
           /\ world.log[i].by # world.log[i].call
<1>1. PICK p : TurnOf(p, i)
  BY DEF CoLog, CoInTurn, KiTools
<1>2. PICK j \in DOMAIN world.log :
        /\ j < i /\ world.log[j].kind = "preTool" /\ world.log[j].by = world.log[i].call
        /\ world.log[j].call = world.log[i].call /\ world.log[i].call \in CoHooks
  BY <1>1, CoOwn DEF KiTools
<1>3. i \in Nat /\ j \in Nat
  BY AppendAny DEF CoLog
<1>4. world.log[i].by # world.log[i].call
  BY <1>2 DEF CoLog
<1>5. None \notin CoHooks
  BY DEF CoLog
<1> QED
  BY <1>2, <1>3, <1>4, <1>5, CoSolo

LEMMA CoStartsKept ==
  ASSUME CoLog, CoAlone, CoStarts, NEW h \in CoHooks, CoMove(h) \/ CoDeath(h)
  PROVE  CoStarts'
<1> DEFINE l == hooks[h]
           t == hooks'[h]
           Alive(c) == hooks'[c].at = "done" /\ c \notin world'.died
<1>k. CoKept(h)
  BY CoKeeps
<1>0. SUFFICES ASSUME ~world.named
               PROVE  CoStarts'
  BY <1>k DEF CoStarts, CoKept
<1>n. PICK n \in DOMAIN world.log : world.log[n].by = h /\ world.log[n].kind = l.kind /\ world.log[n].call = l.call
  BY <1>k, CoEvent DEF CoKept
<1>l. /\ \A g \in CoHooks : CoPlaced(hooks[g])
      /\ None \notin CoHooks /\ \A j \in DOMAIN world.log : j \in Nat /\ world.log[j].by \in CoHooks
      /\ \A i, j \in DOMAIN world.log : world.log[i].by = world.log[j].by => i = j
  BY AppendAny DEF CoLog
<1>e. \A k : EventsOf(k) = {j \in DOMAIN world.log : world.log[j].kind = k}
  BY DEF EventsOf
<1>s. \A k : CoSame(k) => Co!Get(store', k) = Co!Get(store, k)
  BY DEF CoSame
<1>1. ASSUME NEW i \in EventsOf("preTool"), CoLived(world.log[i].by)',
             \A j \in EventsOf("postTool") :
               world.log[j].call = world.log[i].by => hooks'[world.log[j].by].at \in CoUnread
      PROVE  Co!Get(store', Co!StartKey(world.log[i].by)) = world.log[i].by
  <2> DEFINE c == world.log[i].by
  <2>0. i \in DOMAIN world.log /\ world.log[i].kind = "preTool" /\ c \in CoHooks
    BY <1>e, <1>l
  <2>1. CASE c = h
    <3>1. l.kind = "preTool" /\ CoMove(h) /\ t.at = "done"
      BY <1>1, <1>k, <1>l, <1>n, <2>0, <2>1 DEF CoDeath, CoLived, CoKept
    <3>2. l.at = "preTool"
      BY <1>l, <3>1 DEF CoMove, CoFrom, CoFirst, CoPlaced, CoEnd, CoReports
    <3> QED
      BY <2>1, <3>1, <3>2 DEF CoMove, CoStore
  <2>2. CASE c # h
    <3>1. CoLived(c)
      BY <1>1, <1>k, <2>0, <2>2 DEF CoKept, CoLived
    <3>2. ASSUME NEW j \in EventsOf("postTool"), world.log[j].call = c
          PROVE  hooks[world.log[j].by].at \in CoUnread /\ (world.log[j].by = h => l.at # "dropStart")
      <4>1. hooks'[world.log[j].by].at \in CoUnread /\ j \in DOMAIN world.log /\ world.log[j].kind = "postTool"
        BY <1>1, <1>e, <3>2
      <4>2. CASE world.log[j].by = h
        <5>1. CoMove(h) /\ l.kind = "postTool" /\ t.at \in CoUnread
          BY <1>l, <1>n, <4>1, <4>2 DEF CoDeath, CoUnread, CoUncounted
        <5>2. CoFrom(l, t)
          BY <5>1 DEF CoMove
        <5>3. l.at \in CoUnread
          BY <1>l, <5>1, <5>2 DEF CoFrom, CoFirst, CoUnread, CoUncounted, CoPlaced
        <5> QED
          BY <4>2, <5>3 DEF CoUnread, CoUncounted
      <4>3. CASE world.log[j].by # h
        BY <1>k, <1>l, <4>1, <4>3 DEF CoKept
      <4> QED
        BY <4>2, <4>3
    <3>3. Co!Get(store, Co!StartKey(c)) = c
      BY <1>0, <3>1, <3>2 DEF CoStarts
    <3>4. CASE CoDeath(h)
      <4>1. store' = store /\ world'.named = world.named
        BY <3>4 DEF CoDeath
      <4> QED
        BY <3>3, <4>1 DEF Co!Get
    <3>5. CASE CoMove(h)
      <4>1. CoStore(h, l)
        BY <3>5 DEF CoMove
      <4>2. CoSame(Co!StartKey(c)) \/ (l.at = "dropStart" /\ c = l.call)
        BY <1>0, <2>2, <4>1 DEF CoStore
      <4>3. l.at = "dropStart" => l.kind = "postTool"
        BY <1>l DEF CoPlaced, CoEnd
      <4>4. l.at = "dropStart" /\ c = l.call => n \in EventsOf("postTool") /\ world.log[n].call = c
        BY <1>e, <1>n, <4>3
      <4>5. CoSame(Co!StartKey(c))
        BY <1>n, <3>2, <4>2, <4>4
      <4> QED
        BY <1>s, <3>3, <4>5
    <3> QED
      BY <3>4, <3>5
  <2> QED
    BY <2>1, <2>2
<1>2. ASSUME NEW g \in CoHooks, hooks'[g].kind = "postTool", hooks'[g].at \in {"dropStart", "send"},
             Alive(hooks'[g].call)
      PROVE  hooks'[g].start = hooks'[g].call
  <2>1. Co!Running(g) /\ hooks[g].kind = "postTool" /\ hooks[g].call = hooks'[g].call
    BY <1>2, <1>k DEF CoKept, Co!Running
  <2>2. PICK m \in DOMAIN world.log :
          world.log[m].by = g /\ world.log[m].kind = "postTool" /\ world.log[m].call = hooks[g].call
    BY <2>1, CoEvent
  <2>3. PICK j \in DOMAIN world.log :
          /\ world.log[j].kind = "preTool" /\ world.log[j].by = hooks[g].call /\ hooks[g].call \in CoHooks
          /\ ~Co!Running(hooks[g].call)
    BY <2>2, CoCall
  <2>4. CoLived(hooks[g].call)
    BY <1>2, <1>k, <2>1, <2>3 DEF CoKept, CoLived
  <2>5. CASE g # h
    <3>1. hooks'[g] = hooks[g]
      BY <1>k, <2>5 DEF CoKept
    <3> QED
      BY <1>0, <1>2, <2>4, <3>1 DEF CoStarts
  <2>6. CASE g = h
    <3>1. CoMove(h)
      BY <1>2, <2>6 DEF CoDeath
    <3>2. CoFrom(l, t) /\ CoVars(h, l, t)
      BY <3>1 DEF CoMove
    <3>3. l.at \in {"start", "dropStart"}
      BY <1>2, <2>1, <2>6, <3>2, <1>l DEF CoFrom, CoPlaced, CoEnd
    <3>4. t.start = IF l.at = "start" /\ Co!Get(store, Co!StartKey(l.call)) # None
                    THEN Co!Get(store, Co!StartKey(l.call)) ELSE t.start
      BY <1>2, <2>1, <2>6, <3>2 DEF CoVars, CoReports
    <3>5. CASE l.at = "start"
      <4>1. ASSUME NEW k \in EventsOf("postTool"), world.log[k].call = hooks[g].call
            PROVE  hooks[world.log[k].by].at \in CoUnread
        <5>1. k = m
          BY <1>e, <2>2, <4>1 DEF CoLog
        <5> QED
          BY <2>2, <2>6, <3>5, <5>1 DEF CoUnread
      <4>2. j \in EventsOf("preTool")
        BY <1>e, <2>3
      <4>3. Co!Get(store, Co!StartKey(l.call)) = l.call
        BY <1>0, <2>3, <2>4, <2>6, <4>1, <4>2 DEF CoStarts
      <4> QED
        BY <1>l, <2>1, <2>3, <2>6, <3>4, <3>5, <4>3
    <3>6. CASE l.at = "dropStart"
      <4>1. l.start = l.call
        BY <1>0, <2>1, <2>4, <2>6, <3>6 DEF CoStarts
      <4>2. t.start = l.start
        BY <1>2, <2>1, <2>6, <3>2, <3>6 DEF CoVars, CoReports
      <4> QED
        BY <2>1, <2>6, <4>1, <4>2
    <3> QED
      BY <3>3, <3>5, <3>6
  <2> QED
    BY <2>5, <2>6
<1>3. /\ world'.log = world.log /\ CoHooks' = CoHooks /\ \A k : EventsOf(k)' = EventsOf(k)
      /\ \A c : Co!StartKey(c)' = Co!StartKey(c)
  BY <1>k DEF CoKept, CoHooks, Co!StartKey
<1> QED
  <2>1. ASSUME NEW i \in EventsOf("preTool")',
               CoLived(world.log[i].by)',
               \A j \in EventsOf("postTool")' :
                 world'.log[j].call = world'.log[i].by => hooks'[world'.log[j].by].at \in CoUnread
        PROVE  Co!Get(store', Co!StartKey(world.log[i].by)) = world'.log[i].by
    BY <1>1, <1>3, <2>1
  <2>2. \A g \in CoHooks : LET u == hooks'[g] IN
          u.kind = "postTool" /\ u.at \in {"dropStart", "send"} /\ Alive(u.call) => u.start = u.call
    BY <1>2
  <2> QED
    BY <1>3, <2>1, <2>2 DEF CoStarts, CoUnread, CoUncounted, CoLived, Co!Get, Co!StartKey

(* What is in a turn of which no hook died, before its stop.               *)
LEMMA CoWhole ==
  ASSUME CoLog, CoAlone, NEW i \in DOMAIN world.log, NEW p, TurnOf(p, i), Whole(p, i),
         world.log[i].kind = "stop"
  PROVE  /\ CoLived(world.log[p].by)
         /\ \A j \in DOMAIN world.log : p < j /\ j < i => CoLived(world.log[j].by)
<1>1. /\ p \in DOMAIN world.log /\ p <= i /\ world.log[p].kind = "prompt"
      /\ \A j \in DOMAIN world.log : j \in Nat
  BY CoTurnOf, AppendAny DEF CoLog
<1>2. ASSUME NEW j \in DOMAIN world.log, p <= j, j < i
      PROVE  CoLived(world.log[j].by)
  <2>1. ~Co!Running(world.log[j].by)
    BY <1>1, <1>2, CoSolo DEF Co!Background
  <2>2. hooks[world.log[j].by].at = "done"
    BY <2>1 DEF CoLog, Co!Running
  <2>3. world.log[j].by \notin world.died
    BY <1>1, <1>2 DEF Whole
  <2> QED
    BY <2>2, <2>3 DEF CoLived
<1>3. p < i
  BY <1>1
<1> QED
  BY <1>1, <1>2, <1>3

LEMMA CoPosts ==
  ASSUME CoLog, NEW p, NEW i
  PROVE  /\ IsFiniteSet(Counted(p)) /\ Cardinality(Counted(p)) \in Nat
         /\ Counted(p) = {j \in DOMAIN world.log :
                            /\ world.log[j].kind = "postTool" /\ p < j
                            /\ hooks[world.log[j].by].at \notin CoUncounted}
         /\ Co!PostsOfTurn(p, i) = {j \in DOMAIN world.log : world.log[j].kind = "postTool" /\ p < j /\ j <= i}
<1>1. Len(world.log) \in Nat /\ DOMAIN world.log = 1 .. Len(world.log)
  BY AppendAny DEF CoLog
<1>2. EventsOf("postTool") = {j \in DOMAIN world.log : world.log[j].kind = "postTool"}
  BY DEF EventsOf
<1>3. Counted(p) \in SUBSET (1 .. Len(world.log))
  BY <1>1, <1>2 DEF Counted
<1>4. IsFiniteSet(Counted(p)) /\ Cardinality(Counted(p)) \in Nat
  BY <1>1, <1>3, SubsetOfInterval
<1>5. Co!PostsOfTurn(p, i) = {j \in EventsOf("postTool") : p < j /\ j <= i}
  BY SameEvents DEF Co!PostsOfTurn
<1> QED
  BY <1>2, <1>4, <1>5 DEF Counted

LEMMA CoCountsKept ==
  ASSUME CoLog, CoAlone, CoOpen, CoCounts, NEW h \in CoHooks, CoMove(h) \/ CoDeath(h)
  PROVE  CoCounts'
<1> DEFINE l == hooks[h]
           t == hooks'[h]
           Intact(p, i) == \A j \in DOMAIN world.log : p <= j /\ j <= i => world.log[j].by \notin world'.died
           Done(p) == {j \in DOMAIN world.log :
                         /\ world.log[j].kind = "postTool" /\ p < j
                         /\ hooks'[world.log[j].by].at \notin CoUncounted}
<1>k. CoKept(h)
  BY CoKeeps
<1>n. PICK n \in DOMAIN world.log : world.log[n].by = h /\ world.log[n].kind = l.kind
  BY <1>k, CoEvent DEF CoKept
<1>m. \A j \in DOMAIN world.log : j # n /\ (n < j \/ Co!Running(world.log[j].by)) =>
        l.kind \in Co!Background /\ world.log[j].kind \in Co!Background
  BY <1>k, <1>n, CoSolo DEF CoKept
<1>l. /\ CoPlaced(l) /\ \A j \in DOMAIN world.log : j \in Nat /\ world.log[j].by \in CoHooks
      /\ \A i, j \in DOMAIN world.log : world.log[i].by = world.log[j].by => i = j
  BY AppendAny DEF CoLog
<1>z. Len(world.log) \in Nat /\ DOMAIN world.log = 1 .. Len(world.log)
  BY AppendAny DEF CoLog
<1>e. \A k : EventsOf(k) = {j \in DOMAIN world.log : world.log[j].kind = k}
  BY DEF EventsOf
<1>w. \A p, i : Intact(p, i) => Whole(p, i)
  BY <1>k DEF CoKept, Whole
<1>d. CoDeath(h) => h \in world'.died
  BY DEF CoDeath
<1>1. ASSUME NEW p \in EventsOf("prompt"), \A q \in EventsOf("prompt") : q <= p,
             CoLived(world.log[p].by)', Intact(p, Len(world.log))
      PROVE  Co!Count' = Cardinality(Done(p))
  <2> DEFINE turn == world.log[p].by
  <2>0. p \in DOMAIN world.log /\ world.log[p].kind = "prompt" /\ turn \in CoHooks /\ p \in Nat /\ n \in Nat
    BY <1>e, <1>l, <1>n
  <2>1. ~(n < p)
    BY <1>m, <2>0 DEF Co!Background
  <2>2. CoMove(h)
    <3>1. p <= n /\ n <= Len(world.log)
      BY <1>z, <2>0, <2>1
    <3>2. h \notin world'.died
      BY <1>1, <1>n, <3>1
    <3> QED
      BY <1>d, <3>2
  <2>3. CoFrom(l, t) /\ CoStore(h, l) /\ CoVars(h, l, t)
    BY <2>2 DEF CoMove
  <2>4. CASE turn = h
    <3>1. n = p /\ l.kind = "prompt"
      BY <1>l, <1>n, <2>0, <2>4
    <3>a. t.at = "done"
      BY <1>1, <1>k, <2>4 DEF CoKept, CoLived
    <3>2. l.at = "resetCount"
      BY <1>l, <2>3, <3>1, <3>a DEF CoFrom, CoFirst, CoPlaced, CoEnd, CoReports
    <3>3. Co!Count' = 0
      BY <2>3, <3>2 DEF CoStore
    <3>4. Done(p) = {}
      <4>1. \A j \in DOMAIN world.log : p < j => FALSE
        BY <1>l, <1>m, <3>1 DEF Co!Background
      <4> QED
        BY <4>1
    <3> HIDE DEF Done
    <3> QED
      BY <3>3, <3>4, FS_EmptySet
  <2>5. CASE turn # h
    <3>1. CoLived(turn)
      BY <1>1, <1>k, <2>0, <2>5 DEF CoKept, CoLived
    <3>2. Co!Count = Cardinality(Counted(p))
      BY <1>1, <1>w, <3>1 DEF CoCounts
    <3>3. /\ IsFiniteSet(Counted(p)) /\ Cardinality(Counted(p)) \in Nat
          /\ Counted(p) = {j \in DOMAIN world.log :
                            /\ world.log[j].kind = "postTool" /\ p < j
                            /\ hooks[world.log[j].by].at \notin CoUncounted}
      BY CoPosts
    <3>4. l.kind # "prompt" /\ p < n
      <4>1. n # p
        BY <1>n, <2>5
      <4>2. l.kind = "prompt" => n \in EventsOf("prompt")
        BY <1>e, <1>n
      <4> QED
        BY <1>1, <2>0, <2>1, <4>1, <4>2
    <3>5. TurnOf(p, n)
      BY <1>1, <3>4, <2>0 DEF TurnOf
    <3>6. l.at \notin {"ensure", "open", "openSpan", "resetCount"}
      BY <1>l, <3>4 DEF CoPlaced, CoEnd
    <3>7. Co!Count' = IF l.at = "count" THEN Co!Count + 1 ELSE Co!Count
      BY <2>3, <3>6 DEF CoStore
    <3>8. \A j \in DOMAIN world.log : j # n => hooks'[world.log[j].by] = hooks[world.log[j].by]
      BY <1>k, <1>l, <1>n DEF CoKept
    <3>9. CASE l.at = "count"
      <4>0. l.kind = "postTool"
        BY <1>l, <3>9 DEF CoPlaced, CoEnd
      <4>1. t.at = "start"
        BY <1>l, <2>2, <2>3, <3>9, <4>0 DEF CoPlaced, CoFrom, CoFirst, CoEnd, CoMove
      <4>2. n \notin Counted(p) /\ Done(p) = Counted(p) \cup {n}
        <5>1. \A j : j \in Counted(p) <=>
                /\ j \in DOMAIN world.log /\ world.log[j].kind = "postTool" /\ p < j
                /\ hooks[world.log[j].by].at \notin CoUncounted
          BY <3>3
        <5>2. \A j : j \in Done(p) <=>
                /\ j \in DOMAIN world.log /\ world.log[j].kind = "postTool" /\ p < j
                /\ hooks'[world.log[j].by].at \notin CoUncounted
          OBVIOUS
        <5>3. l.at \in CoUncounted /\ t.at \notin CoUncounted
          BY <3>9, <4>1 DEF CoUncounted
        <5> HIDE DEF Done
        <5>4. n \notin Counted(p) /\ n \in Done(p)
          BY <1>n, <3>4, <4>0, <5>1, <5>2, <5>3
        <5>5. \A j : j # n => (j \in Done(p) <=> j \in Counted(p))
          BY <3>8, <5>1, <5>2
        <5> QED
          BY <5>4, <5>5
      <4>3. Cardinality(Counted(p) \cup {n}) = Cardinality(Counted(p)) + 1
        BY <3>3, <4>2, FS_AddElement
      <4> HIDE DEF Done
      <4> QED
        BY <3>2, <3>7, <3>9, <4>2, <4>3
    <3>10. CASE l.at # "count"
      <4>1. ASSUME l.kind = "postTool"
            PROVE  l.at \in CoUncounted <=> t.at \in CoUncounted
        <5>1. Co!Has(store, Co!SessionKey)
          BY <1>k, <1>n, <3>1, <3>5, <4>1, CoNow DEF CoKept, CoReports
        <5>2. l.at = "postTool" => t.at # "done"
          BY <2>3, <4>1, <5>1 DEF CoVars, CoReports, CoFirst
        <5>3. l.at \in {"postTool", "span", "start", "dropStart", "send"}
          BY <1>k, <1>l, <3>10, <4>1 DEF CoPlaced, CoEnd, CoKept, Co!Running
        <5>4. CoPlaced(t) /\ (t.at # "done" => t.kind = "postTool")
          BY <1>k, <4>1 DEF CoKept
        <5> HIDE DEF l, t
        <5>5. l.at \in {"postTool", "span"} => t.at \in {"span", "count"}
          BY <2>3, <3>10, <4>1, <5>2, <5>4 DEF CoFrom, CoFirst, CoPlaced, CoEnd
        <5>6. l.at \in {"start", "dropStart", "send"} => t.at \notin CoUncounted
          BY <2>3, <3>10, <5>4 DEF CoFrom, CoFirst, CoUncounted
        <5> QED
          BY <5>3, <5>5, <5>6 DEF CoUncounted
      <4>2. Done(p) = Counted(p)
        BY <1>n, <3>3, <3>8, <4>1
      <4> HIDE DEF Done
      <4> QED
        BY <3>2, <3>7, <3>10, <4>2
    <3> QED
      BY <3>9, <3>10
  <2> QED
    BY <2>4, <2>5
<1>2. ASSUME NEW i \in DOMAIN world.log, NEW p \in DOMAIN world.log, TurnOf(p, i), Intact(p, i),
             hooks'[world.log[i].by].kind = "stop", hooks'[world.log[i].by].at = "send"
      PROVE  hooks'[world.log[i].by].count = Cardinality(Co!PostsOfTurn(p, i))
  <2>1. Whole(p, i)
    BY <1>2, <1>w
  <2>2. CASE i # n
    <3>1. hooks'[world.log[i].by] = hooks[world.log[i].by]
      BY <1>k, <1>l, <1>n, <2>2 DEF CoKept
    <3> QED
      BY <1>2, <2>1, <3>1 DEF CoCounts
  <2>3. CASE i = n
    <3>1. CoMove(h) /\ l.kind = "stop"
      BY <1>2, <1>k, <1>n, <2>3 DEF CoDeath, CoKept
    <3>2. CoFrom(l, t) /\ CoVars(h, l, t)
      BY <3>1 DEF CoMove
    <3>3. l.at = "readCount"
      BY <1>2, <1>l, <1>n, <2>3, <3>1, <3>2 DEF CoFrom, CoPlaced, CoEnd
    <3>4. t.count = Co!Count
      BY <1>2, <1>n, <2>3, <3>1, <3>2, <3>3 DEF CoVars, CoReports
    <3>5. \A j \in DOMAIN world.log : ~(i < j)
      BY <1>l, <1>m, <2>3, <3>1 DEF Co!Background
    <3>6. /\ CoLived(world.log[p].by)
          /\ \A j \in DOMAIN world.log : p < j /\ j < i => CoLived(world.log[j].by)
      BY <1>2, <1>n, <2>1, <2>3, <3>1, CoWhole
    <3>7. p \in EventsOf("prompt") /\ \A q \in EventsOf("prompt") : q <= p
      BY <1>2, <1>e, <1>l, <3>5 DEF TurnOf
    <3>8. Whole(p, Len(world.log))
      BY <1>l, <1>z, <2>1, <3>5 DEF Whole
    <3>9. Co!Count = Cardinality(Counted(p))
      BY <3>6, <3>7, <3>8 DEF CoCounts
    <3>10. Counted(p) = Co!PostsOfTurn(p, i)
      <4>1. /\ Counted(p) = {j \in DOMAIN world.log :
                            /\ world.log[j].kind = "postTool" /\ p < j
                            /\ hooks[world.log[j].by].at \notin CoUncounted}
            /\ Co!PostsOfTurn(p, i) = {j \in DOMAIN world.log : world.log[j].kind = "postTool" /\ p < j /\ j <= i}
        BY CoPosts
      <4>2. ASSUME NEW j \in DOMAIN world.log, world.log[j].kind = "postTool", p < j
            PROVE  j <= i /\ hooks[world.log[j].by].at \notin CoUncounted
        <5>1. j < i
          BY <1>l, <1>n, <2>3, <3>1, <3>5, <4>2
        <5>2. CoLived(world.log[j].by)
          BY <3>6, <4>2, <5>1
        <5> QED
          BY <1>l, <5>1, <5>2 DEF CoLived, CoUncounted
      <4> QED
        BY <4>1, <4>2
    <3> QED
      BY <1>n, <2>3, <3>4, <3>9, <3>10
  <2> QED
    BY <2>2, <2>3
<1>3. /\ world'.log = world.log /\ (\A k : EventsOf(k)' = EventsOf(k)) /\ \A p, i : TurnOf(p, i)' <=> TurnOf(p, i)
  BY <1>k DEF CoKept
<1>4. \A p : Counted(p)' = Done(p)
  <2>1. EventsOf("postTool")' = {j \in DOMAIN world.log : world.log[j].kind = "postTool"}
    BY <1>3, <1>e
  <2> QED
    BY <1>3, <2>1 DEF Counted, CoUncounted
<1>5. \A p, i : (Whole(p, i)' <=> Intact(p, i)) /\ Co!PostsOfTurn(p, i)' = Co!PostsOfTurn(p, i)
  BY <1>3 DEF Whole, Co!PostsOfTurn, Co!Events
<1> HIDE DEF Done, Intact
<1>6. \A p \in EventsOf("prompt")' :
        /\ \A q \in EventsOf("prompt")' : q <= p
        /\ CoLived(world.log[p].by)' /\ Whole(p, Len(world.log))'
        => Co!Count' = Cardinality(Counted(p)')
  BY <1>1, <1>3, <1>4, <1>5
<1>7. \A i, p \in DOMAIN world'.log :
        LET u == hooks'[world'.log[i].by] IN
        TurnOf(p, i)' /\ Whole(p, i)' /\ u.kind = "stop" /\ u.at = "send" =>
          u.count = Cardinality(Co!PostsOfTurn(p, i)')
  BY <1>2, <1>3, <1>5
<1> QED
  BY <1>6, <1>7 DEF CoCounts

(* The spans after a step: those before, and one of a hook that was about  *)
(* to send it.                                                             *)
CoNew(h) ==
  LET n == Len(sent) + 1
      l == hooks[h] IN
  /\ l.at = "send" /\ DOMAIN sent' = DOMAIN sent \cup {n} /\ n \notin DOMAIN sent
  /\ \A k \in DOMAIN sent : sent'[k] = sent[k]
  /\ sent'[n].by = h /\ sent'[n].trace = l.trace /\ sent'[n].span = l.span
  /\ sent'[n].call = l.call /\ sent'[n].start = l.start /\ sent'[n].count = l.count

LEMMA CoSpan ==
  ASSUME IsSeq(sent), NEW h \in CoHooks, CoMove(h) \/ CoDeath(h)
  PROVE  /\ IsSeq(sent') /\ ((hooks[h].at = "send" /\ CoNew(h)) \/ sent' = sent)
         /\ (CoMove(h) /\ hooks[h].at = "send" => CoNew(h))
<1>1. CASE CoDeath(h) \/ (CoMove(h) /\ hooks[h].at # "send")
  <2>1. sent' = sent
    BY <1>1 DEF CoDeath, CoMove, CoSends
  <2> QED
    BY <1>1, <2>1 DEF IsSeq, CoDeath, CoMove, CoSends
<1>2. CASE CoMove(h) /\ hooks[h].at = "send"
  <2> DEFINE l == hooks[h]
             e == [what |-> l.kind, by |-> h, trace |-> l.trace, span |-> l.span,
                   call |-> l.call, start |-> l.start, count |-> l.count]
             s == Append(sent, e)
  <2>1. sent' = s
    BY <1>2 DEF CoMove, CoSends
  <2>2. /\ e.by = h /\ e.trace = l.trace /\ e.span = l.span
        /\ e.call = l.call /\ e.start = l.start /\ e.count = l.count
    OBVIOUS
  <2> HIDE DEF e
  <2>3. /\ IsSeq(s) /\ Len(s) = Len(sent) + 1 /\ DOMAIN s = DOMAIN sent \cup {Len(s)} /\ Len(s) \notin DOMAIN sent
        /\ (\A k \in DOMAIN sent : s[k] = sent[k]) /\ s[Len(s)] = e
    BY AppendAny
  <2> HIDE DEF s
  <2>4. IsSeq(sent')
    BY <2>1, <2>3 DEF IsSeq
  <2> QED
    BY <1>2, <2>1, <2>2, <2>3, <2>4 DEF CoNew
<1> QED
  BY <1>1, <1>2

LEMMA CoSentKept ==
  ASSUME CoLog, CoAlone, CoOpen, CoSent, NEW h \in CoHooks, CoMove(h) \/ CoDeath(h)
  PROVE  CoSent'
<1> DEFINE l == hooks[h]
           t == hooks'[h]
<1>k. CoKept(h)
  BY CoKeeps
<1>0. IsSeq(sent)
  BY DEF CoSent
<1>s. IsSeq(sent') /\ ((l.at = "send" /\ CoNew(h)) \/ sent' = sent) /\ (CoMove(h) /\ l.at = "send" => CoNew(h))
  BY <1>0, CoSpan
<1>d. DOMAIN sent \subseteq DOMAIN sent' /\ \A k \in DOMAIN sent : sent'[k] = sent[k]
  BY <1>s DEF CoNew
<1>l. /\ CoPlaced(l) /\ None \notin CoHooks
      /\ \A i \in DOMAIN world.log : world.log[i].by \in CoHooks /\ hooks[world.log[i].by].at # "new"
  BY DEF CoLog
<1>1. ASSUME NEW k \in DOMAIN sent', NEW m \in DOMAIN sent', sent'[k].by = sent'[m].by
      PROVE  k = m
  <2>1. sent' # sent => \A j \in DOMAIN sent : sent[j].by # h
    BY <1>s DEF CoSent, CoEnd
  <2>2. \A a, b \in DOMAIN sent : sent[a].by = sent[b].by => a = b
    BY DEF CoSent
  <2> QED
    BY <1>1, <1>s, <2>1, <2>2 DEF CoNew
<1>t. l.at \in CoEnd \cup {"send"} => t.at \in CoEnd \cup {"done"}
  BY <1>k DEF CoKept, CoPlaced, CoMove, CoDeath, CoFrom, CoFirst, CoEnd, CoReports
<1>2. ASSUME NEW k \in DOMAIN sent'
      PROVE  sent'[k].by \in CoHooks /\ hooks'[sent'[k].by].at \in CoEnd \cup {"done"}
  <2>1. CASE k \in DOMAIN sent
    <3>1. sent'[k] = sent[k] /\ sent[k].by \in CoHooks /\ hooks[sent[k].by].at \in CoEnd \cup {"done"}
      BY <1>d, <2>1 DEF CoSent
    <3>2. CASE sent[k].by = h
      BY <1>k, <1>t, <3>1, <3>2 DEF CoKept, Co!Running
    <3> QED
      BY <1>k, <3>1, <3>2 DEF CoKept
  <2>2. CASE k \notin DOMAIN sent
    <3>1. l.at = "send" /\ sent'[k].by = h
      BY <1>s, <2>2 DEF CoNew
    <3> QED
      BY <1>t, <3>1
  <2> QED
    BY <2>1, <2>2
<1>3. ASSUME NEW i \in DOMAIN world.log, NEW p \in DOMAIN world.log, world.log[i].kind \in CoReports,
             TurnOf(p, i), CoLived(world.log[p].by)',
             hooks'[world.log[i].by].at \in CoEnd \/ CoLived(world.log[i].by)'
      PROVE  \E k \in DOMAIN sent' : sent'[k].by = world.log[i].by
  <2> DEFINE g == world.log[i].by
             turn == world.log[p].by
  <2>0. g \in CoHooks /\ turn \in CoHooks
    BY <1>l
  <2>a. CoLived(turn)
    BY <1>3, <1>k, CoTurnLives DEF CoReports
  <2>1. CASE hooks[g].at \in CoEnd \/ CoLived(g)
    <3>1. PICK k \in DOMAIN sent : sent[k].by = g
      BY <1>3, <2>1, <2>a DEF CoSent
    <3> QED
      BY <1>d, <3>1
  <2>2. CASE ~(hooks[g].at \in CoEnd \/ CoLived(g))
    <3>1. g = h
      BY <1>3, <1>k, <2>0, <2>2 DEF CoKept, CoLived
    <3>2. CoMove(h)
      BY <1>3, <1>k, <3>1 DEF CoDeath, CoLived, CoKept, CoEnd
    <3>3. l.kind = world.log[i].kind /\ Co!Running(h)
      BY <1>k, <3>1 DEF CoLog, CoKept
    <3>4. t.at \in CoEnd \cup {"done"}
      BY <1>3, <1>k, <3>1 DEF CoKept, CoLived
    <3>a. CoFrom(l, t) /\ CoVars(h, l, t)
      BY <3>2 DEF CoMove
    <3>b. l.at \notin CoFirst
      <4> SUFFICES ASSUME l.at \in CoFirst
                   PROVE  FALSE
        OBVIOUS
      <4>1. t.at = "done"
        BY <3>4, <3>a DEF CoFrom, CoFirst, CoEnd
      <4>2. l.kind = "stop" => l.at \in CoUnclosed
        BY <1>l DEF CoPlaced, CoFirst, CoUnclosed, CoEnd
      <4>3. Co!Get(store, Co!TraceKey) = turn /\ Co!Has(store, Co!SessionKey)
        BY <1>3, <2>a, <3>1, <3>3, <4>2, CoNow
      <4>4. turn # None
        BY <1>l, <2>0
      <4> HIDE DEF turn, l, t
      <4> QED
        BY <1>3, <3>3, <3>a, <4>1, <4>3, <4>4 DEF CoVars
    <3>5. l.at = "send"
      BY <1>3, <1>l, <2>2, <3>1, <3>3, <3>4, <3>a, <3>b DEF CoFrom, CoPlaced, CoEnd, CoReports
    <3>6. Len(sent) + 1 \in DOMAIN sent' /\ sent'[Len(sent) + 1].by = h
      BY <1>s, <3>2, <3>5 DEF CoNew
    <3> QED
      BY <3>1, <3>6
  <2> QED
    BY <2>1, <2>2
<1>4. /\ world'.log = world.log /\ CoHooks' = CoHooks /\ \A p, i : TurnOf(p, i)' <=> TurnOf(p, i)
  BY <1>k DEF CoKept, CoHooks
<1> QED
  BY <1>s, <1>1, <1>2, <1>3, <1>4 DEF CoSent, IsSeq

LEMMA CoReportedKept ==
  ASSUME CoLog, CoAlone, CoReads, CoStarts, CoCounts, CoSent, CoReported,
         NEW h \in CoHooks, CoMove(h) \/ CoDeath(h)
  PROVE  CoReported'
<1> DEFINE l == hooks[h]
           Alive(c) == hooks'[c].at = "done" /\ c \notin world'.died
           Intact(p, i) == \A j \in DOMAIN world.log : p <= j /\ j <= i => world.log[j].by \notin world'.died
<1>k. CoKept(h)
  BY CoKeeps
<1>0. IsSeq(sent)
  BY DEF CoSent
<1>s. (l.at = "send" /\ CoNew(h)) \/ sent' = sent
  BY <1>0, CoSpan
<1>n. PICK n \in DOMAIN world.log : world.log[n].by = h /\ world.log[n].kind = l.kind /\ world.log[n].call = l.call
  BY <1>k, CoEvent DEF CoKept
<1>l. /\ None \notin CoHooks /\ \A j \in DOMAIN world.log : world.log[j].by \in CoHooks
      /\ \A i, j \in DOMAIN world.log : world.log[i].by = world.log[j].by => i = j
  BY DEF CoLog
<1>w. \A p, i : Intact(p, i) => Whole(p, i)
  BY <1>k DEF CoKept, Whole
<1>1. ASSUME NEW i \in DOMAIN world.log, NEW p \in DOMAIN world.log, NEW k \in DOMAIN sent',
             world.log[i].kind \in CoReports, sent'[k].by = world.log[i].by, TurnOf(p, i), CoLived(world.log[p].by)'
      PROVE  LET e == world.log[i]
                 turn == world.log[p].by IN
             /\ sent'[k].trace = turn /\ sent'[k].span = turn
             /\ e.kind = "postTool" => sent'[k].call = e.call
             /\ e.kind = "postTool" /\ ~world.named /\ Alive(e.call) => sent'[k].start = e.call
             /\ e.kind = "stop" /\ Intact(p, i) => sent'[k].count = Cardinality(Co!PostsOfTurn(p, i))
  <2> DEFINE e == world.log[i]
             turn == world.log[p].by
  <2>1. CoLived(turn)
    BY <1>1, <1>k, CoTurnLives DEF CoReports
  <2>2. e.kind = "postTool" /\ Alive(e.call) => CoLived(e.call)
    <3> SUFFICES ASSUME e.kind = "postTool", Alive(e.call)
                 PROVE  CoLived(e.call)
      OBVIOUS
    <3>1. e.call \in CoHooks /\ ~Co!Running(e.call)
      BY CoCall
    <3>2. e.call # h
      BY <1>k, <3>1 DEF CoKept
    <3> QED
      BY <1>k, <3>1, <3>2 DEF CoKept, CoLived
  <2>3. CASE k \in DOMAIN sent
    <3>1. sent'[k] = sent[k]
      BY <1>s, <2>3 DEF CoNew
    <3> HIDE DEF Alive, Intact
    <3> QED
      BY <1>1, <1>w, <2>1, <2>2, <2>3, <3>1 DEF CoReported
  <2>4. CASE k \notin DOMAIN sent
    <3>1. /\ l.at = "send" /\ sent'[k].by = h /\ sent'[k].trace = l.trace /\ sent'[k].span = l.span
          /\ sent'[k].call = l.call /\ sent'[k].start = l.start /\ sent'[k].count = l.count
      BY <1>s, <2>4 DEF CoNew
    <3>2. i = n /\ e.by = h /\ e.kind = l.kind /\ e.call = l.call
      BY <1>1, <1>l, <1>n, <3>1
    <3>3. l.trace = turn /\ l.span = turn
      BY <1>1, <2>1, <3>1, <3>2 DEF CoReads
    <3>4. l.kind = "postTool" /\ ~world.named /\ CoLived(l.call) => l.start = l.call
      BY <3>1 DEF CoStarts
    <3>5. l.kind = "stop" /\ Whole(p, i) => l.count = Cardinality(Co!PostsOfTurn(p, i))
      BY <1>1, <3>1, <3>2 DEF CoCounts
    <3> HIDE DEF Alive, Intact
    <3> QED
      BY <1>w, <2>2, <3>1, <3>2, <3>3, <3>4, <3>5
  <2> QED
    BY <2>3, <2>4
<1>2. /\ world'.log = world.log /\ world'.named = world.named /\ \A p, i : TurnOf(p, i)' <=> TurnOf(p, i)
  BY <1>k DEF CoKept
<1>3. \A p, i : (Whole(p, i)' <=> Intact(p, i)) /\ Co!PostsOfTurn(p, i)' = Co!PostsOfTurn(p, i)
  BY <1>2 DEF Whole, Co!PostsOfTurn, Co!Events
<1>4. ASSUME NEW i \in DOMAIN world.log, NEW p \in DOMAIN world.log, NEW k \in DOMAIN sent',
             world.log[i].kind \in CoReports, sent'[k].by = world.log[i].by, TurnOf(p, i)', CoLived(world.log[p].by)'
      PROVE  LET e == world.log[i]
                 turn == world.log[p].by IN
             /\ sent'[k].trace = turn /\ sent'[k].span = turn
             /\ e.kind = "postTool" => sent'[k].call = e.call
             /\ e.kind = "postTool" /\ ~world'.named /\ Alive(e.call) => sent'[k].start = e.call
             /\ e.kind = "stop" /\ Whole(p, i)' => sent'[k].count = Cardinality(Co!PostsOfTurn(p, i)')
  <2> HIDE DEF Alive, Intact
  <2> QED
    BY <1>1, <1>2, <1>3, <1>4
<1> QED
  BY <1>2, <1>4 DEF CoReported, CoLived, CoReports

-----------------------------------------------------------------------------
(* The begin of a hook *)

LEMMA CoAppended ==
  ASSUME CoLog, NEW h \in CoHooks, NEW k, NEW c, CoBegin(h, k, c)
  PROVE  LET n == Len(world.log) IN
         /\ n \in Nat /\ DOMAIN world.log = 1 .. n /\ DOMAIN world'.log = 1 .. n + 1 /\ IsSeq(world'.log)
         /\ \A i \in 1 .. n : world'.log[i] = world.log[i] /\ world.log[i].by # h
         /\ world'.log[n + 1].kind = k /\ world'.log[n + 1].by = h /\ world'.log[n + 1].call = c
<1> DEFINE e == [kind |-> k, by |-> h, call |-> c]
<1>1. IsSeq(world.log) /\ world'.log = Append(world.log, e)
  BY DEF CoLog, CoBegin
<1>2. e.kind = k /\ e.by = h /\ e.call = c
  OBVIOUS
<1> HIDE DEF e
<1> DEFINE q == world.log
           s == Append(q, e)
<1>3. /\ IsSeq(s) /\ Len(q) \in Nat /\ DOMAIN q = 1 .. Len(q) /\ Len(s) = Len(q) + 1
      /\ DOMAIN s = DOMAIN q \cup {Len(s)} /\ Len(s) \notin DOMAIN q
      /\ (\A i \in DOMAIN q : s[i] = q[i]) /\ s[Len(s)] = e
  BY <1>1, AppendAny
<1>4. \A i \in DOMAIN q : q[i].by # h
  BY DEF CoLog, CoBegin
<1> HIDE DEF s
<1>5. DOMAIN s = 1 .. Len(q) + 1
  BY <1>3
<1>6. world'.log = s
  BY <1>1 DEF s
<1> QED
  BY <1>2, <1>3, <1>4, <1>5, <1>6

(* What a begin adds.                                                      *)
CoBegun(h, k, c) ==
  LET n == Len(world.log) IN
  /\ n \in Nat /\ DOMAIN world.log = 1 .. n /\ DOMAIN world'.log = 1 .. n + 1
  /\ \A i \in 1 .. n : world'.log[i] = world.log[i] /\ world.log[i].by # h /\ world.log[i].by \in CoHooks
  /\ world'.log[n + 1].kind = k /\ world'.log[n + 1].by = h /\ world'.log[n + 1].call = c
  /\ \A x : EventsOf(x)' = IF x = k THEN EventsOf(x) \cup {n + 1} ELSE EventsOf(x)
  /\ \A x : EventsOf(x) \subseteq 1 .. n
  /\ \A p : \A i \in 1 .. n : TurnOf(p, i)' <=> TurnOf(p, i)
  /\ \A g \in CoHooks : g # h => (Co!Running(g)' <=> Co!Running(g)) /\ (CoLived(g)' <=> CoLived(g))
  /\ ~CoLived(h)' /\ ~CoLived(h) /\ ~Co!Running(h)

LEMMA CoBegunBy ==
  ASSUME CoLog, NEW h \in CoHooks, NEW k, NEW c, CoBegin(h, k, c)
  PROVE  CoBegun(h, k, c)
<1> DEFINE n == Len(world.log)
<1>1. /\ n \in Nat /\ DOMAIN world.log = 1 .. n /\ DOMAIN world'.log = 1 .. n + 1
      /\ \A i \in 1 .. n : world'.log[i] = world.log[i] /\ world.log[i].by # h
      /\ world'.log[n + 1].kind = k /\ world'.log[n + 1].by = h /\ world'.log[n + 1].call = c
  BY CoAppended
<1>2. \A i \in 1 .. n : world.log[i].by \in CoHooks
  BY <1>1 DEF CoLog
<1> HIDE DEF n
<1>3. ASSUME NEW x
      PROVE  /\ EventsOf(x)' = IF x = k THEN EventsOf(x) \cup {n + 1} ELSE EventsOf(x)
             /\ EventsOf(x) \subseteq 1 .. n
  <2>1. EventsOf(x) = {j \in 1 .. n : world.log[j].kind = x}
    BY <1>1 DEF EventsOf
  <2>2. EventsOf(x)' = {j \in 1 .. n + 1 : world'.log[j].kind = x}
    BY <1>1 DEF EventsOf
  <2> QED
    BY <1>1, <2>1, <2>2
<1>4. \A p : \A i \in 1 .. n : TurnOf(p, i)' <=> TurnOf(p, i)
  <2> SUFFICES ASSUME NEW p, NEW i \in 1 .. n
               PROVE  TurnOf(p, i)' <=> TurnOf(p, i)
    OBVIOUS
  <2>1. \A q : q <= i => (q \in EventsOf("prompt")' <=> q \in EventsOf("prompt"))
    BY <1>1, <1>3
  <2> QED
    BY <2>1 DEF TurnOf
<1>5. \A g \in CoHooks : g # h => (Co!Running(g)' <=> Co!Running(g)) /\ (CoLived(g)' <=> CoLived(g))
  BY DEF CoBegin, Co!Running, CoLived
<1>6. ~CoLived(h)' /\ ~CoLived(h) /\ ~Co!Running(h)
  BY DEF CoBegin, Co!Running, CoLived, Co!Kinds
<1> QED
  BY <1>1, <1>2, <1>3, <1>4, <1>5, <1>6 DEF CoBegun, n

LEMMA CoLogBegun ==
  ASSUME CoLog, CoAlone, NEW h \in CoHooks, NEW k, NEW c, CoBegin(h, k, c)
  PROVE  CoLog' /\ CoAlone'
<1> DEFINE n == Len(world.log)
           log == world'.log
<1>b. CoBegun(h, k, c)
  BY CoBegunBy
<1>n. /\ n \in Nat /\ DOMAIN world.log = 1 .. n /\ DOMAIN log = 1 .. n + 1
      /\ \A i \in 1 .. n : log[i] = world.log[i] /\ world.log[i].by # h /\ world.log[i].by \in CoHooks
      /\ log[n + 1].kind = k /\ log[n + 1].by = h /\ log[n + 1].call = c
  BY <1>b DEF CoBegun
<1>x. /\ \A x : EventsOf(x)' = IF x = k THEN EventsOf(x) \cup {n + 1} ELSE EventsOf(x)
      /\ \A x : EventsOf(x) \subseteq 1 .. n
      /\ \A p : \A i \in 1 .. n : TurnOf(p, i)' <=> TurnOf(p, i)
  BY <1>b DEF CoBegun
<1>a. /\ CoPlaced(hooks'[h]) /\ hooks'[h].at \notin {"new", "done"}
      /\ hooks'[h].kind = k /\ hooks'[h].call = c
  BY DEF CoBegin, CoPlaced, Co!Kinds
<1> HIDE DEF n, log
<1>1. DOMAIN hooks' = CoHooks /\ \A g \in CoHooks : CoPlaced(hooks'[g])
  BY <1>a DEF CoLog, CoBegin
<1>2. world'.died \subseteq {g \in CoHooks : hooks'[g].at = "done"}
  BY DEF CoLog, CoBegin
<1>3. ASSUME NEW g \in CoHooks, hooks'[g].at # "new"
      PROVE  \E i \in DOMAIN log : log[i].by = g
  <2>1. CASE g = h
    BY <1>n, <2>1
  <2>2. CASE g # h
    <3>1. PICK i \in DOMAIN world.log : world.log[i].by = g
      BY <1>3, <2>2 DEF CoBegin, CoLog
    <3> QED
      BY <1>n, <3>1
  <2> QED
    BY <2>1, <2>2
<1>4. \A i, j \in DOMAIN log : log[i].by = log[j].by => i = j
  <2>1. \A i, j \in 1 .. n : world.log[i].by = world.log[j].by => i = j
    BY <1>n DEF CoLog
  <2>2. \A i \in 1 .. n + 1 : i \in 1 .. n \/ i = n + 1
    BY <1>n
  <2> QED
    BY <1>n, <2>1, <2>2
<1>o. ASSUME NEW i \in 1 .. n, world.log[i].kind = "postTool", k = "postTool"
      PROVE  world.log[i].call # c
  BY <1>n, <1>o, SameEvents DEF CoBegin, Co!OpenCalls, EventsOf
<1>5. \A i, j \in DOMAIN log :
        log[i].kind = "postTool" /\ log[j].kind = "postTool" /\ log[i].call = log[j].call => i = j
  <2>1. \A i, j \in 1 .. n :
          world.log[i].kind = "postTool" /\ world.log[j].kind = "postTool"
            /\ world.log[i].call = world.log[j].call => i = j
    BY <1>n DEF CoLog
  <2>2. \A i \in 1 .. n + 1 : i \in 1 .. n \/ i = n + 1
    BY <1>n
  <2> QED
    BY <1>n, <1>o, <2>1, <2>2
<1>6. ASSUME NEW i \in 1 .. n, CoInTurn(i)
      PROVE  CoInTurn(i)'
  <2>1. PICK p \in EventsOf("prompt") :
          /\ TurnOf(p, i) /\ \A s \in EventsOf("stop") : s < i => s < p
          /\ world.log[i].kind = "postTool" =>
               \E j \in EventsOf("preTool") : p < j /\ j < i /\ world.log[j].by = world.log[i].call
    BY <1>6 DEF CoInTurn
  <2>2. TurnOf(p, i)' /\ p \in EventsOf("prompt")' /\ log[i] = world.log[i]
    BY <1>n, <1>x, <2>1
  <2>3. \A s \in EventsOf("stop")' : s < i => s < p
    <3>1. \A s \in EventsOf("stop")' : s \in EventsOf("stop") \/ s = n + 1
      BY <1>x
    <3>2. ~(n + 1 < i)
      BY <1>n
    <3> QED
      BY <2>1, <3>1, <3>2
  <2>4. world.log[i].kind = "postTool" =>
          \E j \in EventsOf("preTool")' : p < j /\ j < i /\ log[j].by = world.log[i].call
    BY <1>n, <1>x, <2>1
  <2> QED
    BY <2>2, <2>3, <2>4 DEF CoInTurn, log
<1>7. ASSUME NEW m, m = n + 1, k \in KiTools \cup {"stop"}
      PROVE  CoInTurn(m)'
  <2>1. PICK p \in EventsOf("prompt") : /\ p \in Nat /\ p <= n /\ p = Co!PromptOf(Co!Here)
                                         /\ \A q \in EventsOf("prompt") : q <= p
                                         /\ \A s \in EventsOf("stop") : s < p
    BY <1>7, OpenTurn DEF CoBegin, CoLog, n
  <2>2. EventsOf("prompt")' = EventsOf("prompt")
    BY <1>7, <1>x DEF KiTools
  <2>3. TurnOf(p, m)'
    <3>1. p <= m
      BY <1>7, <1>n, <2>1
    <3> QED
      BY <2>1, <2>2, <3>1 DEF TurnOf
  <2>4. \A s \in EventsOf("stop")' : s < m => s < p
    <3>1. \A s \in EventsOf("stop")' : s \in EventsOf("stop") \/ s = n + 1
      BY <1>x
    <3>2. ~(n + 1 < m)
      BY <1>7, <1>n
    <3> QED
      BY <2>1, <3>1, <3>2
  <2>5. ASSUME k = "postTool"
        PROVE  \E j \in EventsOf("preTool")' : p < j /\ j < m /\ log[j].by = c
    <3>1. PICK j \in EventsOf("preTool") : j > p /\ world.log[j].call = c
      BY <2>1, <2>5, SameEvents DEF CoBegin, Co!OpenCalls
    <3>2. j \in 1 .. n /\ world.log[j].by = c
      BY <1>n, <3>1 DEF CoLog, EventsOf
    <3>3. j \in EventsOf("preTool")'
      BY <1>x
    <3> QED
      BY <1>7, <1>n, <2>1, <3>1, <3>2, <3>3
  <2> QED
    BY <1>7, <1>n, <2>1, <2>2, <2>3, <2>4, <2>5 DEF CoInTurn, log
<1>8. ASSUME NEW i \in DOMAIN log
      PROVE  LET e == log[i]
                 u == hooks'[e.by] IN
             /\ e.by \in CoHooks /\ u.at # "new"
             /\ e.kind = "preTool" => e.call = e.by
             /\ e.kind \notin KiTools => e.call = None
             /\ u.at \notin {"new", "done"} => u.kind = e.kind /\ u.call = e.call
             /\ e.kind \in KiTools \cup {"stop"} => CoInTurn(i)'
  <2>1. CASE i \in 1 .. n
    <3> DEFINE e == world.log[i]
    <3>1. /\ e.by \in CoHooks /\ hooks[e.by].at # "new"
          /\ e.kind = "preTool" => e.call = e.by
          /\ e.kind \notin KiTools => e.call = None
          /\ Co!Running(e.by) => hooks[e.by].kind = e.kind /\ hooks[e.by].call = e.call
          /\ e.kind \in KiTools \cup {"stop"} => CoInTurn(i)
      BY <1>n, <2>1 DEF CoLog
    <3>2. log[i] = e /\ e.by # h /\ hooks'[e.by] = hooks[e.by]
      BY <1>n, <2>1 DEF CoBegin
    <3> QED
      BY <1>6, <2>1, <3>1, <3>2 DEF Co!Running
  <2>2. CASE i = n + 1
    <3>1. /\ log[i].by = h /\ log[i].kind = k /\ log[i].call = c
          /\ k = "preTool" => c = h
          /\ k \notin KiTools => c = None
      BY <1>n, <2>2 DEF CoBegin
    <3> QED
      BY <1>7, <1>a, <2>2, <3>1
  <2> QED
    BY <1>n, <2>1, <2>2
<1>9. CoLog'
  <2>1. IsSeq(world'.log)
    BY CoAppended
  <2>2. /\ None \notin CoHooks /\ CoHooks' = CoHooks
        /\ DOMAIN world' = {"named", "died", "log"} /\ world'.named \in BOOLEAN
    BY DEF CoLog, CoBegin, CoHooks
  <2> QED
    BY <1>1, <1>2, <1>3, <1>4, <1>5, <1>8, <2>1, <2>2 DEF CoLog, CoPlaced, CoHooks, IsSeq, Co!Running, log
<1>10. CoAlone'
  <2> SUFFICES ASSUME NEW i \in DOMAIN log, NEW j \in DOMAIN log, i < j,
                      hooks'[log[i].by].at \notin {"new", "done"}
               PROVE  /\ {log[i].kind, log[j].kind} \subseteq Co!Background
                      /\ log[j].call # None => log[i].call # log[j].call
    BY DEF CoAlone, Co!Background, Co!Running, log
  <2>2. i \in 1 .. n /\ log[i] = world.log[i] /\ world.log[i].by # h /\ world.log[i].by \in CoHooks
    BY <1>n
  <2>3. Co!Running(world.log[i].by)
    BY <2>2 DEF CoBegin, Co!Running
  <2>4. CASE j \in 1 .. n
    BY <1>n, <2>2, <2>3, <2>4 DEF CoAlone
  <2>5. CASE j = n + 1
    <3>1. /\ {k, hooks[world.log[i].by].kind} \subseteq Co!Background
          /\ c # None => hooks[world.log[i].by].call # c
      BY <2>2, <2>3 DEF CoBegin, Co!MayStart, CoHooks
    <3>2. hooks[world.log[i].by].kind = world.log[i].kind /\ hooks[world.log[i].by].call = world.log[i].call
      BY <1>n, <2>2, <2>3 DEF CoLog
    <3> QED
      BY <1>n, <2>2, <2>5, <3>1, <3>2
  <2> QED
    BY <1>n, <2>4, <2>5
<1> QED
  BY <1>9, <1>10

LEMMA CoOpenBegun ==
  ASSUME CoLog, CoOpen, NEW h \in CoHooks, NEW k, NEW c, CoBegin(h, k, c)
  PROVE  CoOpen'
<1> DEFINE n == Len(world.log)
           log == world'.log
           Open(x) == /\ Co!Get(store, Co!TraceKey) = x /\ Co!Get(store, Co!SpanKey) = x
                     /\ Co!Has(store, Co!SessionKey)
<1>b. CoBegun(h, k, c)
  BY CoBegunBy
<1>n. /\ n \in Nat /\ DOMAIN world.log = 1 .. n /\ DOMAIN log = 1 .. n + 1
      /\ \A i \in 1 .. n : log[i] = world.log[i] /\ world.log[i].by # h /\ world.log[i].by \in CoHooks
      /\ log[n + 1].kind = k /\ log[n + 1].by = h /\ log[n + 1].call = c
      /\ \A x : EventsOf(x)' = IF x = k THEN EventsOf(x) \cup {n + 1} ELSE EventsOf(x)
      /\ \A x : EventsOf(x) \subseteq 1 .. n
  BY <1>b DEF CoBegun
<1>a. ~CoLived(h)' /\ store' = store
  BY <1>b DEF CoBegun, CoBegin
<1> HIDE DEF n, log
<1>1. ASSUME NEW g \in CoHooks
      PROVE  /\ hooks'[g].at \in {"open", "openSpan", "resetCount"} => Co!Has(store, Co!SessionKey)
             /\ hooks'[g].at \in {"openSpan", "resetCount"} => Co!Get(store, Co!TraceKey) = g
             /\ hooks'[g].at = "resetCount" => Co!Get(store, Co!SpanKey) = g
  <2>1. CASE g = h
    <3>1. hooks'[h].at \in {"ensure"} \cup Co!Kinds
      BY DEF CoBegin
    <3> QED
      BY <2>1, <3>1 DEF Co!Kinds
  <2>2. CASE g # h
    BY <2>2 DEF CoBegin, CoOpen
  <2> QED
    BY <2>1, <2>2
<1>2. ASSUME NEW p \in EventsOf("prompt")', \A q \in EventsOf("prompt")' : q <= p,
             hooks'[log[p].by].at = "done", log[p].by \notin world'.died,
             \A s \in EventsOf("stop")' : p < s => hooks'[log[s].by].at \in CoUnclosed
      PROVE  Open(log[p].by)
  <2>1. p # n + 1
    BY <1>2, <1>a, <1>n DEF CoLived
  <2>2. p \in EventsOf("prompt") /\ p \in 1 .. n
    BY <1>n, <2>1
  <2>3. \A q \in EventsOf("prompt") : q <= p
    BY <1>2, <1>n
  <2>4. CoLived(world.log[p].by) /\ log[p] = world.log[p]
    BY <1>2, <1>n, <2>2 DEF CoBegin, CoLived
  <2>5. ASSUME NEW s \in EventsOf("stop"), p < s
        PROVE  hooks[world.log[s].by].at \in CoUnclosed
    <3>1. s \in 1 .. n /\ s \in EventsOf("stop")'
      BY <1>n
    <3> QED
      BY <1>2, <1>n, <2>5, <3>1 DEF CoBegin
  <2> QED
    BY <2>2, <2>3, <2>4, <2>5 DEF CoOpen
<1>3. CoHooks' = CoHooks
  BY DEF CoHooks
<1> QED
  <2>1. ASSUME NEW p \in EventsOf("prompt")', \A q \in EventsOf("prompt")' : q <= p,
               CoLived(world.log[p].by)',
               \A s \in EventsOf("stop")' : p < s => hooks'[world'.log[s].by].at \in CoUnclosed
        PROVE  Open(world'.log[p].by)
    <3>1. hooks'[log[p].by].at = "done" /\ log[p].by \notin world'.died
      BY <2>1 DEF CoLived, log
    <3> QED
      BY <1>2, <2>1, <3>1 DEF log
  <2> QED
    BY <1>1, <1>3, <1>a, <2>1 DEF CoOpen, CoUnclosed, Co!TraceKey, Co!SpanKey, Co!SessionKey, Co!Get, Co!Has

LEMMA CoRestBegun ==
  ASSUME CoLog, CoAlone, CoReads, CoStarts, CoCounts, CoSent, CoReported,
         NEW h \in CoHooks, NEW k, NEW c, CoBegin(h, k, c)
  PROVE  CoReads' /\ CoStarts' /\ CoCounts' /\ CoSent' /\ CoReported'
<1> DEFINE n == Len(world.log)
           log == world'.log
           Alive(x) == hooks'[x].at = "done" /\ x \notin world'.died
<1>b. CoBegun(h, k, c)
  BY CoBegunBy
<1>n. /\ n \in Nat /\ DOMAIN world.log = 1 .. n /\ DOMAIN log = 1 .. n + 1
      /\ \A i \in 1 .. n : log[i] = world.log[i] /\ world.log[i].by # h /\ world.log[i].by \in CoHooks
      /\ log[n + 1].kind = k /\ log[n + 1].by = h /\ log[n + 1].call = c
      /\ \A p : \A i \in 1 .. n : TurnOf(p, i)' <=> TurnOf(p, i)
  BY <1>b DEF CoBegun
<1>x. /\ \A x : EventsOf(x)' = IF x = k THEN EventsOf(x) \cup {n + 1} ELSE EventsOf(x)
      /\ \A x : EventsOf(x) \subseteq 1 .. n
  BY <1>b DEF CoBegun
<1>a. (\A x : CoLived(x)' <=> Alive(x)) /\ (\A x \in CoHooks : Alive(x) <=> CoLived(x)) /\ ~Alive(h)
  BY DEF CoLived, CoBegin, Co!Kinds
<1>h. /\ \A g \in CoHooks : g # h => hooks'[g] = hooks[g]
      /\ hooks'[h].at = (IF k = "prompt" THEN "ensure" ELSE k) /\ k \in Co!Kinds
      /\ hooks'[h].kind = k /\ hooks'[h].call = c /\ hooks[h].at = "new"
      /\ store' = store /\ sent' = sent /\ world'.named = world.named /\ world'.died = world.died
  BY DEF CoBegin
<1>t. ASSUME NEW p \in DOMAIN log, NEW i \in DOMAIN log, i # n + 1, TurnOf(p, i)'
      PROVE  /\ i \in 1 .. n /\ p \in 1 .. n /\ log[i] = world.log[i] /\ log[p] = world.log[p]
             /\ TurnOf(p, i) /\ hooks'[log[i].by] = hooks[world.log[i].by]
             /\ Alive(log[p].by) => CoLived(world.log[p].by)
  <2>1. i \in 1 .. n
    BY <1>n, <1>t
  <2>2. TurnOf(p, i)
    BY <1>n, <1>t, <2>1
  <2>3. p \in 1 .. n
    BY <1>n, <2>1, <2>2, CoTurnOf
  <2> HIDE DEF n, log, Alive
  <2> QED
    BY <1>a, <1>h, <1>n, <1>t, <2>1, <2>2, <2>3
<1>w. ASSUME NEW p, NEW i \in 1 .. n
      PROVE  /\ Whole(p, i)' => Whole(p, i)
             /\ Co!PostsOfTurn(p, i)' = Co!PostsOfTurn(p, i)
  <2>1. Whole(p, i)' => Whole(p, i)
    BY <1>h, <1>n DEF Whole
  <2>2. /\ Co!PostsOfTurn(p, i) = {j \in EventsOf("postTool") : p < j /\ j <= i}
        /\ Co!PostsOfTurn(p, i)' = {j \in EventsOf("postTool")' : p < j /\ j <= i}
    BY SameEvents DEF Co!PostsOfTurn, EventsOf, Co!Events
  <2>3. ~(n + 1 <= i)
    BY <1>n
  <2> HIDE DEF n
  <2>4. \A j : j \in EventsOf("postTool")' => j \in EventsOf("postTool") \/ j = n + 1
    BY <1>x
  <2>5. \A j : j \in EventsOf("postTool") => j \in EventsOf("postTool")'
    BY <1>x
  <2>6. Co!PostsOfTurn(p, i)' = Co!PostsOfTurn(p, i)
    BY <2>2, <2>3, <2>4, <2>5
  <2> QED
    BY <2>1, <2>6
<1> HIDE DEF n, log, Alive
<1>1. CoReads'
  <2>1. ASSUME NEW i \in DOMAIN log, NEW p \in DOMAIN log, TurnOf(p, i)', Alive(log[p].by)
        PROVE  LET u == hooks'[log[i].by]
                   turn == log[p].by IN
               u.kind \in CoReports =>
                 /\ u.at \notin {"postTool", "stop", "done"} => u.trace = turn
                 /\ u.at \notin {"postTool", "stop", "span", "done"} => u.span = turn
    <3>1. CASE i = n + 1
      BY <1>h, <1>n, <3>1 DEF CoReports
    <3>2. CASE i # n + 1
      <4>1. /\ i \in 1 .. n /\ p \in 1 .. n /\ log[i] = world.log[i] /\ log[p] = world.log[p]
            /\ TurnOf(p, i) /\ CoLived(world.log[p].by) /\ hooks'[log[i].by] = hooks[world.log[i].by]
        BY <1>t, <2>1, <3>2
      <4> QED
        BY <1>n, <4>1 DEF CoReads
    <3> QED
      BY <3>1, <3>2
  <2> QED
    BY <1>a, <2>1 DEF CoReads, CoReports, log
<1>2. CoStarts'
  <2> SUFFICES ASSUME ~world.named
               PROVE  CoStarts'
    BY <1>h DEF CoStarts
  <2>1. ASSUME NEW i \in EventsOf("preTool")', Alive(log[i].by),
               \A j \in EventsOf("postTool")' :
                 log[j].call = log[i].by => hooks'[log[j].by].at \in CoUnread
        PROVE  Co!Get(store, Co!StartKey(log[i].by)) = log[i].by
    <3>1. i # n + 1
      BY <1>a, <1>n, <2>1
    <3>2. i \in EventsOf("preTool") /\ i \in 1 .. n
      BY <1>x, <3>1
    <3>3. log[i] = world.log[i] /\ CoLived(world.log[i].by)
      BY <1>a, <1>n, <2>1, <3>2
    <3>4. ASSUME NEW j \in EventsOf("postTool"), world.log[j].call = world.log[i].by
          PROVE  hooks[world.log[j].by].at \in CoUnread
      <4>1. j \in 1 .. n /\ j \in EventsOf("postTool")'
        BY <1>x
      <4> QED
        BY <1>h, <1>n, <2>1, <3>3, <3>4, <4>1
    <3> QED
      BY <3>2, <3>3, <3>4 DEF CoStarts
  <2>2. ASSUME NEW g \in CoHooks, hooks'[g].kind = "postTool", hooks'[g].at \in {"dropStart", "send"},
               Alive(hooks'[g].call)
        PROVE  hooks'[g].start = hooks'[g].call
    <3>1. g # h
      BY <1>h, <2>2 DEF Co!Kinds
    <3>2. hooks'[g] = hooks[g] /\ Co!Running(g)
      BY <1>h, <2>2, <3>1 DEF Co!Running
    <3>3. PICK m \in DOMAIN world.log :
            world.log[m].kind = "postTool" /\ world.log[m].call = hooks[g].call
      BY <2>2, <3>2, CoEvent
    <3>4. hooks[g].call \in CoHooks
      BY <3>3, CoCall
    <3>5. CoLived(hooks[g].call)
      BY <1>a, <2>2, <3>2, <3>4
    <3> QED
      BY <2>2, <3>2, <3>5 DEF CoStarts
  <2>3. CoHooks' = CoHooks /\ \A x : Co!StartKey(x)' = Co!StartKey(x)
    BY <1>h DEF CoHooks, Co!StartKey
  <2>4. \A x : Co!Get(store', x) = Co!Get(store, x)
    BY <1>h
  <2>5. ASSUME NEW i \in EventsOf("preTool")', CoLived(world.log[i].by)',
               \A j \in EventsOf("postTool")' :
                 world'.log[j].call = world'.log[i].by => hooks'[world'.log[j].by].at \in CoUnread
        PROVE  Co!Get(store', Co!StartKey(world.log[i].by)') = world'.log[i].by
    <3>1. Alive(log[i].by)
      BY <1>a, <2>5 DEF log, CoLived, Alive
    <3>2. Co!Get(store, Co!StartKey(log[i].by)) = log[i].by
      BY <2>1, <2>5, <3>1 DEF log
    <3>3. Co!StartKey(world.log[i].by)' = Co!StartKey(log[i].by)
      BY <1>h DEF Co!StartKey, log
    <3> QED
      BY <2>4, <3>2, <3>3 DEF log
  <2>6. \A g \in CoHooks : LET u == hooks'[g] IN
          u.kind = "postTool" /\ u.at \in {"dropStart", "send"} /\ Alive(u.call) => u.start = u.call
    BY <2>2
  <2> QED
    BY <2>3, <2>5, <2>6 DEF CoStarts, CoUnread, CoUncounted, CoLived, Alive, Co!Get
<1>3. CoCounts'
  <2>1. ASSUME NEW p \in EventsOf("prompt")', \A q \in EventsOf("prompt")' : q <= p,
               Alive(log[p].by), \A j \in DOMAIN log : p <= j /\ j <= Len(log) => log[j].by \notin world'.died
        PROVE  Co!Count = Cardinality(Counted(p)')
    <3>1. p # n + 1
      BY <1>a, <1>n, <2>1
    <3>2. p \in EventsOf("prompt") /\ p \in 1 .. n
      BY <1>x, <3>1
    <3>3. \A q \in EventsOf("prompt") : q <= p
      BY <1>x, <2>1
    <3>4. CoLived(world.log[p].by)
      BY <1>a, <1>n, <2>1, <3>2
    <3>5. Whole(p, n)
      <4>1. \A j \in 1 .. n : j \in DOMAIN log /\ log[j] = world.log[j]
        BY <1>n
      <4>2. \A j \in 1 .. n : j <= Len(log)
        <5>1. IsSeq(log)
          BY CoAppended DEF log
        <5>2. Len(log) \in Nat /\ DOMAIN log = 1 .. Len(log)
          BY <5>1, AppendAny
        <5> QED
          BY <4>1, <5>2
      <4> QED
        BY <1>h, <1>n, <2>1, <4>1, <4>2 DEF Whole
    <3>6. Co!Count = Cardinality(Counted(p))
      BY <3>2, <3>3, <3>4, <3>5 DEF CoCounts, n
    <3>7. Counted(p)' = Counted(p)
      <4>1. Counted(p)' = {j \in EventsOf("postTool")' : p < j /\ hooks'[log[j].by].at \notin CoUncounted}
        BY DEF Counted, CoUncounted, log
      <4>2. \A j \in EventsOf("postTool") : hooks'[log[j].by].at = hooks[world.log[j].by].at
        BY <1>h, <1>n, <1>x
      <4>3. k = "postTool" => hooks'[log[n + 1].by].at \in CoUncounted
        BY <1>h, <1>n DEF CoUncounted
      <4> QED
        BY <1>x, <4>1, <4>2, <4>3 DEF Counted
    <3> QED
      BY <3>6, <3>7
  <2>2. ASSUME NEW i \in DOMAIN log, NEW p \in DOMAIN log, TurnOf(p, i)', Whole(p, i)',
               hooks'[log[i].by].kind = "stop", hooks'[log[i].by].at = "send"
        PROVE  hooks'[log[i].by].count = Cardinality(Co!PostsOfTurn(p, i)')
    <3>1. i # n + 1
      BY <1>h, <1>n, <2>2 DEF Co!Kinds
    <3>2. /\ i \in 1 .. n /\ p \in 1 .. n /\ log[i] = world.log[i] /\ log[p] = world.log[p]
          /\ TurnOf(p, i) /\ hooks'[log[i].by] = hooks[world.log[i].by]
      BY <1>t, <2>2, <3>1
    <3>3. Whole(p, i) /\ Co!PostsOfTurn(p, i)' = Co!PostsOfTurn(p, i)
      BY <1>w, <2>2, <3>2
    <3> QED
      BY <1>n, <2>2, <3>2, <3>3 DEF CoCounts
  <2>3. Co!Count' = Co!Count
    BY <1>h DEF Co!Count, Co!Has, Co!CountKey
  <2>4. ASSUME NEW p \in EventsOf("prompt")', \A q \in EventsOf("prompt")' : q <= p,
               CoLived(world.log[p].by)', Whole(p, Len(world.log))'
        PROVE  Co!Count' = Cardinality(Counted(p)')
    <3>1. Alive(log[p].by)
      BY <2>4 DEF log, CoLived, Alive
    <3>2. \A j \in DOMAIN log : p <= j /\ j <= Len(log) => log[j].by \notin world'.died
      BY <2>4 DEF Whole, log
    <3> QED
      BY <2>1, <2>3, <2>4, <3>1, <3>2
  <2> QED
    BY <2>2, <2>4 DEF CoCounts, log
<1>4. CoSent'
  <2>1. \A j \in DOMAIN sent : sent[j].by \in CoHooks /\ sent[j].by # h
    BY <1>h DEF CoSent, CoEnd
  <2>2. \A j \in DOMAIN sent : hooks'[sent[j].by].at \in CoEnd \cup {"done"}
    BY <1>h, <2>1 DEF CoSent
  <2>3. ASSUME NEW i \in DOMAIN log, NEW p \in DOMAIN log, log[i].kind \in CoReports, TurnOf(p, i)',
               Alive(log[p].by), hooks'[log[i].by].at \in CoEnd \/ Alive(log[i].by)
        PROVE  \E j \in DOMAIN sent : sent[j].by = log[i].by
    <3>1. CASE i = n + 1
      BY <1>a, <1>h, <1>n, <2>3, <3>1 DEF CoEnd, Co!Kinds
    <3>2. CASE i # n + 1
      <4>1. /\ i \in 1 .. n /\ p \in 1 .. n /\ log[i] = world.log[i] /\ log[p] = world.log[p]
            /\ TurnOf(p, i) /\ CoLived(world.log[p].by) /\ hooks'[log[i].by] = hooks[world.log[i].by]
        BY <1>t, <2>3, <3>2
      <4>2. hooks[world.log[i].by].at \in CoEnd \/ CoLived(world.log[i].by)
        BY <1>a, <1>n, <2>3, <4>1
      <4> QED
        BY <1>n, <2>3, <4>1, <4>2 DEF CoSent
    <3> QED
      BY <3>1, <3>2
  <2> QED
    BY <1>a, <1>h, <2>1, <2>2, <2>3 DEF CoSent, CoHooks, IsSeq, log
<1>5. CoReported'
  <2>1. ASSUME NEW i \in DOMAIN log, NEW p \in DOMAIN log, NEW j \in DOMAIN sent,
               log[i].kind \in CoReports, sent[j].by = log[i].by, TurnOf(p, i)', Alive(log[p].by)
        PROVE  LET e == log[i]
                   turn == log[p].by IN
               /\ sent[j].trace = turn /\ sent[j].span = turn
               /\ e.kind = "postTool" => sent[j].call = e.call
               /\ e.kind = "postTool" /\ ~world.named /\ Alive(e.call) => sent[j].start = e.call
               /\ e.kind = "stop" /\ Whole(p, i)' => sent[j].count = Cardinality(Co!PostsOfTurn(p, i)')
    <3>1. i # n + 1
      BY <1>h, <1>n, <2>1 DEF CoSent, CoEnd
    <3>2. /\ i \in 1 .. n /\ p \in 1 .. n /\ log[i] = world.log[i] /\ log[p] = world.log[p]
          /\ TurnOf(p, i) /\ CoLived(world.log[p].by)
      BY <1>t, <2>1, <3>1
    <3>3. world.log[i].kind = "postTool" => world.log[i].call \in CoHooks
      BY <1>n, <3>2, CoCall
    <3>4. (Whole(p, i)' => Whole(p, i)) /\ Co!PostsOfTurn(p, i)' = Co!PostsOfTurn(p, i)
      BY <1>w, <3>2
    <3> QED
      BY <1>a, <1>n, <2>1, <3>2, <3>3, <3>4 DEF CoReported
  <2> QED
    BY <1>a, <1>h, <2>1 DEF CoReported, CoReports, log
<1> QED
  BY <1>1, <1>2, <1>3, <1>4, <1>5

LEMMA CoInit ==
  ASSUME Co!CopilotAssumption, Co!Init
  PROVE  CoInv
<1>1. /\ hooks = [h \in CoHooks |-> Co!Unborn] /\ sent = <<>> /\ None \notin CoHooks
      /\ \E o \in Named : world = [named |-> o, died |-> {}, log |-> <<>>]
      /\ Named \subseteq BOOLEAN
  BY DEF Co!Init, Co!CopilotAssumption, CoHooks
<1>2. /\ DOMAIN hooks = CoHooks /\ \A h \in CoHooks : hooks[h] = Co!Unborn
      /\ DOMAIN world = {"named", "died", "log"} /\ world.named \in BOOLEAN
      /\ world.died = {} /\ world.log = <<>>
  BY <1>1
<1>3. DOMAIN Co!Unborn = CoFields /\ Co!Unborn.at = "new" /\ Co!Unborn.kind = None
  BY DEF Co!Unborn, CoFields
<1>4. IsSeq(<<>>) /\ DOMAIN <<>> = {}
  BY DEF IsSeq
<1>5. \A x : EventsOf(x) = {}
  BY <1>2, <1>4 DEF EventsOf
<1>6. CoLog
  BY <1>1, <1>2, <1>3, <1>4 DEF CoLog, CoPlaced
<1>7. CoAlone /\ CoReads /\ CoCounts
  BY <1>2, <1>4, <1>5 DEF CoAlone, CoReads, CoCounts
<1>8. CoOpen /\ CoStarts
  BY <1>2, <1>3, <1>5 DEF CoOpen, CoStarts
<1>9. CoSent /\ CoReported
  BY <1>1, <1>2, <1>4 DEF CoSent, CoReported
<1> QED
  BY <1>6, <1>7, <1>8, <1>9 DEF CoInv

LEMMA CoStep ==
  ASSUME CoInv, [Co!Next]_Co!vars
  PROVE  CoInv'
<1>i. CoLog /\ CoAlone /\ CoOpen /\ CoReads /\ CoStarts /\ CoCounts /\ CoSent /\ CoReported
  BY DEF CoInv
<1>1. ASSUME NEW h \in CoHooks, CoMove(h) \/ CoDeath(h)
      PROVE  CoInv'
  BY <1>i, <1>1, CoLogKept, CoOpenKept, CoReadsKept, CoStartsKept, CoCountsKept, CoSentKept, CoReportedKept DEF CoInv
<1>2. ASSUME NEW h \in CoHooks, NEW k, NEW c, CoBegin(h, k, c)
      PROVE  CoInv'
  BY <1>i, <1>2, CoLogBegun, CoOpenBegun, CoRestBegun DEF CoInv
<1>3. CASE Co!Next
  <2>1. PICK h \in CoHooks : Co!Step(h)
    BY <1>3 DEF Co!Next, CoHooks
  <2> QED
    BY <1>i, <1>1, <1>2, <2>1, CoSteps
<1>4. CASE UNCHANGED Co!vars
  <2>1. store' = store /\ hooks' = hooks /\ world' = world /\ sent' = sent
    BY <1>4 DEF Co!vars
  <2>2. /\ \A x : EventsOf(x)' = EventsOf(x)
        /\ \A x : (CoLived(x)' <=> CoLived(x)) /\ (Co!Running(x)' <=> Co!Running(x))
        /\ CoHooks' = CoHooks
    BY <2>1 DEF EventsOf, CoLived, Co!Running, CoHooks
  <2>3. \A p, i : TurnOf(p, i)' <=> TurnOf(p, i)
    BY <2>2 DEF TurnOf
  <2>a. /\ \A i : CoInTurn(i)' <=> CoInTurn(i)
        /\ \A p : Counted(p)' = Counted(p)
        /\ \A p, i : (Whole(p, i)' <=> Whole(p, i)) /\ Co!PostsOfTurn(p, i)' = Co!PostsOfTurn(p, i)
        /\ \A c : Co!StartKey(c)' = Co!StartKey(c)
    BY <2>1, <2>2, <2>3 DEF CoInTurn, Counted, CoUncounted, Whole, Co!PostsOfTurn, Co!Events, Co!StartKey
  <2>4. CoLog'
    BY <1>i, <2>1, <2>2, <2>3, <2>a DEF CoLog, CoPlaced, IsSeq, Co!Running
  <2>5. CoAlone'
    BY <1>i, <2>1 DEF CoAlone, Co!Running, Co!Background
  <2>6. CoOpen'
    BY <1>i, <2>1, <2>2 DEF CoOpen, CoLived, Co!Get, Co!Has, Co!TraceKey, Co!SpanKey, Co!SessionKey
  <2>7. CoReads'
    BY <1>i, <2>1, <2>3 DEF CoReads, CoLived
  <2>8. CoStarts'
    BY <1>i, <2>1, <2>2, <2>a DEF CoStarts, CoLived, Co!Get
  <2>9. CoCounts'
    BY <1>i, <2>1, <2>2, <2>3, <2>a DEF CoCounts, CoLived, Co!Count, Co!Has, Co!CountKey
  <2>10. CoSent'
    BY <1>i, <2>1, <2>2, <2>3 DEF CoSent, IsSeq, CoLived
  <2>11. CoReported'
    BY <1>i, <2>1, <2>3, <2>a DEF CoReported, CoLived
  <2> QED
    BY <2>4, <2>5, <2>6, <2>7, <2>8, <2>9, <2>10, <2>11 DEF CoInv
<1> QED
  BY <1>3, <1>4

LEMMA CoCardinality == \A S : Co!Cardinality(S) = Cardinality(S)
BY DEF Co!Cardinality, Cardinality

(* Copilot: whatever died in the turns before and however the calls        *)
(* overlap, a turn of which no hook died is reported with the ids of its   *)
(* prompt, the number of its results, one span per result and, where calls *)
(* have ids, the start of each call (_handle_user_prompt_submitted,        *)
(* _handle_post_tool_use, _handle_stop).                                   *)
THEOREM CopilotTurns == Spec => []TurnReported
<1> DEFINE Inv == harness = "copilot" => CoInv
<1>1. Init => Inv
  <2>1. Co!CopilotAssumption
    BY HarnessesAssumption
  <2> QED
    BY <2>1, CoInit DEF Init
<1>2. Inv /\ [Next]_vars => Inv'
  <2> SUFFICES ASSUME Inv, [Next]_vars, harness' = "copilot"
               PROVE  CoInv'
    OBVIOUS
  <2>1. harness = "copilot"
    BY DEF Next, vars
  <2>2. [Next]_vars /\ harness = "copilot" => [Co!Next]_Co!vars
    BY DEF Next, vars, Co!vars
  <2> QED
    BY <2>1, <2>2, CoStep
<1>3. Inv => TurnReported
  <2> SUFFICES ASSUME CoInv, NEW i \in EventsOf("stop"),
                      hooks[world.log[i].by].at = "done",
                      Co!HooksOfTurn(Co!PromptOf(i), i) \cap world.died = {}
               PROVE  LET p == Co!PromptOf(i)
                          ids == world.log[p].by IN
                      /\ \E r \in DOMAIN sent :
                           /\ Co!SpansOf(world.log[i].by) = {r}
                           /\ sent[r].trace = ids /\ sent[r].span = ids
                           /\ sent[r].count = Cardinality(Co!PostsOfTurn(p, i))
                      /\ \A j \in Co!PostsOfTurn(p, i) : \E s \in DOMAIN sent :
                           /\ Co!SpansOf(world.log[j].by) = {s}
                           /\ sent[s].trace = ids /\ sent[s].span = ids
                           /\ ~world.named => sent[s].start = sent[s].call
    BY SameEvents, CoCardinality DEF TurnReported, Co!TurnReported
  <2>i. CoLog /\ CoAlone /\ CoSent /\ CoReported
    BY DEF CoInv
  <2>1. i \in DOMAIN world.log /\ world.log[i].kind = "stop"
    BY DEF EventsOf
  <2>2. PICK p \in EventsOf("prompt") : TurnOf(p, i)
    BY <2>1, <2>i DEF CoLog, CoInTurn
  <2>3. /\ p \in DOMAIN world.log /\ Co!PromptOf(i) = p /\ p \in Nat /\ i \in Nat
        /\ \A j \in DOMAIN world.log : j \in Nat
    BY <2>1, <2>2, <2>i, CoTurnOf, AppendAny DEF CoLog
  <2> DEFINE ids == world.log[p].by
  <2>4. Whole(p, i)
    <3>1. \A j \in p .. i : world.log[j].by \notin world.died
      BY <2>3 DEF Co!HooksOfTurn
    <3>2. \A j \in DOMAIN world.log : p <= j /\ j <= i => j \in p .. i
      BY <2>3
    <3> QED
      BY <3>1, <3>2 DEF Whole
  <2>5. /\ CoLived(ids)
        /\ \A j \in DOMAIN world.log : p < j /\ j < i => CoLived(world.log[j].by)
    BY <2>1, <2>2, <2>4, <2>i, CoWhole
  <2>6. CoLived(world.log[i].by)
    <3>1. p <= i /\ i <= i
      BY <2>2, <2>3 DEF TurnOf
    <3> QED
      BY <2>1, <2>4, <3>1 DEF Whole, CoLived
  <2>7. ASSUME NEW j \in DOMAIN world.log, world.log[j].kind \in CoReports, TurnOf(p, j), CoLived(world.log[j].by)
        PROVE  \E s \in DOMAIN sent : sent[s].by = world.log[j].by /\ Co!SpansOf(world.log[j].by) = {s}
    <3>1. PICK s \in DOMAIN sent : sent[s].by = world.log[j].by
      BY <2>3, <2>5, <2>7, <2>i DEF CoSent
    <3>2. Co!SpansOf(world.log[j].by) = {s}
      BY <2>i, <3>1 DEF CoSent, Co!SpansOf
    <3> QED
      BY <3>1, <3>2
  <2>8. \E r \in DOMAIN sent :
          /\ Co!SpansOf(world.log[i].by) = {r}
          /\ sent[r].trace = ids /\ sent[r].span = ids
          /\ sent[r].count = Cardinality(Co!PostsOfTurn(p, i))
    <3>1. PICK r \in DOMAIN sent : sent[r].by = world.log[i].by /\ Co!SpansOf(world.log[i].by) = {r}
      BY <2>1, <2>2, <2>6, <2>7 DEF CoReports
    <3> QED
      BY <2>1, <2>2, <2>3, <2>4, <2>5, <2>i, <3>1 DEF CoReported, CoReports
  <2>9. ASSUME NEW j \in Co!PostsOfTurn(p, i)
        PROVE  \E s \in DOMAIN sent :
                 /\ Co!SpansOf(world.log[j].by) = {s}
                 /\ sent[s].trace = ids /\ sent[s].span = ids
                 /\ ~world.named => sent[s].start = sent[s].call
    <3>1. j \in DOMAIN world.log /\ world.log[j].kind = "postTool" /\ p < j /\ j <= i
      BY <2>i, CoPosts
    <3>2. j < i
      BY <2>1, <2>3, <3>1
    <3>3. TurnOf(p, j)
      BY <2>2, <2>3, <3>1, <3>2 DEF TurnOf, EventsOf
    <3>4. CoLived(world.log[j].by)
      BY <2>5, <3>1, <3>2
    <3>5. PICK s \in DOMAIN sent : sent[s].by = world.log[j].by /\ Co!SpansOf(world.log[j].by) = {s}
      BY <2>7, <3>1, <3>3, <3>4 DEF CoReports
    <3>6. PICK m \in DOMAIN world.log : p < m /\ m < j /\ world.log[m].by = world.log[j].call
      BY <2>i, <3>1, <3>3, CoOwn DEF KiTools
    <3>7. CoLived(world.log[j].call)
      <4>1. m < i
        BY <2>3, <3>1, <3>2, <3>6
      <4>2. CoLived(world.log[m].by)
        BY <2>5, <3>6, <4>1
      <4> QED
        BY <3>6, <4>2
    <3> QED
      BY <2>3, <2>5, <2>i, <3>1, <3>3, <3>5, <3>7 DEF CoReported, CoReports
  <2> QED
    BY <2>3, <2>8, <2>9
<1> QED
  BY <1>1, <1>2, <1>3, PTL DEF Spec

-----------------------------------------------------------------------------
(* Gemini *)

GeHooks == HooksOf["gemini"]
GeFields == {"at", "kind", "trace", "span", "call", "text", "next"}

(* The places of a hook: in a flush, in the course of an event that comes  *)
(* alone, of a chunk, of a tool.                                           *)
GeFlush == {"flush", "flushTrace", "flushText", "sendLlm", "clear", "clearCall"}
GeAloneAt == {"ensure", "known", "pending", "trace", "sendRoot", "forget", "forgetSpan", "open",
              "openSpan", "remove", "newCall"}
GeChunkAt == {"chunkTrace", "chunkCall", "chunkNew", "readText", "writeText"}
GeToolAt == {"toolTrace", "toolSpan", "sendTool"}
GeSole == {"beforeAgent", "afterAgent", "beforeModel", "sessionEnd"}
GeChunks == {"chunk", "last"}

(* Where a hook of a kind can be, and where its flush leads.               *)
GePlaced(l) ==
  /\ DOMAIN l = GeFields
  /\ l.at \in {"new", "done"} \cup GeFlush \cup GeAloneAt \cup GeChunkAt \cup GeToolAt
  /\ l.at \in GeToolAt => l.kind = "afterTool"
  /\ l.at \in GeChunkAt => l.kind \in GeChunks
  /\ l.at \in GeAloneAt => l.kind \in GeSole
  /\ l.at \in {"ensure", "open", "openSpan"} => l.kind = "beforeAgent"
  /\ l.at \in {"known", "remove"} => l.kind = "sessionEnd"
  /\ l.at = "pending" => l.kind \in {"beforeAgent", "sessionEnd"}
  /\ l.at \in {"sendRoot", "forget", "forgetSpan"} => l.kind \in {"beforeAgent", "sessionEnd", "afterAgent"}
  /\ l.at = "trace" => l.kind = "afterAgent"
  /\ l.at = "newCall" => l.kind = "beforeModel"
  /\ l.at \in GeFlush =>
       \/ l.kind \in GeChunks /\ l.next = "done"
       \/ l.kind = "beforeModel" /\ l.next = "newCall"
       \/ l.kind = "afterAgent" /\ l.next = "trace"
       \/ l.kind = "beforeAgent" /\ l.next \in {"sendRoot", "open"}
       \/ l.kind = "sessionEnd" /\ l.next \in {"sendRoot", "remove"}
  /\ l.at \in GeChunkAt => l.next = "done"
  /\ IsSeq(l.text)

(* Beside a hook that runs none starts but of a tool, or chunks beside     *)
(* chunks.                                                                 *)
GeApart ==
  \A g, h \in GeHooks :
    g # h /\ Ge!Running(g) /\ Ge!Running(h)
      /\ hooks[g].kind # "afterTool" /\ hooks[h].kind # "afterTool" =>
         world.overlap /\ {hooks[g].kind, hooks[h].kind} \subseteq GeChunks

(* A trace is named for the hook that has opened it, a model call for the  *)
(* hook that has begun it.                                                 *)
Opened(t) == t \in GeHooks /\ hooks[t].at \in {"openSpan", "done"}
Issued(c) ==
  /\ c \in GeHooks
  /\ \/ hooks[c].at = "done"
     \/ hooks[c].kind \in GeChunks /\ hooks[c].at \in {"readText", "writeText"} \cup GeFlush

GeStored ==
  /\ Ge!Has(store, Ge!TraceKey) => Opened(store[Ge!TraceKey])
  /\ Ge!Has(store, Ge!SpanKey) => store[Ge!SpanKey] \in GeHooks
  /\ Ge!Has(store, Ge!CallKey) => Issued(store[Ge!CallKey])
  /\ \A c \in GeHooks : Ge!Has(store, Ge!TextKey(c)) => Issued(c) /\ IsSeq(store[Ge!TextKey(c)])

Heard(x, t) == [chunk |-> x, trace |-> t] \in world.heard
AllHeard(text, t) == \A i \in DOMAIN text : Heard(text[i], t)

(* What a hook knows: the trace and the call are still those of the dict.  *)
GeKnows(h) ==
  LET l == hooks[h] IN
  /\ l.trace # None => Opened(l.trace)
  /\ l.at \in {"readText", "writeText"} \cup (GeFlush \ {"flush"}) => Issued(l.call)
  /\ l.at \in {"chunkCall", "chunkNew", "readText", "writeText", "flushText", "sendLlm"} =>
       Ge!Has(store, Ge!TraceKey) /\ l.trace = store[Ge!TraceKey]
  /\ l.at \in {"sendLlm", "writeText"} => AllHeard(l.text, l.trace)
  /\ l.at \in {"chunkCall", "chunkNew", "readText", "writeText"} => Heard(h, l.trace)
  /\ l.at \in GeFlush \ {"flush"} /\ l.kind \in GeSole =>
       Ge!Has(store, Ge!CallKey) /\ store[Ge!CallKey] = l.call
  /\ l.at \in {"trace", "sendRoot", "forget", "forgetSpan", "open", "openSpan", "remove", "newCall"} =>
       ~Ge!Has(store, Ge!CallKey)
  /\ l.at = "sendRoot" \/ (l.at \in GeFlush /\ l.next = "sendRoot") =>
       Ge!Has(store, Ge!TraceKey) /\ l.trace = store[Ge!TraceKey]
  /\ l.at \in {"toolSpan", "sendTool"} => l.trace # None

(* The calls whose text may still be sent: all of it was heard in the turn *)
(* that is open.                                                           *)
Current(c) ==
  \/ Ge!Has(store, Ge!CallKey) /\ store[Ge!CallKey] = c
  \/ \E g \in GeHooks : hooks[g].call = c
       /\ hooks[g].at \in {"readText", "writeText"} \cup (GeFlush \ {"flush"})

GeTexts ==
  \A c \in GeHooks : Current(c) /\ Ge!Has(store, Ge!TextKey(c)) =>
    \A i \in DOMAIN store[Ge!TextKey(c)] :
      Ge!Has(store, Ge!TraceKey) /\ Heard(store[Ge!TextKey(c)][i], store[Ge!TraceKey])

GeSent ==
  /\ IsSeq(sent)
  /\ \A i \in DOMAIN sent : Opened(sent[i].trace) /\ AllHeard(sent[i].text, sent[i].trace)

GeWorld ==
  /\ world \in [overlap : BOOLEAN, crashes : Nat, heard : SUBSET [chunk : GeHooks, trace : GeHooks]]
  /\ \A e \in world.heard : hooks[e.chunk].at \notin {"new", "chunkTrace"}

GeBase ==
  /\ None \notin GeHooks
  /\ GeWorld /\ GeStored /\ GeSent /\ GeTexts /\ GeApart /\ DOMAIN hooks = GeHooks
  /\ \A h \in GeHooks : GePlaced(hooks[h]) /\ GeKnows(h)

(* While no hook dies: a turn is closed once, its root goes before its     *)
(* trace, and a trace that is known is open or has its root.               *)
Rooted(t) == \E j \in DOMAIN sent : sent[j].what = "root" /\ sent[j].trace = t
Live(t) == (Ge!Has(store, Ge!TraceKey) /\ store[Ge!TraceKey] = t) \/ Rooted(t)

GeCloses(l) ==
  /\ l.at = "forget" => Ge!Has(store, Ge!TraceKey) /\ Rooted(store[Ge!TraceKey])
  /\ l.at = "forgetSpan" => ~Ge!Has(store, Ge!TraceKey)
  /\ l.at \in {"open", "remove"} \/ (l.at \in GeFlush /\ l.next \in {"open", "remove"}) =>
       ~Ge!Has(store, Ge!TraceKey) /\ ~Ge!Has(store, Ge!SpanKey)
  /\ l.at = "openSpan" => Ge!Has(store, Ge!TraceKey)

GeTurns ==
  world.crashes = 0 =>
    /\ \A i, j \in DOMAIN sent :
         sent[i].what = "root" /\ sent[j].what = "root" /\ sent[i].trace = sent[j].trace => i = j
    /\ Ge!Has(store, Ge!TraceKey) /\ Rooted(store[Ge!TraceKey]) => \E h \in GeHooks : hooks[h].at = "forget"
    /\ ~(Ge!Has(store, Ge!TraceKey) <=> Ge!Has(store, Ge!SpanKey)) =>
         \E h \in GeHooks : hooks[h].at \in {"openSpan", "forgetSpan"}
    /\ \A h \in GeHooks : GeCloses(hooks[h])
    /\ \A i \in DOMAIN sent : Live(sent[i].trace)
    /\ \A h \in GeHooks : hooks[h].trace # None => Live(hooks[h].trace)

(* While besides chunks do not overlap: a chunk is in the text of the call *)
(* or in one span, and in both only until the flush that sent it clears.   *)
InSpan(x) == \E i \in DOMAIN sent : x \in Ge!TextOf(sent[i])
GeTextOf(c) == IF Ge!Has(store, Ge!TextKey(c)) THEN store[Ge!TextKey(c)] ELSE <<>>

GeHolds(l) ==
  /\ l.at \in {"readText", "writeText"} \cup (GeFlush \ {"flush"}) =>
       Ge!Has(store, Ge!CallKey) /\ store[Ge!CallKey] = l.call
  /\ l.at \in {"writeText", "sendLlm"} => l.text = GeTextOf(l.call)
  /\ l.at = "chunkNew" => ~Ge!Has(store, Ge!CallKey)
  /\ l.at = "clear" => \A x \in GeHooks : Ge!Kept(x) => InSpan(x)
  /\ l.at = "clearCall" => ~Ge!Has(store, Ge!TextKey(l.call))

GeOnce ==
  world.crashes = 0 /\ ~world.overlap =>
    /\ \A i, j \in DOMAIN sent : Ge!TextOf(sent[i]) \cap Ge!TextOf(sent[j]) # {} => i = j
    /\ \A e \in world.heard :
         IF hooks[e.chunk].at \in {"chunkCall", "chunkNew", "readText", "writeText"}
         THEN ~Ge!Kept(e.chunk) /\ ~InSpan(e.chunk)
         ELSE Ge!Kept(e.chunk) \/ InSpan(e.chunk)
    /\ \A x \in GeHooks : Ge!Kept(x) /\ InSpan(x) => \E f \in GeHooks : hooks[f].at = "clear"
    /\ \A h \in GeHooks : GeHolds(hooks[h])

GeInv == GeBase /\ GeTurns /\ GeOnce

-----------------------------------------------------------------------------
(* What the steps of Gemini's hooks do *)

LEMMA GePut ==
  ASSUME NEW d, NEW k, NEW v
  PROVE  /\ Ge!Has(Ge!Put(d, k, v), k) /\ Ge!Put(d, k, v)[k] = v
         /\ \A x : x # k => /\ Ge!Has(Ge!Put(d, k, v), x) <=> Ge!Has(d, x)
                            /\ Ge!Has(d, x) => Ge!Put(d, k, v)[x] = d[x]
BY DEF Ge!Has, Ge!Put

LEMMA GeDrop ==
  ASSUME NEW d, NEW k
  PROVE  /\ ~Ge!Has(Ge!Drop(d, {k}), k)
         /\ \A x : x # k => /\ Ge!Has(Ge!Drop(d, {k}), x) <=> Ge!Has(d, x)
                            /\ Ge!Has(d, x) => Ge!Drop(d, {k})[x] = d[x]
BY DEF Ge!Has, Ge!Drop

GeKeys == {Ge!SessionKey, Ge!TraceKey, Ge!SpanKey, Ge!CallKey}

LEMMA GeKeysDiffer ==
  /\ Ge!SessionKey # Ge!TraceKey /\ Ge!SessionKey # Ge!SpanKey /\ Ge!SessionKey # Ge!CallKey
  /\ Ge!TraceKey # Ge!SpanKey /\ Ge!TraceKey # Ge!CallKey /\ Ge!SpanKey # Ge!CallKey
  /\ \A c : Ge!TextKey(c) \notin GeKeys
  /\ \A c, d : Ge!TextKey(c) = Ge!TextKey(d) => c = d
<1>1. /\ Ge!SessionKey # Ge!TraceKey /\ Ge!SessionKey # Ge!SpanKey /\ Ge!SessionKey # Ge!CallKey
      /\ Ge!TraceKey # Ge!SpanKey /\ Ge!TraceKey # Ge!CallKey /\ Ge!SpanKey # Ge!CallKey
  BY DEF Ge!SessionKey, Ge!TraceKey, Ge!SpanKey, Ge!CallKey
<1>2. \A c : Ge!TextKey(c) \notin GeKeys
  BY DEF GeKeys, Ge!TextKey, Ge!SessionKey, Ge!TraceKey, Ge!SpanKey, Ge!CallKey
<1>3. \A c, d : Ge!TextKey(c) = Ge!TextKey(d) => c = d
  BY DEF Ge!TextKey
<1> QED
  BY <1>1, <1>2, <1>3

(* A hook goes on, or comes to its end and forgets what it knew.           *)
GeAt(t, s, kind, trace, call, text, next) ==
  /\ DOMAIN t = GeFields
  /\ t.at = s
  /\ s # "done" => t.kind = kind /\ t.trace = trace /\ t.call = call /\ t.text = text /\ t.next = next
  /\ s = "done" => t.kind = None /\ t.trace = None /\ t.call = None /\ t.text = <<>>

LEMMA GeGoto ==
  ASSUME DOMAIN hooks = GeHooks, NEW h \in GeHooks, NEW s, NEW k, Ge!Goto(h, s, k),
         DOMAIN k = GeFields
  PROVE  LET t == hooks'[h] IN
         /\ DOMAIN hooks' = GeHooks /\ \A g \in GeHooks : g # h => hooks'[g] = hooks[g]
         /\ GeAt(t, s, k.kind, k.trace, k.call, k.text, k.next)
<1>1. hooks' = [hooks EXCEPT ![h] = IF s = "done" THEN Ge!Ended ELSE [k EXCEPT !.at = s]]
  BY DEF Ge!Goto
<1>2. Ge!Ended = [at |-> "done", kind |-> None, trace |-> None, span |-> None,
                  call |-> None, text |-> <<>>, next |-> "done"]
  BY DEF Ge!Ended, Ge!Unborn
<1>3. hooks'[h] = IF s = "done" THEN Ge!Ended ELSE [k EXCEPT !.at = s]
  BY <1>1
<1>4. DOMAIN hooks' = GeHooks /\ \A g \in GeHooks : g # h => hooks'[g] = hooks[g]
  BY <1>1
<1> QED
  BY <1>2, <1>3, <1>4 DEF GeAt, GeFields

SameAt(k) ==
  /\ Ge!Has(store', k) <=> Ge!Has(store, k)
  /\ Ge!Has(store, k) => store'[k] = store[k]

(* The dict: what each step writes.                                        *)
LEMMA GeWrites ==
  ASSUME NEW h \in GeHooks, Ge!Step(h)
  PROVE  LET l == hooks[h] IN
         /\ Ge!Forget(h) \/ Ge!Open(h) \/ Ge!Remove(h) \/ SameAt(Ge!TraceKey)
         /\ Ge!ForgetSpan(h) \/ Ge!OpenSpan(h) \/ Ge!Remove(h) \/ SameAt(Ge!SpanKey)
         /\ Ge!ClearCall(h) \/ Ge!NewCall(h) \/ Ge!ChunkNew(h) \/ Ge!Remove(h) \/ SameAt(Ge!CallKey)
         /\ \A c : \/ (Ge!Clear(h) \/ Ge!WriteText(h)) /\ c = l.call
                   \/ Ge!Remove(h)
                   \/ SameAt(Ge!TextKey(c))
         /\ Ge!Forget(h) => ~Ge!Has(store', Ge!TraceKey)
         /\ Ge!ForgetSpan(h) => ~Ge!Has(store', Ge!SpanKey)
         /\ Ge!Open(h) => Ge!Has(store', Ge!TraceKey) /\ store'[Ge!TraceKey] = h
         /\ Ge!OpenSpan(h) => Ge!Has(store', Ge!SpanKey) /\ store'[Ge!SpanKey] = h
         /\ Ge!Remove(h) => \A k : ~Ge!Has(store', k)
         /\ Ge!NewCall(h) \/ Ge!ChunkNew(h) => Ge!Has(store', Ge!CallKey) /\ store'[Ge!CallKey] = h
         /\ Ge!ClearCall(h) => IF Ge!Get(store, Ge!CallKey) = l.call THEN ~Ge!Has(store', Ge!CallKey)
                               ELSE SameAt(Ge!CallKey)
         /\ Ge!Clear(h) => ~Ge!Has(store', Ge!TextKey(l.call))
         /\ Ge!WriteText(h) => /\ Ge!Has(store', Ge!TextKey(l.call))
                               /\ store'[Ge!TextKey(l.call)] = Append(l.text, h)
<1> USE DEF Ge!Local, Ge!Keeps, Ge!Writes, Ge!Sends
<1> DEFINE l == hooks[h]
<1>k. /\ Ge!SessionKey # Ge!TraceKey /\ Ge!SessionKey # Ge!SpanKey /\ Ge!SessionKey # Ge!CallKey
      /\ Ge!TraceKey # Ge!SpanKey /\ Ge!TraceKey # Ge!CallKey /\ Ge!SpanKey # Ge!CallKey
      /\ \A c : /\ Ge!TextKey(c) # Ge!SessionKey /\ Ge!TextKey(c) # Ge!TraceKey
                /\ Ge!TextKey(c) # Ge!SpanKey /\ Ge!TextKey(c) # Ge!CallKey
      /\ \A c, d : Ge!TextKey(c) = Ge!TextKey(d) => c = d
  BY GeKeysDiffer DEF GeKeys
<1>s. store' = store => \A k : SameAt(k)
  BY DEF SameAt
<1>p. \A k, v : store' = Ge!Put(store, k, v) =>
        Ge!Has(store', k) /\ store'[k] = v /\ \A x : x # k => SameAt(x)
  BY GePut DEF SameAt
<1>d. \A k : store' = Ge!Drop(store, {k}) => ~Ge!Has(store', k) /\ \A x : x # k => SameAt(x)
  BY GeDrop DEF SameAt
<1>0. \A k, x : k # x /\ (\E v : store' = Ge!Put(store, k, v)) => SameAt(x)
  BY <1>p
<1>1. Ge!Forget(h) => store' = Ge!Drop(store, {Ge!TraceKey})
  BY DEF Ge!Forget
<1>2. Ge!ForgetSpan(h) => store' = Ge!Drop(store, {Ge!SpanKey})
  BY DEF Ge!ForgetSpan
<1>3. Ge!Open(h) => store' = Ge!Put(store, Ge!TraceKey, h)
  BY DEF Ge!Open
<1>4. Ge!OpenSpan(h) => store' = Ge!Put(store, Ge!SpanKey, h)
  BY DEF Ge!OpenSpan
<1>5. Ge!Remove(h) => \A k : ~Ge!Has(store', k)
  BY DEF Ge!Remove, Ge!Empty, Ge!Has
<1>6. Ge!NewCall(h) \/ Ge!ChunkNew(h) => store' = Ge!Put(store, Ge!CallKey, h)
  BY DEF Ge!NewCall, Ge!ChunkNew
<1>7. Ge!ClearCall(h) => IF Ge!Get(store, Ge!CallKey) = l.call THEN store' = Ge!Drop(store, {Ge!CallKey})
                         ELSE store' = store
  BY DEF Ge!ClearCall
<1>8. Ge!Clear(h) => store' = Ge!Drop(store, {Ge!TextKey(l.call)})
  BY DEF Ge!Clear
<1>9. Ge!WriteText(h) => store' = Ge!Put(store, Ge!TextKey(l.call), Append(l.text, h))
  BY DEF Ge!WriteText
<1>10. Ge!Ensure(h) => store' = store \/ store' = Ge!Put(store, Ge!SessionKey, h)
  BY DEF Ge!Ensure
<1>11. \/ store' = store
       \/ Ge!Ensure(h) \/ Ge!Forget(h) \/ Ge!ForgetSpan(h) \/ Ge!Open(h) \/ Ge!OpenSpan(h)
       \/ Ge!Remove(h) \/ Ge!NewCall(h) \/ Ge!ChunkNew(h) \/ Ge!ClearCall(h) \/ Ge!Clear(h)
       \/ Ge!WriteText(h)
  BY DEF Ge!Step, Ge!Start, Ge!FlushCall, Ge!FlushTrace, Ge!FlushText, Ge!SendLlm, Ge!Known,
     Ge!Pending, Ge!ReadTurn, Ge!SendRoot, Ge!ChunkTrace, Ge!ChunkCall, Ge!ReadText,
     Ge!ToolTrace, Ge!ToolSpan, Ge!SendTool, Ge!Crash
<1> HIDE DEF l
<1>12. /\ Ge!Forget(h) \/ Ge!Open(h) \/ Ge!Remove(h) \/ SameAt(Ge!TraceKey)
       /\ Ge!ForgetSpan(h) \/ Ge!OpenSpan(h) \/ Ge!Remove(h) \/ SameAt(Ge!SpanKey)
  BY <1>k, <1>s, <1>p, <1>d, <1>1, <1>2, <1>3, <1>4, <1>6, <1>7, <1>8, <1>9, <1>10, <1>11
<1>13. Ge!ClearCall(h) \/ Ge!NewCall(h) \/ Ge!ChunkNew(h) \/ Ge!Remove(h) \/ SameAt(Ge!CallKey)
  BY <1>k, <1>s, <1>p, <1>d, <1>1, <1>2, <1>3, <1>4, <1>6, <1>8, <1>9, <1>10, <1>11
<1>14. ASSUME NEW c
       PROVE  \/ (Ge!Clear(h) \/ Ge!WriteText(h)) /\ c = l.call
              \/ Ge!Remove(h)
              \/ SameAt(Ge!TextKey(c))
  <2>1. CASE store' = store \/ Ge!Ensure(h)
    BY <2>1, <1>k, <1>s, <1>p, <1>10
  <2>2. CASE Ge!Forget(h) \/ Ge!ForgetSpan(h)
    BY <2>2, <1>k, <1>d, <1>1, <1>2
  <2>3. CASE Ge!Open(h) \/ Ge!OpenSpan(h) \/ Ge!NewCall(h) \/ Ge!ChunkNew(h)
    BY <2>3, <1>k, <1>p, <1>3, <1>4, <1>6
  <2>4. CASE Ge!ClearCall(h)
    <3>1. store' = store \/ store' = Ge!Drop(store, {Ge!CallKey})
      BY <2>4, <1>7
    <3>2. Ge!TextKey(c) # Ge!CallKey
      BY <1>k
    <3>3. store' = store => SameAt(Ge!TextKey(c))
      BY <1>s
    <3>4. store' = Ge!Drop(store, {Ge!CallKey}) => SameAt(Ge!TextKey(c))
      BY <3>2, <1>d
    <3> QED
      BY <3>1, <3>3, <3>4
  <2>5. CASE (Ge!Clear(h) \/ Ge!WriteText(h)) /\ c # l.call
    <3>1. Ge!TextKey(c) # Ge!TextKey(l.call)
      BY <2>5, <1>k
    <3> QED
      BY <3>1, <2>5, <1>p, <1>d, <1>8, <1>9
  <2> QED
    BY <2>1, <2>2, <2>3, <2>4, <2>5, <1>11
<1>15. /\ Ge!Forget(h) => ~Ge!Has(store', Ge!TraceKey)
       /\ Ge!ForgetSpan(h) => ~Ge!Has(store', Ge!SpanKey)
       /\ Ge!Open(h) => Ge!Has(store', Ge!TraceKey) /\ store'[Ge!TraceKey] = h
       /\ Ge!OpenSpan(h) => Ge!Has(store', Ge!SpanKey) /\ store'[Ge!SpanKey] = h
  BY <1>p, <1>d, <1>1, <1>2, <1>3, <1>4
<1>16. /\ Ge!NewCall(h) \/ Ge!ChunkNew(h) => Ge!Has(store', Ge!CallKey) /\ store'[Ge!CallKey] = h
       /\ Ge!ClearCall(h) => IF Ge!Get(store, Ge!CallKey) = l.call THEN ~Ge!Has(store', Ge!CallKey)
                             ELSE SameAt(Ge!CallKey)
  BY <1>s, <1>p, <1>d, <1>6, <1>7
<1>17. /\ Ge!Clear(h) => ~Ge!Has(store', Ge!TextKey(l.call))
       /\ Ge!WriteText(h) => /\ Ge!Has(store', Ge!TextKey(l.call))
                             /\ store'[Ge!TextKey(l.call)] = Append(l.text, h)
  BY <1>p, <1>d, <1>8, <1>9
<1> QED
  BY <1>5, <1>12, <1>13, <1>14, <1>15, <1>16, <1>17 DEF l

(* The hook itself: where each step takes it, and what else it changes.    *)
GeRest == store' = store /\ world' = world /\ sent' = sent
GeCalm == world' = world /\ sent' = sent

GeBegins(t) ==
  \/ t.kind = "beforeAgent" /\ t.at = "ensure" /\ t.next = "done"
  \/ t.kind = "afterAgent" /\ t.at = "flush" /\ t.next = "trace"
  \/ t.kind = "beforeModel" /\ t.at = "flush" /\ t.next = "newCall"
  \/ t.kind \in GeChunks /\ t.at = "chunkTrace" /\ t.next = "done"
  \/ t.kind = "afterTool" /\ t.at = "toolTrace" /\ t.next = "done"
  \/ t.kind = "sessionEnd" /\ t.at = "known" /\ t.next = "done"

GeSends(s) ==
  /\ sent' = Append(sent, s)
  /\ store' = store /\ world' = world

GeGoes(h, s) ==
  LET l == hooks[h] IN GeAt(hooks'[h], s, l.kind, l.trace, l.call, l.text, l.next)
GeAfter(h) == IF hooks[h].kind = "beforeAgent" THEN "open" ELSE "remove"

DidFlushCall(h) ==
  LET l == hooks[h] t == hooks'[h] IN
  /\ l.at = "flush" /\ GeRest
  /\ IF Ge!Get(store, Ge!CallKey) = None
     THEN GeAt(t, l.next, l.kind, l.trace, None, l.text, l.next)
     ELSE GeAt(t, "flushTrace", l.kind, l.trace, Ge!Get(store, Ge!CallKey), l.text, l.next)

DidFlushTrace(h) ==
  LET l == hooks[h] t == hooks'[h] IN
  /\ l.at = "flushTrace" /\ GeRest
  /\ GeAt(t, IF Ge!Get(store, Ge!TraceKey) = None THEN "clear" ELSE "flushText",
          l.kind, Ge!Get(store, Ge!TraceKey), l.call, l.text, l.next)

DidFlushText(h) ==
  LET l == hooks[h] t == hooks'[h] IN
  l.at = "flushText" /\ GeRest /\ GeAt(t, "sendLlm", l.kind, l.trace, l.call, GeTextOf(l.call), l.next)

DidSendLlm(h) ==
  LET l == hooks[h] t == hooks'[h] IN
  /\ l.at = "sendLlm" /\ GeAt(t, "clear", l.kind, l.trace, l.call, l.text, l.next)
  /\ GeSends([what |-> "llm", trace |-> l.trace, parent |-> l.span, text |-> l.text])

DidClear(h) ==
  LET l == hooks[h] t == hooks'[h] IN
  l.at = "clear" /\ GeCalm /\ GeAt(t, "clearCall", l.kind, l.trace, l.call, l.text, l.next)

DidClearCall(h) ==
  LET l == hooks[h] t == hooks'[h] IN
  l.at = "clearCall" /\ GeCalm /\ GeAt(t, l.next, l.kind, l.trace, l.call, l.text, l.next)

DidEnsure(h) ==
  LET l == hooks[h] IN
  l.at = "ensure" /\ GeCalm /\ GeGoes(h, "pending")

DidKnown(h) ==
  LET l == hooks[h] IN
  l.at = "known" /\ GeRest /\ (GeGoes(h, "pending") \/ GeGoes(h, "done"))

DidPending(h) ==
  LET l == hooks[h] t == hooks'[h] IN
  /\ l.at = "pending" /\ GeRest
  /\ GeAt(t, "flush", l.kind, Ge!Get(store, Ge!TraceKey), l.call, l.text,
          IF Ge!Has(store, Ge!TraceKey) /\ Ge!Has(store, Ge!SpanKey) THEN "sendRoot" ELSE GeAfter(h))

DidReadTurn(h) ==
  LET l == hooks[h] t == hooks'[h] IN
  /\ l.at = "trace" /\ GeRest
  /\ GeAt(t, IF Ge!Get(store, Ge!TraceKey) = None \/ Ge!Get(store, Ge!SpanKey) = None
             THEN "done" ELSE "sendRoot",
          l.kind, Ge!Get(store, Ge!TraceKey), l.call, l.text, l.next)

DidSendRoot(h) ==
  LET l == hooks[h] IN
  /\ l.at = "sendRoot" /\ GeGoes(h, "forget")
  /\ GeSends([what |-> "root", trace |-> l.trace, parent |-> None, text |-> <<>>])

DidForget(h) ==
  LET l == hooks[h] IN
  l.at = "forget" /\ GeCalm /\ GeGoes(h, "forgetSpan")

DidForgetSpan(h) ==
  LET l == hooks[h] IN
  l.at = "forgetSpan" /\ GeCalm /\ GeGoes(h, IF l.kind = "afterAgent" THEN "done" ELSE GeAfter(h))

DidOpen(h) ==
  LET l == hooks[h] IN
  l.at = "open" /\ GeCalm /\ GeGoes(h, "openSpan")

DidOpenSpan(h) ==
  LET l == hooks[h] IN
  l.at = "openSpan" /\ GeCalm /\ GeGoes(h, "done")

DidRemove(h) ==
  LET l == hooks[h] IN
  l.at = "remove" /\ GeCalm /\ GeGoes(h, "done")

DidNewCall(h) ==
  LET l == hooks[h] IN
  l.at = "newCall" /\ GeCalm /\ GeGoes(h, "done")

DidStart(h) ==
  LET l == hooks[h] t == hooks'[h] IN
  /\ l.at = "new" /\ GeRest /\ GeBegins(t) /\ Ge!MayStart(t.kind)
  /\ t.trace = None /\ t.call = None /\ t.text = <<>> /\ DOMAIN t = GeFields

DidChunkTrace(h) ==
  LET l == hooks[h] t == hooks'[h] IN
  /\ l.at = "chunkTrace" /\ store' = store /\ sent' = sent
  /\ GeAt(t, IF Ge!Get(store, Ge!TraceKey) = None THEN "done" ELSE "chunkCall", l.kind, Ge!Get(store, Ge!TraceKey), l.call, l.text, l.next)
  /\ world' = IF Ge!Get(store, Ge!TraceKey) = None THEN world
              ELSE [world EXCEPT !.heard = @ \cup {[chunk |-> h, trace |-> Ge!Get(store, Ge!TraceKey)]}]

DidChunkCall(h) ==
  LET l == hooks[h] t == hooks'[h] IN
  /\ l.at = "chunkCall" /\ GeRest
  /\ GeAt(t, IF Ge!Get(store, Ge!CallKey) = None THEN "chunkNew" ELSE "readText",
          l.kind, l.trace, Ge!Get(store, Ge!CallKey), l.text, l.next)

DidChunkNew(h) ==
  LET l == hooks[h] t == hooks'[h] IN
  l.at = "chunkNew" /\ GeCalm /\ GeAt(t, "readText", l.kind, l.trace, h, l.text, l.next)

DidReadText(h) ==
  LET l == hooks[h] t == hooks'[h] IN
  l.at = "readText" /\ GeRest /\ GeAt(t, "writeText", l.kind, l.trace, l.call, GeTextOf(l.call), l.next)

DidWriteText(h) ==
  LET l == hooks[h] t == hooks'[h] IN
  /\ l.at = "writeText" /\ GeCalm
  /\ GeAt(t, IF l.kind = "last" THEN "flush" ELSE "done", l.kind, l.trace, l.call, l.text, l.next)

DidToolTrace(h) ==
  LET l == hooks[h] t == hooks'[h] IN
  /\ l.at = "toolTrace" /\ GeRest
  /\ GeAt(t, IF Ge!Get(store, Ge!TraceKey) = None THEN "done" ELSE "toolSpan", l.kind, Ge!Get(store, Ge!TraceKey), l.call, l.text, l.next)

DidToolSpan(h) ==
  LET l == hooks[h] t == hooks'[h] IN
  /\ l.at = "toolSpan" /\ GeRest
  /\ \/ GeAt(t, "sendTool", l.kind, l.trace, l.call, l.text, l.next)
     \/ GeAt(t, "done", l.kind, l.trace, l.call, l.text, l.next)

DidSendTool(h) ==
  LET l == hooks[h] t == hooks'[h] IN
  /\ l.at = "sendTool" /\ GeAt(t, "done", l.kind, l.trace, l.call, l.text, l.next)
  /\ GeSends([what |-> "tool", trace |-> l.trace, parent |-> l.span, text |-> <<>>])

DidCrash(h) ==
  LET l == hooks[h] t == hooks'[h] IN
  /\ l.at \notin {"new", "done"} /\ store' = store /\ sent' = sent
  /\ GeAt(t, "done", l.kind, l.trace, l.call, l.text, l.next)
  /\ world' = [world EXCEPT !.crashes = @ + 1]

(* Every step does what its operator above says.                           *)
LEMMA GeDid ==
  ASSUME GeBase, NEW h \in GeHooks, Ge!Step(h)
  PROVE  /\ DOMAIN hooks' = GeHooks /\ \A g \in GeHooks : g # h => hooks'[g] = hooks[g]
         /\ DOMAIN hooks'[h] = GeFields
         /\ (Ge!FlushCall(h) => DidFlushCall(h)) /\ (Ge!FlushTrace(h) => DidFlushTrace(h))
         /\ (Ge!FlushText(h) => DidFlushText(h)) /\ (Ge!SendLlm(h) => DidSendLlm(h))
         /\ (Ge!Clear(h) => DidClear(h)) /\ (Ge!ClearCall(h) => DidClearCall(h))
         /\ (Ge!Ensure(h) => DidEnsure(h)) /\ (Ge!Known(h) => DidKnown(h))
         /\ (Ge!Pending(h) => DidPending(h)) /\ (Ge!ReadTurn(h) => DidReadTurn(h))
         /\ (Ge!SendRoot(h) => DidSendRoot(h)) /\ (Ge!Forget(h) => DidForget(h))
         /\ (Ge!ForgetSpan(h) => DidForgetSpan(h)) /\ (Ge!Open(h) => DidOpen(h))
         /\ (Ge!OpenSpan(h) => DidOpenSpan(h)) /\ (Ge!Remove(h) => DidRemove(h))
         /\ (Ge!NewCall(h) => DidNewCall(h)) /\ (Ge!Start(h) => DidStart(h))
         /\ (Ge!ChunkTrace(h) => DidChunkTrace(h)) /\ (Ge!ChunkCall(h) => DidChunkCall(h))
         /\ (Ge!ChunkNew(h) => DidChunkNew(h)) /\ (Ge!ReadText(h) => DidReadText(h))
         /\ (Ge!WriteText(h) => DidWriteText(h)) /\ (Ge!ToolTrace(h) => DidToolTrace(h))
         /\ (Ge!ToolSpan(h) => DidToolSpan(h)) /\ (Ge!SendTool(h) => DidSendTool(h))
         /\ (Ge!Crash(h) => DidCrash(h))
<1>l. DOMAIN hooks = GeHooks /\ DOMAIN hooks[h] = GeFields
  BY DEF GeBase, GePlaced
<1>g. \A s, k : Ge!Goto(h, s, k) /\ DOMAIN k = GeFields =>
        /\ DOMAIN hooks' = GeHooks /\ \A g \in GeHooks : g # h => hooks'[g] = hooks[g]
        /\ GeAt(hooks'[h], s, k.kind, k.trace, k.call, k.text, k.next)
  <2> SUFFICES ASSUME NEW s, NEW k, Ge!Goto(h, s, k), DOMAIN k = GeFields
               PROVE  /\ DOMAIN hooks' = GeHooks /\ \A g \in GeHooks : g # h => hooks'[g] = hooks[g]
                      /\ GeAt(hooks'[h], s, k.kind, k.trace, k.call, k.text, k.next)
    OBVIOUS
  <2> QED
    BY <1>l, GeGoto
<1> USE DEF Ge!Local, Ge!Keeps, Ge!Writes, Ge!Sends, GeRest, GeCalm, GeSends, GeGoes, GeFields
<1>s. \E k : hooks' = [hooks EXCEPT ![h] = k]
  BY DEF Ge!Goto, Ge!Step, Ge!FlushCall, Ge!FlushTrace, Ge!FlushText, Ge!SendLlm, Ge!Clear, Ge!ClearCall, Ge!Ensure,
     Ge!Known, Ge!Pending, Ge!ReadTurn, Ge!SendRoot, Ge!Forget, Ge!ForgetSpan, Ge!Open,
     Ge!OpenSpan, Ge!Remove, Ge!NewCall, Ge!Start, Ge!ChunkTrace, Ge!ChunkCall, Ge!ChunkNew,
     Ge!ReadText, Ge!WriteText, Ge!ToolTrace, Ge!ToolSpan, Ge!SendTool, Ge!Crash
<1>t. DOMAIN hooks' = GeHooks /\ \A g \in GeHooks : g # h => hooks'[g] = hooks[g]
  BY <1>l, <1>s
<1>1. Ge!FlushCall(h) => DidFlushCall(h)
  BY <1>g, <1>l DEF Ge!FlushCall, DidFlushCall
<1>2. Ge!FlushTrace(h) => DidFlushTrace(h)
  BY <1>g, <1>l DEF Ge!FlushTrace, DidFlushTrace
<1>3. Ge!FlushText(h) => DidFlushText(h)
  <2> SUFFICES ASSUME Ge!FlushText(h)
               PROVE  DidFlushText(h)
    OBVIOUS
  <2> DEFINE k == [hooks[h] EXCEPT !.span = Ge!Get(store, Ge!SpanKey), !.text = GeTextOf(hooks[h].call)]
  <2>1. Ge!Goto(h, "sendLlm", k) /\ hooks[h].at = "flushText" /\ GeRest
    BY DEF Ge!FlushText, GeTextOf
  <2>2. /\ DOMAIN k = GeFields /\ k.kind = hooks[h].kind /\ k.call = hooks[h].call
        /\ k.trace = hooks[h].trace /\ k.text = GeTextOf(hooks[h].call) /\ k.next = hooks[h].next
    BY <1>l
  <2> HIDE DEF k
  <2> QED
    BY <1>g, <2>1, <2>2 DEF DidFlushText, GeTextOf
<1>4. Ge!SendLlm(h) => DidSendLlm(h)
  BY <1>g, <1>l DEF Ge!SendLlm, DidSendLlm
<1>5. Ge!Clear(h) => DidClear(h)
  BY <1>g, <1>l DEF Ge!Clear, DidClear
<1>6. Ge!ClearCall(h) => DidClearCall(h)
  BY <1>g, <1>l DEF Ge!ClearCall, DidClearCall
<1>7. Ge!Ensure(h) => DidEnsure(h)
  BY <1>g, <1>l DEF Ge!Ensure, DidEnsure
<1>8. Ge!Known(h) => DidKnown(h)
  BY <1>g, <1>l DEF Ge!Known, DidKnown
<1>9. Ge!Pending(h) => DidPending(h)
  <2> SUFFICES ASSUME Ge!Pending(h)
               PROVE  DidPending(h)
    OBVIOUS
  <2> DEFINE k == [hooks[h] EXCEPT !.trace = Ge!Get(store, Ge!TraceKey), !.span = Ge!Get(store, Ge!SpanKey),
                    !.next = IF Ge!Has(store, Ge!TraceKey) /\ Ge!Has(store, Ge!SpanKey)
                             THEN "sendRoot" ELSE GeAfter(h)]
  <2>1. Ge!Goto(h, "flush", k) /\ hooks[h].at = "pending" /\ GeRest
    BY DEF Ge!Pending, GeAfter, Ge!AfterClose
  <2>2. /\ DOMAIN k = GeFields /\ k.kind = hooks[h].kind /\ k.call = hooks[h].call
        /\ k.trace = Ge!Get(store, Ge!TraceKey) /\ k.text = hooks[h].text
        /\ k.next = IF Ge!Has(store, Ge!TraceKey) /\ Ge!Has(store, Ge!SpanKey)
                    THEN "sendRoot" ELSE GeAfter(h)
    BY <1>l
  <2> HIDE DEF k
  <2> QED
    BY <1>g, <2>1, <2>2 DEF DidPending, GeAfter, Ge!AfterClose
<1>10. Ge!ReadTurn(h) => DidReadTurn(h)
  <2> SUFFICES ASSUME Ge!ReadTurn(h)
               PROVE  DidReadTurn(h)
    OBVIOUS
  <2> DEFINE k == [hooks[h] EXCEPT !.trace = Ge!Get(store, Ge!TraceKey), !.span = Ge!Get(store, Ge!SpanKey)]
  <2>1. Ge!Goto(h, IF Ge!Get(store, Ge!TraceKey) = None \/ Ge!Get(store, Ge!SpanKey) = None THEN "done" ELSE "sendRoot", k) /\ hooks[h].at = "trace" /\ GeRest
    BY DEF Ge!ReadTurn
  <2>2. /\ DOMAIN k = GeFields /\ k.kind = hooks[h].kind /\ k.call = hooks[h].call
        /\ k.trace = Ge!Get(store, Ge!TraceKey) /\ k.text = hooks[h].text /\ k.next = hooks[h].next
    BY <1>l
  <2> HIDE DEF k
  <2> QED
    BY <1>g, <2>1, <2>2 DEF DidReadTurn
<1>11. Ge!SendRoot(h) => DidSendRoot(h)
  BY <1>g, <1>l DEF Ge!SendRoot, DidSendRoot
<1>12. Ge!Forget(h) => DidForget(h)
  BY <1>g, <1>l DEF Ge!Forget, DidForget
<1>13. Ge!ForgetSpan(h) => DidForgetSpan(h)
  BY <1>g, <1>l DEF Ge!ForgetSpan, DidForgetSpan, GeAfter, Ge!AfterClose
<1>14. Ge!Open(h) => DidOpen(h)
  BY <1>g, <1>l DEF Ge!Open, DidOpen
<1>15. Ge!OpenSpan(h) => DidOpenSpan(h)
  BY <1>g, <1>l DEF Ge!OpenSpan, DidOpenSpan
<1>16. Ge!Remove(h) => DidRemove(h)
  BY <1>g, <1>l DEF Ge!Remove, DidRemove
<1>17. Ge!NewCall(h) => DidNewCall(h)
  BY <1>g, <1>l DEF Ge!NewCall, DidNewCall
<1>18. Ge!Start(h) => DidStart(h)
  <2> SUFFICES ASSUME Ge!Start(h)
               PROVE  DidStart(h)
    OBVIOUS
  <2>1. PICK c \in Ge!Kinds :
          /\ Ge!MayStart(c)
          /\ Ge!Goto(h, Ge!First(c), [Ge!Unborn EXCEPT !.kind = c, !.next = Ge!AfterFlush(c)])
    BY DEF Ge!Start
  <2> DEFINE k == [Ge!Unborn EXCEPT !.kind = c, !.next = Ge!AfterFlush(c)]
  <2>2. Ge!Unborn = [at |-> "new", kind |-> None, trace |-> None, span |-> None, call |-> None,
                     text |-> <<>>, next |-> "done"]
    BY DEF Ge!Unborn
  <2>u. /\ DOMAIN Ge!Unborn = GeFields /\ Ge!Unborn.trace = None /\ Ge!Unborn.call = None
        /\ Ge!Unborn.text = <<>>
    BY <2>2
  <2>3. /\ DOMAIN k = GeFields /\ k.kind = c /\ k.trace = None /\ k.call = None /\ k.text = <<>>
        /\ k.next = Ge!AfterFlush(c)
    BY <2>u
  <2> HIDE DEF k
  <2>4. GeAt(hooks'[h], Ge!First(c), c, None, None, <<>>, Ge!AfterFlush(c))
    BY <1>g, <2>1, <2>3 DEF k
  <2>5. Ge!First(c) # "done"
    BY DEF Ge!First, Ge!Kinds, Ge!Main
  <2>6. GeBegins(hooks'[h]) /\ hooks'[h].kind = c
    BY <2>4, <2>5 DEF GeAt, GeBegins, Ge!First, Ge!AfterFlush, Ge!Kinds, Ge!Main, GeChunks
  <2> QED
    BY <2>1, <2>4, <2>5, <2>6 DEF DidStart, GeAt, Ge!Start
<1>19. Ge!ChunkTrace(h) => DidChunkTrace(h)
  BY <1>g, <1>l DEF Ge!ChunkTrace, DidChunkTrace
<1>20. Ge!ChunkCall(h) => DidChunkCall(h)
  BY <1>g, <1>l DEF Ge!ChunkCall, DidChunkCall
<1>21. Ge!ChunkNew(h) => DidChunkNew(h)
  BY <1>g, <1>l DEF Ge!ChunkNew, DidChunkNew
<1>22. Ge!ReadText(h) => DidReadText(h)
  <2> SUFFICES ASSUME Ge!ReadText(h)
               PROVE  DidReadText(h)
    OBVIOUS
  <2> DEFINE k == [hooks[h] EXCEPT !.text = GeTextOf(hooks[h].call)]
  <2>1. Ge!Goto(h, "writeText", k) /\ hooks[h].at = "readText" /\ GeRest
    BY DEF Ge!ReadText, GeTextOf
  <2>2. /\ DOMAIN k = GeFields /\ k.kind = hooks[h].kind /\ k.call = hooks[h].call
        /\ k.trace = hooks[h].trace /\ k.text = GeTextOf(hooks[h].call) /\ k.next = hooks[h].next
    BY <1>l
  <2> HIDE DEF k
  <2> QED
    BY <1>g, <2>1, <2>2 DEF DidReadText, GeTextOf
<1>23. Ge!WriteText(h) => DidWriteText(h)
  BY <1>g, <1>l DEF Ge!WriteText, DidWriteText
<1>24. Ge!ToolTrace(h) => DidToolTrace(h)
  BY <1>g, <1>l DEF Ge!ToolTrace, DidToolTrace
<1>25. Ge!ToolSpan(h) => DidToolSpan(h)
  BY <1>g, <1>l DEF Ge!ToolSpan, DidToolSpan
<1>26. Ge!SendTool(h) => DidSendTool(h)
  BY <1>g, <1>l DEF Ge!SendTool, DidSendTool
<1>27. Ge!Crash(h) => DidCrash(h)
  BY <1>g, <1>l DEF Ge!Crash, DidCrash, Ge!Goto, Ge!Running, GeAt, Ge!Ended, Ge!Unborn
<1>d. DOMAIN hooks'[h] = GeFields
  BY <1>1, <1>2, <1>3, <1>4, <1>5, <1>6, <1>7, <1>8, <1>9, <1>10, <1>11, <1>12, <1>13, <1>14, <1>15, <1>16, <1>17, <1>18, <1>19, <1>20, <1>21, <1>22, <1>23, <1>24, <1>25, <1>26, <1>27
     DEF Ge!Step, GeAt, GeBegins, DidFlushCall, DidFlushTrace, DidFlushText, DidSendLlm, DidClear, DidClearCall, DidEnsure,
     DidKnown, DidPending, DidReadTurn, DidSendRoot, DidForget, DidForgetSpan, DidOpen,
     DidOpenSpan, DidRemove, DidNewCall, DidStart, DidChunkTrace, DidChunkCall, DidChunkNew,
     DidReadText, DidWriteText, DidToolTrace, DidToolSpan, DidSendTool, DidCrash
<1> QED
  BY <1>t, <1>d, <1>1, <1>2, <1>3, <1>4, <1>5, <1>6, <1>7, <1>8, <1>9, <1>10, <1>11, <1>12, <1>13, <1>14, <1>15, <1>16, <1>17, <1>18, <1>19, <1>20, <1>21, <1>22, <1>23, <1>24, <1>25, <1>26, <1>27

LEMMA GePlacedStep ==
  ASSUME GeBase, NEW h \in GeHooks, Ge!Step(h)
  PROVE  \A g \in GeHooks : GePlaced(hooks'[g])
<1> USE DEF GeAt, GeGoes, GeFlush, GeAloneAt, GeChunkAt, GeToolAt, GeSole, GeChunks
<1> DEFINE l == hooks[h]
           t == hooks'[h]
<1>l. GePlaced(l) /\ GeKnows(h) /\ GeStored
  BY DEF GeBase
<1>d. /\ \A g \in GeHooks : g # h => hooks'[g] = hooks[g]
      /\ DOMAIN t = GeFields
  BY GeDid
<1>s. IsSeq(<<>>)
  BY DEF IsSeq
<1>t. l.at \in {"flushText", "readText"} => IsSeq(GeTextOf(l.call))
  BY <1>l, <1>s DEF GeKnows, Issued, GeStored, GeTextOf
<1> SUFFICES GePlaced(t)
  BY <1>d DEF GeBase
<1> HIDE DEF l, t
<1>1. CASE Ge!FlushCall(h) \/ Ge!FlushTrace(h) \/ Ge!Clear(h) \/ Ge!ClearCall(h)
  BY <1>1, <1>l, <1>d, <1>s, GeDid DEF DidFlushCall, DidFlushTrace, DidClear, DidClearCall, GePlaced, l, t
<1>2. CASE Ge!FlushText(h) \/ Ge!SendLlm(h) \/ Ge!ReadText(h)
  BY <1>2, <1>l, <1>d, <1>s, <1>t, GeDid DEF DidFlushText, DidSendLlm, DidReadText, GePlaced, l, t
<1>3. CASE Ge!Ensure(h) \/ Ge!Known(h) \/ Ge!Pending(h) \/ Ge!ReadTurn(h)
  BY <1>3, <1>l, <1>d, <1>s, GeDid DEF DidEnsure, DidKnown, DidPending, DidReadTurn, GeAfter, GePlaced, l, t
<1>4. CASE Ge!SendRoot(h) \/ Ge!Forget(h)
  BY <1>4, <1>l, <1>d, <1>s, GeDid DEF DidSendRoot, DidForget, GeAfter, GePlaced, l, t
<1>9. CASE Ge!ForgetSpan(h) \/ Ge!Open(h)
  BY <1>9, <1>l, <1>d, <1>s, GeDid DEF DidForgetSpan, DidOpen, GeAfter, GePlaced, l, t
<1>5. CASE Ge!OpenSpan(h) \/ Ge!Remove(h) \/ Ge!NewCall(h)
  BY <1>5, <1>l, <1>d, <1>s, GeDid DEF DidOpenSpan, DidRemove, DidNewCall, GePlaced, l, t
<1>10. CASE Ge!Crash(h) \/ Ge!SendTool(h)
  BY <1>10, <1>l, <1>d, <1>s, GeDid DEF DidCrash, DidSendTool, GePlaced, l, t
<1>6. CASE Ge!Start(h)
  BY <1>6, <1>l, <1>d, <1>s, GeDid DEF DidStart, GeBegins, GePlaced, l, t
<1>7. CASE Ge!ChunkTrace(h) \/ Ge!ChunkCall(h) \/ Ge!ChunkNew(h) \/ Ge!WriteText(h)
  BY <1>7, <1>l, <1>d, <1>s, GeDid DEF DidChunkTrace, DidChunkCall, DidChunkNew, DidWriteText, GePlaced, l, t
<1>8. CASE Ge!ToolTrace(h) \/ Ge!ToolSpan(h)
  BY <1>8, <1>l, <1>d, <1>s, GeDid DEF DidToolTrace, DidToolSpan, GePlaced, l, t
<1> QED
  BY <1>1, <1>2, <1>3, <1>4, <1>5, <1>6, <1>7, <1>8, <1>9, <1>10 DEF Ge!Step

(* The course of a hook: how its place and its kind go on.                 *)
LEMMA GeCourse ==
  ASSUME GeBase, NEW h \in GeHooks, Ge!Step(h)
  PROVE  LET l == hooks[h] t == hooks'[h] IN
         /\ l.at # "done" /\ t.at # "new" /\ (l.at = "new" <=> Ge!Start(h))
         /\ l.at # "new" => t.kind = l.kind \/ t.at = "done"
         /\ l.at \notin {"new", "chunkTrace"} => t.at # "chunkTrace"
         /\ l.at = "openSpan" => t.at = "done"
         /\ l.kind \in GeChunks /\ l.at \in {"readText", "writeText"} \cup GeFlush =>
              \/ t.at = "done"
              \/ t.kind = l.kind /\ t.at \in {"readText", "writeText"} \cup GeFlush
         /\ \/ world' = world
            \/ Ge!Crash(h) /\ t.at = "done" /\ world' = [world EXCEPT !.crashes = @ + 1]
            \/ /\ l.at = "chunkTrace" /\ Ge!Has(store, Ge!TraceKey) /\ Ge!ChunkTrace(h)
               /\ t.at = "chunkCall"
               /\ world' = [world EXCEPT !.heard =
                              @ \cup {[chunk |-> h, trace |-> store[Ge!TraceKey]]}]
<1> USE DEF GeAt, GeGoes, GeRest, GeCalm, GeSends
<1> DEFINE l == hooks[h]
           t == hooks'[h]
<1>l. GePlaced(l)
  BY DEF GeBase
<1> HIDE DEF l, t
<1>1. CASE Ge!FlushCall(h) \/ Ge!FlushTrace(h) \/ Ge!Clear(h) \/ Ge!ClearCall(h)
  <2>1. /\ l.at \in GeFlush /\ world' = world /\ t.at \in GeFlush \cup {l.next}
        /\ t.kind = l.kind \/ t.at = "done"
    BY <1>1, GeDid DEF DidFlushCall, DidFlushTrace, DidClear, DidClearCall, GeFlush, l, t
  <2> QED
    BY <1>l, <2>1 DEF GePlaced, GeFlush, GeSole, GeChunks, Ge!Start, l, t
<1>2. CASE Ge!FlushText(h) \/ Ge!SendLlm(h) \/ Ge!ReadText(h)
  BY <1>2, <1>l, GeDid DEF DidFlushText, DidSendLlm, DidReadText, GeFlush, Ge!Start, l, t
<1>3. CASE Ge!Ensure(h) \/ Ge!Known(h) \/ Ge!Pending(h) \/ Ge!ReadTurn(h)
  BY <1>3, <1>l, GeDid
  DEF DidEnsure, DidKnown, DidPending, DidReadTurn, GePlaced, GeFlush, Ge!Start, GeAloneAt, GeSole, GeChunks, l, t
<1>4. CASE Ge!SendRoot(h) \/ Ge!Forget(h) \/ Ge!ForgetSpan(h) \/ Ge!Open(h)
  BY <1>4, <1>l, GeDid
  DEF DidSendRoot, DidForget, DidForgetSpan, DidOpen, GeAfter, GePlaced, GeFlush, Ge!Start, GeAloneAt, GeSole, GeChunks, l, t
<1>5. CASE Ge!OpenSpan(h) \/ Ge!Remove(h) \/ Ge!NewCall(h) \/ Ge!Crash(h) \/ Ge!SendTool(h)
  BY <1>5, <1>l, GeDid DEF DidOpenSpan, DidRemove, DidNewCall, DidCrash, DidSendTool, Ge!Start, l, t
<1>6. CASE Ge!Start(h)
  BY <1>6, <1>l, GeDid DEF DidStart, GeBegins, GeChunks, GeFlush, l, t
<1>7. CASE Ge!ChunkTrace(h)
  BY <1>7, <1>l, GeDid DEF DidChunkTrace, Ge!Get, Ge!Has, GeFlush, Ge!Start, l, t
<1>8. CASE Ge!ChunkCall(h) \/ Ge!ChunkNew(h) \/ Ge!WriteText(h)
  BY <1>8, <1>l, GeDid DEF DidChunkCall, DidChunkNew, DidWriteText, GeFlush, Ge!Start, l, t
<1>9. CASE Ge!ToolTrace(h) \/ Ge!ToolSpan(h)
  BY <1>9, <1>l, GeDid
  DEF DidToolTrace, DidToolSpan, GePlaced, GeFlush, GeToolAt, GeChunks, Ge!Start, l, t
<1> QED
  BY <1>1, <1>2, <1>3, <1>4, <1>5, <1>6, <1>7, <1>8, <1>9 DEF Ge!Step, l, t

(* What is known of a name stays known.                                    *)
LEMMA GeStays ==
  ASSUME GeBase, NEW h \in GeHooks, Ge!Step(h)
  PROVE  /\ \A x : Opened(x) => Opened(x)'
         /\ \A x : Issued(x) => Issued(x)'
         /\ \A x, y : Heard(x, y) => Heard(x, y)'
         /\ GeWorld' /\ world'.overlap = world.overlap
         /\ world'.crashes = 0 => world.crashes = 0 /\ ~Ge!Crash(h)
<1> DEFINE l == hooks[h]
           t == hooks'[h]
<1>c. /\ l.at # "done" /\ t.at # "new" /\ (l.at = "new" <=> Ge!Start(h))
      /\ l.at # "new" => t.kind = l.kind \/ t.at = "done"
      /\ l.at \notin {"new", "chunkTrace"} => t.at # "chunkTrace"
      /\ l.at = "openSpan" => t.at = "done"
      /\ l.kind \in GeChunks /\ l.at \in {"readText", "writeText"} \cup GeFlush =>
           \/ t.at = "done"
           \/ t.kind = l.kind /\ t.at \in {"readText", "writeText"} \cup GeFlush
  BY GeCourse
<1>w. \/ world' = world
      \/ Ge!Crash(h) /\ t.at = "done" /\ world' = [world EXCEPT !.crashes = @ + 1]
      \/ /\ l.at = "chunkTrace" /\ Ge!Has(store, Ge!TraceKey) /\ Ge!ChunkTrace(h)
         /\ t.at = "chunkCall"
         /\ world' = [world EXCEPT !.heard =
                        @ \cup {[chunk |-> h, trace |-> store[Ge!TraceKey]]}]
  BY GeCourse
<1>o. \A g \in GeHooks : g # h => hooks'[g] = hooks[g]
  BY GeDid
<1>b. /\ world \in [overlap : BOOLEAN, crashes : Nat, heard : SUBSET [chunk : GeHooks, trace : GeHooks]]
      /\ \A e \in world.heard : hooks[e.chunk].at \notin {"new", "chunkTrace"}
      /\ Ge!Has(store, Ge!TraceKey) => store[Ge!TraceKey] \in GeHooks
  BY DEF GeBase, GeWorld, GeStored, Opened
<1> HIDE DEF l, t
<1>1. \A x : Opened(x) => Opened(x)'
  BY <1>c, <1>o DEF Opened, l, t
<1>2. \A x : Issued(x) => Issued(x)'
  BY <1>c, <1>o DEF Issued, l, t
<1>3. /\ world'.overlap = world.overlap /\ world.heard \subseteq world'.heard
      /\ world' \in [overlap : BOOLEAN, crashes : Nat, heard : SUBSET [chunk : GeHooks, trace : GeHooks]]
      /\ world'.heard = world.heard
         \/ (t.at = "chunkCall" /\ world'.heard = world.heard \cup {[chunk |-> h, trace |-> store[Ge!TraceKey]]})
      /\ \/ world'.crashes = world.crashes
         \/ Ge!Crash(h) /\ world'.crashes = world.crashes + 1
      /\ Ge!Crash(h) => l.at # "new" /\ world'.crashes = world.crashes + 1
  BY <1>b, <1>w, GeDid DEF DidCrash, l, t
<1>4. \A e \in world'.heard : hooks'[e.chunk].at \notin {"new", "chunkTrace"}
  <2>1. \A e \in world.heard : e.chunk \in GeHooks
    BY <1>b
  <2> QED
    BY <1>3, <1>c, <1>b, <1>o, <2>1 DEF l, t
<1>5. world'.crashes = 0 => world.crashes = 0 /\ ~Ge!Crash(h)
  <2>1. world.crashes \in Nat
    BY <1>b
  <2> QED
    BY <1>3, <2>1
<1>6. \A x, y : Heard(x, y) => Heard(x, y)'
  BY <1>3 DEF Heard
<1> QED
  BY <1>1, <1>2, <1>3, <1>4, <1>5, <1>6 DEF GeWorld

(* Where the hook of an event that comes alone runs, no other runs but of  *)
(* a tool; and a chunk runs beside none but chunks and tools.              *)
GeBusy(g) == hooks[g].at \notin {"new", "done"}

LEMMA GeAlone ==
  ASSUME GeBase, NEW h \in GeHooks, Ge!Step(h)
  PROVE  /\ GeApart'
         /\ \A g \in GeHooks : g # h /\ GeBusy(g) /\ hooks[g].kind # "afterTool" =>
              /\ hooks[g].kind \in GeSole => hooks[h].at \in GeToolAt \/ hooks'[h].at \in GeToolAt
              /\ hooks[h].kind \in GeSole => hooks[h].at = "new" \/ hooks[h].at = "done"
              /\ GeBusy(h) /\ hooks[h].kind # "afterTool" => world.overlap /\ hooks[g].kind \in GeChunks
<1> DEFINE l == hooks[h]
           t == hooks'[h]
<1>l. GeApart /\ DOMAIN hooks = GeHooks /\ \A g \in GeHooks : GePlaced(hooks[g])
  BY DEF GeBase
<1>k. \A g \in GeHooks : GeBusy(g) => hooks[g].kind \in GeSole \cup GeChunks \cup {"afterTool"}
  BY <1>l DEF GePlaced, GeBusy, GeFlush, GeAloneAt, GeChunkAt, GeToolAt, GeSole, GeChunks
<1>o. \A g \in GeHooks : g # h => hooks'[g] = hooks[g]
  BY GeDid
<1>c. /\ l.at # "done" /\ (l.at = "new" <=> Ge!Start(h))
      /\ l.at # "new" => t.kind = l.kind \/ t.at = "done"
  BY GeCourse
<1>w. world'.overlap = world.overlap
  BY GeStays
<1>t. GePlaced(l) /\ l.at \notin {"new", "done"} /\ l.kind = "afterTool" => l.at \in GeToolAt
  BY DEF GePlaced, GeFlush, GeAloneAt, GeChunkAt, GeToolAt, GeSole, GeChunks
<1>s. Ge!Start(h) => GeBegins(t) /\ Ge!MayStart(t.kind)
  BY GeDid DEF DidStart
<1>m. Ge!Start(h) /\ t.kind # "afterTool" => \A g \in GeHooks : GeBusy(g) /\ hooks[g].kind # "afterTool" =>
        world.overlap /\ {t.kind, hooks[g].kind} \subseteq GeChunks
  BY <1>s, <1>k DEF Ge!MayStart, GeBegins, GeHooks, Ge!Running, GeBusy, Ge!Main, GeSole, GeChunks
<1>r. GeSole \cap GeChunks = {} /\ "afterTool" \notin GeSole \cup GeChunks
  BY DEF GeSole, GeChunks
<1> HIDE DEF l, t
<1>1. \A g \in GeHooks : GeBusy(g) /\ GeBusy(h) /\ g # h /\ hooks[g].kind # "afterTool" /\ l.kind # "afterTool" =>
        world.overlap /\ {l.kind, hooks[g].kind} \subseteq GeChunks
  BY <1>l DEF GeApart, Ge!Running, GeBusy, l
<1>2. \A g \in GeHooks : g # h /\ GeBusy(g) /\ hooks[g].kind # "afterTool" /\ GeBusy(h)' /\ t.kind # "afterTool" =>
        world.overlap /\ {t.kind, hooks[g].kind} \subseteq GeChunks
  <2>1. CASE Ge!Start(h)
    BY <2>1, <1>m
  <2>2. CASE ~Ge!Start(h)
    BY <2>2, <1>1, <1>c DEF GeBusy, l, t
  <2> QED
    BY <2>1, <2>2
<1>3. GeApart'
  <2> SUFFICES ASSUME NEW g \in GeHooks, NEW f \in GeHooks, g # f,
                      hooks'[g].at \notin {"new", "done"}, hooks'[f].at \notin {"new", "done"},
                      hooks'[g].kind # "afterTool", hooks'[f].kind # "afterTool"
               PROVE  world.overlap /\ {hooks'[g].kind, hooks'[f].kind} \subseteq GeChunks
    BY <1>w DEF GeApart, Ge!Running
  <2>1. CASE g # h /\ f # h
    BY <2>1, <1>o, <1>l DEF GeApart, Ge!Running
  <2>2. CASE g = h
    BY <2>2, <1>o, <1>2 DEF GeBusy, t
  <2>3. CASE f = h
    BY <2>3, <1>o, <1>2 DEF GeBusy, t
  <2> QED
    BY <2>1, <2>2, <2>3
<1>4. ASSUME NEW g \in GeHooks, g # h, GeBusy(g), hooks[g].kind # "afterTool"
      PROVE  /\ hooks[g].kind \in GeSole => l.at \in GeToolAt \/ t.at \in GeToolAt
             /\ l.kind \in GeSole => l.at = "new" \/ l.at = "done"
             /\ GeBusy(h) /\ l.kind # "afterTool" => world.overlap /\ hooks[g].kind \in GeChunks
  <2>1. GeBegins(t) /\ t.kind = "afterTool" => t.at \in GeToolAt
    BY DEF GeBegins, GeToolAt, GeChunks
  <2>2. CASE Ge!Start(h)
    BY <2>1, <2>2, <1>4, <1>m, <1>s, <1>c, <1>r DEF GeBusy, l
  <2>3. CASE ~Ge!Start(h)
    BY <2>3, <1>4, <1>1, <1>c, <1>r, <1>l, <1>t DEF GeBusy, l
  <2> QED
    BY <2>2, <2>3
<1> QED
  BY <1>3, <1>4 DEF l, t

LEMMA GeStoredStep ==
  ASSUME GeBase, NEW h \in GeHooks, Ge!Step(h)
  PROVE  GeStored'
<1> DEFINE l == hooks[h]
           t == hooks'[h]
<1>l. GePlaced(l) /\ GeKnows(h) /\ GeStored
  BY DEF GeBase
<1>m. /\ \A x : Opened(x) => Opened(x)'
      /\ \A x : Issued(x) => Issued(x)'
  BY GeStays
<1>1. Ge!Has(store', Ge!TraceKey) => Opened(store'[Ge!TraceKey]) \/ (store'[Ge!TraceKey] = h /\ t.at = "openSpan")
  <2>1. Ge!Open(h) => t.at = "openSpan"
    BY GeDid DEF DidOpen, GeGoes, GeAt
  <2> QED
    BY <1>l, <2>1, GeWrites DEF GeStored, SameAt
<1>2. Ge!Has(store', Ge!SpanKey) => store'[Ge!SpanKey] \in GeHooks
  BY <1>l, GeWrites DEF GeStored, SameAt
<1>3. Ge!Has(store', Ge!CallKey) =>
        \/ Issued(store'[Ge!CallKey])
        \/ store'[Ge!CallKey] = h /\ (t.at = "done" \/ (t.at = "readText" /\ t.kind \in GeChunks))
  <2>1. Ge!NewCall(h) => t.at = "done"
    BY GeDid DEF DidNewCall, GeGoes, GeAt
  <2>2. Ge!ChunkNew(h) => t.at = "readText" /\ t.kind \in GeChunks
    BY <1>l, GeDid DEF DidChunkNew, GeAt, GePlaced, GeChunkAt
  <2> QED
    BY <1>l, <2>1, <2>2, GeWrites DEF GeStored, SameAt
<1>4. ASSUME NEW c \in GeHooks, Ge!Has(store', Ge!TextKey(c))
      PROVE  Issued(c) /\ IsSeq(store'[Ge!TextKey(c)])
  <2>1. CASE Ge!WriteText(h) /\ c = l.call
    <3>1. l.at = "writeText"
      BY <2>1, GeDid DEF DidWriteText
    <3>2. IsSeq(Append(l.text, h)) /\ Issued(l.call)
      BY <1>l, <3>1, AppendAny DEF GePlaced, GeKnows
    <3> QED
      BY <2>1, <3>2, GeWrites
  <2>2. CASE ~(Ge!WriteText(h) /\ c = l.call)
    BY <1>4, <2>2, <1>l, GeWrites DEF GeStored, SameAt
  <2> QED
    BY <2>1, <2>2
<1>5. /\ Ge!Has(store', Ge!TraceKey) => Opened(store[Ge!TraceKey])'
      /\ Ge!Has(store', Ge!CallKey) => Issued(store[Ge!CallKey])'
  <2>1. t.at = "openSpan" => Opened(h)'
    BY DEF Opened
  <2>2. t.at = "done" \/ (t.at = "readText" /\ t.kind \in GeChunks) => Issued(h)'
    BY DEF Issued
  <2>3. /\ \A x : x = store'[Ge!TraceKey] => (Opened(x)' <=> Opened(store[Ge!TraceKey])')
        /\ \A x : x = store'[Ge!CallKey] => (Issued(x)' <=> Issued(store[Ge!CallKey])')
    BY DEF Opened, Issued
  <2> QED
    BY <1>1, <1>3, <1>m, <2>1, <2>2, <2>3
<1> QED
  BY <1>2, <1>4, <1>5, <1>m DEF GeStored, Ge!Has, Ge!TraceKey, Ge!SpanKey, Ge!CallKey, Ge!TextKey

(* What another hook knows of the dict stays true: none that may run       *)
(* beside it writes what it relies on.                                     *)
LEMMA GeOthers ==
  ASSUME GeBase, NEW h \in GeHooks, Ge!Step(h), NEW g \in GeHooks, g # h
  PROVE  /\ GeBusy(g) /\ hooks[g].kind # "afterTool" => SameAt(Ge!TraceKey) /\ SameAt(Ge!SpanKey)
         /\ GeBusy(g) /\ hooks[g].kind \in GeSole => \A k \in GeKeys \ {Ge!SessionKey} : SameAt(k)
         /\ GeKnows(g)'
<1> DEFINE l == hooks[h]
           m == hooks[g]
<1>l. GePlaced(l) /\ GePlaced(m) /\ GeKnows(g)
  BY DEF GeBase
<1>a. GeBusy(g) /\ m.kind # "afterTool" =>
        /\ m.kind \in GeSole => l.at \in GeToolAt \/ hooks'[h].at \in GeToolAt
        /\ l.kind \in GeSole => l.at = "new" \/ l.at = "done"
  BY GeAlone
<1>s. "afterTool" \notin GeSole
  BY DEF GeSole
<1>1. Ge!Forget(h) \/ Ge!ForgetSpan(h) \/ Ge!Open(h) \/ Ge!OpenSpan(h) \/ Ge!Remove(h) \/ Ge!NewCall(h)
        => /\ l.at \in GeAloneAt /\ l.kind \in GeSole
           /\ hooks'[h].at \notin GeToolAt
  <2>1. Ge!Forget(h) \/ Ge!ForgetSpan(h) \/ Ge!Open(h) \/ Ge!OpenSpan(h) \/ Ge!Remove(h) \/ Ge!NewCall(h)
          => l.at \in GeAloneAt /\ hooks'[h].at \notin GeToolAt
    BY GeDid DEF DidForget, DidForgetSpan, DidOpen, DidOpenSpan, DidRemove, DidNewCall, GeAt, GeGoes,
       GeAloneAt, GeToolAt, GeAfter
  <2> QED
    BY <1>l, <2>1 DEF GePlaced
<1>2. Ge!ClearCall(h) \/ Ge!ChunkNew(h) => l.at \notin GeToolAt /\ hooks'[h].at \notin GeToolAt
  BY <1>l, GeDid DEF DidClearCall, DidChunkNew, GeAt, GeToolAt, GePlaced, GeFlush
<1>3. GeAloneAt \cap {"new", "done"} = {} /\ GeAloneAt \cap GeToolAt = {}
  BY DEF GeAloneAt, GeToolAt
<1> HIDE DEF l, m
<1>4. GeBusy(g) /\ m.kind # "afterTool" => SameAt(Ge!TraceKey) /\ SameAt(Ge!SpanKey)
  BY <1>a, <1>1, <1>3, GeWrites
<1>5. GeBusy(g) /\ m.kind \in GeSole => SameAt(Ge!CallKey)
  BY <1>a, <1>1, <1>2, <1>3, <1>s, GeWrites
<1>6. GeBusy(g) /\ m.kind \in GeSole => \A k \in GeKeys \ {Ge!SessionKey} : SameAt(k)
  BY <1>4, <1>5, <1>s DEF GeKeys
<1>7. GeKnows(g)'
  <2>1. hooks'[g] = m
    BY GeDid DEF m
  <2>2. /\ \A x : Opened(x) => Opened(x)'
        /\ \A x : Issued(x) => Issued(x)'
        /\ \A x, y : Heard(x, y) => Heard(x, y)'
    BY GeStays
  <2>3. /\ m.at \in {"chunkCall", "chunkNew", "readText", "writeText", "flushText", "sendLlm", "sendRoot"} \cup GeFlush =>
             GeBusy(g) /\ m.kind # "afterTool"
        /\ m.at \in {"trace", "sendRoot", "forget", "forgetSpan", "open", "openSpan", "remove", "newCall"} =>
             GeBusy(g) /\ m.kind \in GeSole
        /\ m.at \in GeFlush => GeBusy(g)
    BY <1>l DEF GePlaced, GeFlush, GeChunkAt, GeAloneAt, GeSole, GeChunks, GeBusy, m
  <2>4. \A k : k = m =>
          /\ k.trace # None => Opened(k.trace)'
          /\ k.at \in {"readText", "writeText"} \cup (GeFlush \ {"flush"}) => Issued(k.call)'
          /\ k.at \in {"sendLlm", "writeText"} => AllHeard(k.text, k.trace)'
          /\ k.at \in {"chunkCall", "chunkNew", "readText", "writeText"} => Heard(g, k.trace)'
    BY <1>l, <2>2 DEF GeKnows, AllHeard, m
  <2>5. /\ m.at \in {"chunkCall", "chunkNew", "readText", "writeText", "flushText", "sendLlm"} =>
             Ge!Has(store', Ge!TraceKey) /\ m.trace = store'[Ge!TraceKey]
        /\ m.at = "sendRoot" \/ (m.at \in GeFlush /\ m.next = "sendRoot") =>
             Ge!Has(store', Ge!TraceKey) /\ m.trace = store'[Ge!TraceKey]
    BY <1>l, <1>4, <2>3 DEF GeKnows, SameAt, m
  <2>6. /\ m.at \in GeFlush \ {"flush"} /\ m.kind \in GeSole =>
             Ge!Has(store', Ge!CallKey) /\ store'[Ge!CallKey] = m.call
        /\ m.at \in {"trace", "sendRoot", "forget", "forgetSpan", "open", "openSpan", "remove", "newCall"} =>
             ~Ge!Has(store', Ge!CallKey)
        /\ m.at \in {"toolSpan", "sendTool"} => m.trace # None
    BY <1>l, <1>5, <2>3 DEF GeKnows, SameAt, m
  <2> QED
    BY <2>1, <2>4, <2>5, <2>6 DEF GeKnows, Opened, Issued, Heard, AllHeard, Ge!Has, Ge!TraceKey, Ge!CallKey, m
<1> QED
  BY <1>4, <1>6, <1>7 DEF m

(* What the hook itself knows after its step, in terms of what was known.  *)
GeLearns(h) ==
  LET l == hooks[h] t == hooks'[h] IN
  /\ t.trace # None => Opened(t.trace)
  /\ t.at \in {"readText", "writeText"} \cup (GeFlush \ {"flush"}) =>
       Issued(t.call) \/ (t.call = h /\ t.at = "readText" /\ t.kind \in GeChunks)
  /\ t.at \in {"chunkCall", "chunkNew", "readText", "writeText", "flushText", "sendLlm"} =>
       Ge!Has(store', Ge!TraceKey) /\ t.trace = store'[Ge!TraceKey]
  /\ t.at \in {"sendLlm", "writeText"} => AllHeard(t.text, t.trace)
  /\ t.at \in {"chunkCall", "chunkNew", "readText", "writeText"} =>
       Heard(h, t.trace) \/ [chunk |-> h, trace |-> t.trace] \in world'.heard
  /\ t.at \in GeFlush \ {"flush"} /\ t.kind \in GeSole =>
       Ge!Has(store', Ge!CallKey) /\ store'[Ge!CallKey] = t.call
  /\ t.at \in {"trace", "sendRoot", "forget", "forgetSpan", "open", "openSpan", "remove", "newCall"} =>
       ~Ge!Has(store', Ge!CallKey)
  /\ t.at = "sendRoot" \/ (t.at \in GeFlush /\ t.next = "sendRoot") =>
       Ge!Has(store', Ge!TraceKey) /\ t.trace = store'[Ge!TraceKey]
  /\ t.at \in {"toolSpan", "sendTool"} => t.trace # None

LEMMA GeLearnsFlush ==
  ASSUME GeBase, NEW h \in GeHooks,
         \/ Ge!FlushCall(h) \/ Ge!FlushTrace(h) \/ Ge!FlushText(h)
         \/ Ge!SendLlm(h) \/ Ge!Clear(h) \/ Ge!ClearCall(h)
  PROVE  GeLearns(h)
<1> DEFINE l == hooks[h]
           t == hooks'[h]
<1>l. GePlaced(l) /\ GeKnows(h) /\ GeStored /\ GeTexts /\ Ge!Step(h)
  BY DEF GeBase, Ge!Step
<1>v. /\ \A k : Ge!Get(store, k) = IF Ge!Has(store, k) THEN store[k] ELSE None
      /\ Ge!Has(store, Ge!TraceKey) => Opened(store[Ge!TraceKey]) /\ store[Ge!TraceKey] # None
      /\ Ge!Has(store, Ge!CallKey) => Issued(store[Ge!CallKey]) /\ store[Ge!CallKey] # None
  BY <1>l DEF Ge!Get, Ge!Has, GeStored, Opened, Issued, GeBase
<1>n. /\ l.at \in GeFlush =>
           /\ l.next \in {"done", "newCall", "trace", "sendRoot", "open", "remove"}
           /\ l.next = "done" <=> l.kind \in GeChunks
           /\ l.kind \in GeSole <=> l.kind \notin GeChunks
      /\ {"flushTrace", "flushText", "sendLlm", "clear", "clearCall"} = GeFlush \ {"flush"}
      /\ "flush" \in GeFlush
  BY <1>l DEF GePlaced, GeFlush, GeSole, GeChunks
<1> HIDE DEF l, t
<1>1. CASE Ge!FlushCall(h)
  <2>1. /\ l.at = "flush" /\ store' = store
        /\ ~Ge!Has(store, Ge!CallKey) => GeAt(t, l.next, l.kind, l.trace, None, l.text, l.next)
        /\ Ge!Has(store, Ge!CallKey) => GeAt(t, "flushTrace", l.kind, l.trace, store[Ge!CallKey], l.text, l.next)
    BY <1>1, <1>l, <1>v, GeDid DEF DidFlushCall, GeRest, l, t
  <2> QED
    BY <1>l, <1>v, <1>n, <2>1 DEF GeLearns, GeKnows, GeAt, l, t
<1>2. CASE Ge!FlushTrace(h)
  <2>1. /\ l.at = "flushTrace" /\ store' = store
        /\ GeAt(t, IF Ge!Has(store, Ge!TraceKey) THEN "flushText" ELSE "clear",
                l.kind, Ge!Get(store, Ge!TraceKey), l.call, l.text, l.next)
    BY <1>2, <1>l, <1>v, GeDid DEF DidFlushTrace, GeRest, l, t
  <2> QED
    BY <1>l, <1>v, <1>n, <2>1 DEF GeLearns, GeKnows, GeAt, l, t
<1>3. CASE Ge!FlushText(h)
  <2>1. /\ l.at = "flushText" /\ store' = store
        /\ GeAt(t, "sendLlm", l.kind, l.trace, l.call, GeTextOf(l.call), l.next)
    BY <1>3, <1>l, GeDid DEF DidFlushText, GeRest, l, t
  <2>2. AllHeard(GeTextOf(l.call), l.trace)
    <3>1. Current(l.call) /\ l.call \in GeHooks
      BY <1>l, <1>n, <2>1 DEF Current, GeKnows, Issued, l
    <3>2. l.trace = store[Ge!TraceKey]
      BY <1>l, <2>1 DEF GeKnows, l
    <3> QED
      BY <1>l, <3>1, <3>2 DEF GeTexts, GeTextOf, AllHeard
  <2> QED
    BY <1>l, <1>n, <2>1, <2>2 DEF GeLearns, GeKnows, GeAt, l, t
<1>4. CASE Ge!SendLlm(h)
  <2>1. /\ l.at = "sendLlm" /\ store' = store
        /\ GeAt(t, "clear", l.kind, l.trace, l.call, l.text, l.next)
    BY <1>4, <1>l, GeDid DEF DidSendLlm, GeSends, l, t
  <2> QED
    BY <1>l, <1>n, <2>1 DEF GeLearns, GeKnows, GeAt, l, t
<1>5. CASE Ge!Clear(h)
  <2>1. /\ l.at = "clear" /\ SameAt(Ge!TraceKey) /\ SameAt(Ge!CallKey)
        /\ GeAt(t, "clearCall", l.kind, l.trace, l.call, l.text, l.next)
    <3>1. ~Ge!Forget(h) /\ ~Ge!Open(h) /\ ~Ge!Remove(h) /\ ~Ge!ClearCall(h) /\ ~Ge!NewCall(h) /\ ~Ge!ChunkNew(h)
      BY <1>5 DEF Ge!Clear, Ge!Forget, Ge!Open, Ge!Remove, Ge!ClearCall, Ge!NewCall, Ge!ChunkNew, Ge!Local
    <3> QED
      BY <1>5, <1>l, <3>1, GeDid, GeWrites DEF DidClear, l, t
  <2> QED
    BY <1>l, <1>n, <2>1 DEF GeLearns, GeKnows, GeAt, SameAt, l, t
<1>6. CASE Ge!ClearCall(h)
  <2>1. /\ l.at = "clearCall" /\ SameAt(Ge!TraceKey)
        /\ Ge!Get(store, Ge!CallKey) = l.call => ~Ge!Has(store', Ge!CallKey)
        /\ GeAt(t, l.next, l.kind, l.trace, l.call, l.text, l.next)
    <3>1. ~Ge!Forget(h) /\ ~Ge!Open(h) /\ ~Ge!Remove(h)
      BY <1>6 DEF Ge!Forget, Ge!Open, Ge!Remove, Ge!ClearCall, Ge!Local
    <3> QED
      BY <1>6, <1>l, <3>1, GeDid, GeWrites DEF DidClearCall, l, t
  <2>2. l.kind \in GeSole => ~Ge!Has(store', Ge!CallKey)
    BY <1>l, <1>v, <1>n, <2>1 DEF GeKnows, l
  <2> QED
    BY <1>l, <1>n, <2>1, <2>2 DEF GeLearns, GeKnows, GeAt, SameAt, l, t
<1> QED
  BY <1>1, <1>2, <1>3, <1>4, <1>5, <1>6

LEMMA GeLearnsTurn ==
  ASSUME GeBase, NEW h \in GeHooks,
         \/ Ge!Ensure(h) \/ Ge!Known(h) \/ Ge!Pending(h) \/ Ge!ReadTurn(h) \/ Ge!SendRoot(h) \/ Ge!Forget(h)
         \/ Ge!ForgetSpan(h) \/ Ge!Open(h) \/ Ge!OpenSpan(h) \/ Ge!Remove(h) \/ Ge!NewCall(h)
  PROVE  GeLearns(h)
<1> DEFINE l == hooks[h]
           t == hooks'[h]
<1>l. GePlaced(l) /\ GeKnows(h) /\ GeStored /\ Ge!Step(h)
  BY DEF GeBase, Ge!Step
<1>v. /\ \A k : Ge!Get(store, k) = IF Ge!Has(store, k) THEN store[k] ELSE None
      /\ Ge!Has(store, Ge!TraceKey) => Opened(store[Ge!TraceKey]) /\ store[Ge!TraceKey] # None
  BY <1>l DEF Ge!Get, Ge!Has, GeStored, Opened, Issued, GeBase
<1>a. GeAfter(h) \in {"open", "remove"}
  BY DEF GeAfter
<1> HIDE DEF l, t
<1>1. CASE Ge!Ensure(h) \/ Ge!Known(h)
  <2>1. \/ t.at = "pending" /\ t.trace = l.trace
        \/ t.at = "done" /\ t.trace = None
    BY <1>1, <1>l, GeDid DEF DidEnsure, DidKnown, GeGoes, GeAt, l, t
  <2> QED
    BY <1>l, <2>1 DEF GeLearns, GeKnows, GeFlush, l, t
<1>2. CASE Ge!Pending(h)
  <2>1. /\ t.at = "flush" /\ t.trace = Ge!Get(store, Ge!TraceKey) /\ store' = store
        /\ t.next = "sendRoot" => Ge!Has(store, Ge!TraceKey)
    BY <1>2, <1>l, <1>a, GeDid DEF DidPending, GeRest, GeAt, l, t
  <2> QED
    BY <1>l, <1>v, <2>1 DEF GeLearns, GeFlush, l, t
<1>3. CASE Ge!ReadTurn(h)
  <2>1. /\ l.at = "trace" /\ store' = store
        /\ \/ t.at = "done" /\ t.trace = None
           \/ t.at = "sendRoot" /\ Ge!Has(store, Ge!TraceKey) /\ t.trace = store[Ge!TraceKey]
    BY <1>3, <1>l, <1>v, GeDid DEF DidReadTurn, GeRest, GeAt, l, t
  <2> QED
    BY <1>l, <1>v, <2>1 DEF GeLearns, GeKnows, GeFlush, l, t
<1>4. CASE Ge!SendRoot(h) \/ Ge!Forget(h) \/ Ge!ForgetSpan(h) \/ Ge!Open(h)
  <2>1. /\ l.at \in {"sendRoot", "forget", "forgetSpan", "open"} /\ SameAt(Ge!CallKey)
        /\ t.at \in {"forget", "forgetSpan", "open", "remove", "openSpan", "done"}
        /\ t.trace = l.trace \/ t.trace = None
    <3>1. ~Ge!Remove(h) /\ ~Ge!ClearCall(h) /\ ~Ge!NewCall(h) /\ ~Ge!ChunkNew(h)
      BY <1>4 DEF Ge!SendRoot, Ge!Forget, Ge!ForgetSpan, Ge!Open, Ge!Remove, Ge!ClearCall, Ge!NewCall,
         Ge!ChunkNew, Ge!Local
    <3> QED
      BY <1>4, <1>l, <1>a, <3>1, GeDid, GeWrites
      DEF DidSendRoot, DidForget, DidForgetSpan, DidOpen, GeGoes, GeAt, l, t
  <2> QED
    BY <1>l, <2>1 DEF GeLearns, GeKnows, GeFlush, SameAt, l, t
<1>5. CASE Ge!OpenSpan(h) \/ Ge!Remove(h) \/ Ge!NewCall(h)
  <2>1. t.at = "done" /\ t.trace = None
    BY <1>5, <1>l, GeDid DEF DidOpenSpan, DidRemove, DidNewCall, GeGoes, GeAt, l, t
  <2> QED
    BY <2>1 DEF GeLearns, GeFlush, l, t
<1> QED
  BY <1>1, <1>2, <1>3, <1>4, <1>5

LEMMA GeLearnsRest ==
  ASSUME GeBase, NEW h \in GeHooks,
         \/ Ge!Start(h) \/ Ge!ChunkTrace(h) \/ Ge!ChunkCall(h) \/ Ge!ChunkNew(h) \/ Ge!ReadText(h)
         \/ Ge!WriteText(h) \/ Ge!ToolTrace(h) \/ Ge!ToolSpan(h) \/ Ge!SendTool(h) \/ Ge!Crash(h)
  PROVE  GeLearns(h)
<1> DEFINE l == hooks[h]
           t == hooks'[h]
<1>l. GePlaced(l) /\ GeKnows(h) /\ GeStored /\ GeTexts /\ Ge!Step(h)
  BY DEF GeBase, Ge!Step
<1>v. /\ \A k : Ge!Get(store, k) = IF Ge!Has(store, k) THEN store[k] ELSE None
      /\ Ge!Has(store, Ge!TraceKey) => Opened(store[Ge!TraceKey]) /\ store[Ge!TraceKey] # None
      /\ Ge!Has(store, Ge!CallKey) => Issued(store[Ge!CallKey]) /\ store[Ge!CallKey] # None
  BY <1>l DEF Ge!Get, Ge!Has, GeStored, Opened, Issued, GeBase
<1>n. l.at \in GeChunkAt => l.next = "done" /\ l.kind \in GeChunks /\ l.kind \notin GeSole
  BY <1>l DEF GePlaced, GeSole, GeChunks
<1> HIDE DEF l, t
<1>1. CASE Ge!Start(h)
  <2>1. GeBegins(t) /\ t.trace = None
    BY <1>1, <1>l, GeDid DEF DidStart, t
  <2> QED
    BY <2>1, <1>1, <1>l DEF GeLearns, GeBegins, GeFlush, GeAt, l, t
<1>2. CASE Ge!ChunkTrace(h)
  <2>1. /\ store' = store
        /\ \/ t.at = "done" /\ t.trace = None
           \/ t.at = "chunkCall" /\ Ge!Has(store, Ge!TraceKey) /\ t.trace = store[Ge!TraceKey]
    BY <1>2, <1>l, <1>v, GeDid DEF DidChunkTrace, GeAt, l, t
  <2>2. t.at = "chunkCall" => [chunk |-> h, trace |-> store[Ge!TraceKey]] \in world'.heard
    <3>1. DOMAIN world = {"overlap", "crashes", "heard"}
      BY DEF GeBase, GeWorld
    <3> QED
      BY <1>2, <1>l, <1>v, <3>1, GeDid DEF DidChunkTrace, GeAt, t
  <2> QED
    BY <1>v, <2>1, <2>2 DEF GeLearns, GeFlush, l, t
<1>3. CASE Ge!ChunkCall(h)
  <2>1. /\ l.at = "chunkCall" /\ store' = store /\ t.trace = l.trace
        /\ \/ t.at = "chunkNew"
           \/ t.at = "readText" /\ Ge!Has(store, Ge!CallKey) /\ t.call = store[Ge!CallKey]
    BY <1>3, <1>l, <1>v, GeDid DEF DidChunkCall, GeRest, GeAt, l, t
  <2> QED
    BY <1>l, <1>v, <2>1 DEF GeLearns, GeKnows, GeFlush, l, t
<1>4. CASE Ge!ChunkNew(h)
  <2>1. /\ l.at = "chunkNew" /\ SameAt(Ge!TraceKey) /\ t.trace = l.trace /\ t.at = "readText"
        /\ t.call = h /\ t.kind = l.kind
    <3>1. ~Ge!Forget(h) /\ ~Ge!Open(h) /\ ~Ge!Remove(h)
      BY <1>4 DEF Ge!Forget, Ge!Open, Ge!Remove, Ge!ChunkNew, Ge!Local
    <3> QED
      BY <1>4, <1>l, <3>1, GeDid, GeWrites DEF DidChunkNew, GeAt, l, t
  <2> QED
    BY <1>l, <1>n, <2>1 DEF GeLearns, GeKnows, GeFlush, GeChunkAt, SameAt, l, t
<1>5. CASE Ge!ReadText(h)
  <2>1. /\ l.at = "readText" /\ store' = store /\ t.at = "writeText" /\ t.trace = l.trace
        /\ t.call = l.call /\ t.text = GeTextOf(l.call)
    BY <1>5, <1>l, GeDid DEF DidReadText, GeRest, GeAt, l, t
  <2>2. AllHeard(GeTextOf(l.call), l.trace)
    <3>1. Current(l.call) /\ l.call \in GeHooks
      BY <1>l, <2>1 DEF Current, GeKnows, Issued, l
    <3>2. l.trace = store[Ge!TraceKey]
      BY <1>l, <2>1 DEF GeKnows, l
    <3> QED
      BY <1>l, <3>1, <3>2 DEF GeTexts, GeTextOf, AllHeard
  <2> QED
    BY <1>l, <2>1, <2>2 DEF GeLearns, GeKnows, GeFlush, l, t
<1>6. CASE Ge!WriteText(h)
  <2>1. /\ l.at = "writeText" /\ t.at \in {"flush", "done"} /\ (t.trace = l.trace \/ t.trace = None)
        /\ t.at = "flush" => t.next = l.next
    BY <1>6, <1>l, GeDid DEF DidWriteText, GeAt, l, t
  <2> QED
    BY <1>l, <1>n, <2>1 DEF GeLearns, GeKnows, GeFlush, GeChunkAt, l, t
<1>7. CASE Ge!ToolTrace(h) \/ Ge!ToolSpan(h) \/ Ge!SendTool(h) \/ Ge!Crash(h)
  <2>1. \/ t.at = "done" /\ t.trace = None
        \/ t.at = "toolSpan" /\ Ge!Has(store, Ge!TraceKey) /\ t.trace = store[Ge!TraceKey]
        \/ l.at = "toolSpan" /\ t.at = "sendTool" /\ t.trace = l.trace
    BY <1>7, <1>l, <1>v, GeDid DEF DidToolTrace, DidToolSpan, DidSendTool, DidCrash, GeAt, l, t
  <2> QED
    BY <1>l, <1>v, <2>1 DEF GeLearns, GeKnows, GeFlush, l, t
<1> QED
  BY <1>1, <1>2, <1>3, <1>4, <1>5, <1>6, <1>7

LEMMA GeKnowsStep ==
  ASSUME GeBase, NEW h \in GeHooks, Ge!Step(h)
  PROVE  \A g \in GeHooks : GeKnows(g)'
<1> DEFINE t == hooks'[h]
<1>1. GeLearns(h)
  BY GeLearnsFlush, GeLearnsTurn, GeLearnsRest DEF Ge!Step
<1>2. /\ \A x : Opened(x) => Opened(x)'
      /\ \A x : Issued(x) => Issued(x)'
      /\ \A x, y : Heard(x, y) => Heard(x, y)'
  BY GeStays
<1>3. \A k : k = t =>
        /\ k.trace # None => Opened(k.trace)'
        /\ k.at \in {"readText", "writeText"} \cup (GeFlush \ {"flush"}) => Issued(k.call)'
        /\ k.at \in {"sendLlm", "writeText"} => AllHeard(k.text, k.trace)'
        /\ k.at \in {"chunkCall", "chunkNew", "readText", "writeText"} => Heard(h, k.trace)'
  <2> TAKE k
  <2> HAVE k = t
  <2>1. k.trace # None => Opened(k.trace)'
    BY <1>1, <1>2 DEF GeLearns
  <2>2. k.at \in {"readText", "writeText"} \cup (GeFlush \ {"flush"}) => Issued(k.call)'
    <3>1. t.at = "readText" /\ t.kind \in GeChunks => Issued(h)'
      BY DEF Issued
    <3> QED
      BY <1>1, <1>2, <3>1 DEF GeLearns
  <2>3. k.at \in {"sendLlm", "writeText"} => AllHeard(k.text, k.trace)'
    BY <1>1, <1>2 DEF GeLearns, AllHeard
  <2>4. k.at \in {"chunkCall", "chunkNew", "readText", "writeText"} => Heard(h, k.trace)'
    BY <1>1, <1>2 DEF GeLearns, Heard
  <2> QED
    BY <2>1, <2>2, <2>3, <2>4
<1>4. GeKnows(h)'
  BY <1>1, <1>3 DEF GeLearns, GeKnows, Opened, Issued, Heard, AllHeard, Ge!Has, Ge!TraceKey, Ge!CallKey
<1> QED
  BY <1>4, GeOthers

(* Before a turn or the pointer to its call changes no call has text that  *)
(* may still be sent.                                                      *)
LEMMA GeTextsStep ==
  ASSUME GeBase, NEW h \in GeHooks, Ge!Step(h)
  PROVE  GeTexts'
<1> DEFINE l == hooks[h]
           t == hooks'[h]
           Now(c) == \/ Ge!Has(store', Ge!CallKey) /\ store'[Ge!CallKey] = c
                     \/ \E g \in GeHooks : hooks'[g].call = c
                          /\ hooks'[g].at \in {"readText", "writeText"} \cup (GeFlush \ {"flush"})
<1>l. GePlaced(l) /\ GeKnows(h) /\ GeStored /\ GeTexts
  BY DEF GeBase
<1>o. \A g \in GeHooks : g # h => hooks'[g] = hooks[g]
  BY GeDid
<1>h. \A x, y : Heard(x, y) => Heard(x, y)'
  BY GeStays
<1> SUFFICES ASSUME NEW c \in GeHooks, Now(c), Ge!Has(store', Ge!TextKey(c))
             PROVE  \A x, y : x = store'[Ge!TextKey(c)] /\ y = store'[Ge!TraceKey] =>
                      \A i \in DOMAIN x : Ge!Has(store', Ge!TraceKey) /\ Heard(x[i], y)'
  BY DEF GeTexts, Current, Heard, Ge!Has, Ge!TextKey, Ge!CallKey, Ge!TraceKey
<1> HIDE DEF l, t
<1>0. t.at \in {"readText", "writeText"} \cup (GeFlush \ {"flush"}) =>
        \/ l.at \in {"readText", "writeText"} \cup (GeFlush \ {"flush"}) /\ t.call = l.call
        \/ Ge!Has(store, Ge!CallKey) /\ t.call = store[Ge!CallKey]
        \/ Ge!ChunkNew(h) /\ t.call = h
  <2> USE DEF GeAt, GeGoes
  <2>v. \A k : Ge!Get(store, k) = IF Ge!Has(store, k) THEN store[k] ELSE None
    BY DEF Ge!Get, Ge!Has
  <2>1. CASE Ge!FlushCall(h)
    BY <2>1, <2>v, <1>l, GeDid DEF DidFlushCall, GePlaced, GeFlush, l, t
  <2>2. CASE \/ Ge!FlushTrace(h) \/ Ge!FlushText(h) \/ Ge!SendLlm(h) \/ Ge!Clear(h)
    BY <2>2, GeDid DEF DidFlushTrace, DidFlushText, DidSendLlm, DidClear, GeFlush, l, t
  <2>3. CASE Ge!ClearCall(h)
    BY <2>3, <1>l, GeDid DEF DidClearCall, GePlaced, GeFlush, l, t
  <2>4. CASE Ge!Ensure(h) \/ Ge!Known(h) \/ Ge!Pending(h) \/ Ge!ReadTurn(h)
    BY <2>4, GeDid DEF DidEnsure, DidKnown, DidPending, DidReadTurn, GeAfter, GeFlush, t
  <2>5. CASE Ge!SendRoot(h) \/ Ge!Forget(h) \/ Ge!ForgetSpan(h) \/ Ge!Open(h)
    BY <2>5, GeDid DEF DidSendRoot, DidForget, DidForgetSpan, DidOpen, GeAfter, GeFlush, t
  <2>6. CASE Ge!OpenSpan(h) \/ Ge!Remove(h) \/ Ge!NewCall(h) \/ Ge!SendTool(h) \/ Ge!Crash(h)
    BY <2>6, GeDid DEF DidOpenSpan, DidRemove, DidNewCall, DidSendTool, DidCrash, GeFlush, l, t
  <2>7. CASE Ge!Start(h) \/ Ge!ToolTrace(h) \/ Ge!ToolSpan(h)
    BY <2>7, <2>v, GeDid DEF DidStart, GeBegins, DidToolTrace, DidToolSpan, GeFlush, l, t
  <2>8. CASE Ge!ChunkTrace(h) \/ Ge!ChunkCall(h) \/ Ge!ChunkNew(h)
    BY <2>8, <2>v, GeDid DEF DidChunkTrace, DidChunkCall, DidChunkNew, GeFlush, l, t
  <2>9. CASE Ge!ReadText(h) \/ Ge!WriteText(h)
    BY <2>9, <2>v, GeDid DEF DidReadText, DidWriteText, GeFlush, l, t
  <2> QED
    BY <2>1, <2>2, <2>3, <2>4, <2>5, <2>6, <2>7, <2>8, <2>9 DEF Ge!Step
<1>1. Current(c) \/ ((Ge!NewCall(h) \/ Ge!ChunkNew(h)) /\ c = h)
  <2>1. CASE Ge!Has(store', Ge!CallKey) /\ store'[Ge!CallKey] = c
    BY <2>1, GeWrites DEF Current, SameAt
  <2>2. ASSUME NEW g \in GeHooks, hooks'[g].call = c,
               hooks'[g].at \in {"readText", "writeText"} \cup (GeFlush \ {"flush"})
        PROVE  Current(c) \/ (Ge!ChunkNew(h) /\ c = h)
    BY <2>2, <1>o, <1>0 DEF Current, l, t
  <2> QED
    BY <2>1, <2>2
<1>2. CASE (Ge!NewCall(h) \/ Ge!ChunkNew(h)) /\ c = h
  <2>1. ~Ge!Has(store, Ge!TextKey(c))
    <3>1. l.at \in {"newCall", "chunkNew"}
      BY <1>2, GeDid DEF DidNewCall, DidChunkNew, l
    <3>2. ~Issued(h)
      BY <3>1 DEF Issued, GeFlush, l
    <3> QED
      BY <1>2, <1>l, <3>2 DEF GeStored
  <2>2. SameAt(Ge!TextKey(c))
    <3>1. ~Ge!Clear(h) /\ ~Ge!WriteText(h) /\ ~Ge!Remove(h)
      BY <1>2 DEF Ge!NewCall, Ge!ChunkNew, Ge!Clear, Ge!WriteText, Ge!Remove, Ge!Local
    <3> QED
      BY <3>1, GeWrites
  <2> QED
    BY <2>1, <2>2 DEF SameAt
<1>3. CASE Ge!Forget(h) \/ Ge!Open(h) \/ Ge!Remove(h)
  <2>1. /\ l.at \in {"forget", "open", "remove"} /\ t.at \in {"forgetSpan", "openSpan", "done"}
        /\ l.kind \in GeSole
    BY <1>3, <1>l, GeDid DEF DidForget, DidOpen, DidRemove, GeGoes, GeAt, GePlaced, GeAloneAt, l, t
  <2>2. ~Ge!Has(store, Ge!CallKey)
    BY <1>l, <2>1 DEF GeKnows, l
  <2>3. \A g \in GeHooks : hooks[g].at \notin {"readText", "writeText"} \cup GeFlush
    <3> SUFFICES ASSUME NEW g \in GeHooks, hooks[g].at \in {"readText", "writeText"} \cup GeFlush
                 PROVE  FALSE
      OBVIOUS
    <3>1. g # h
      BY <2>1 DEF GeFlush, l
    <3>2. GePlaced(hooks[g])
      BY DEF GeBase
    <3>3. GeBusy(g) /\ hooks[g].kind # "afterTool"
      BY <3>2 DEF GePlaced, GeBusy, GeFlush, GeChunkAt, GeSole, GeChunks
    <3> QED
      BY <2>1, <3>1, <3>3, GeAlone DEF l
  <2>4. ~Current(c)
    BY <2>2, <2>3 DEF Current
  <2> QED
    BY <1>1, <1>2, <2>4
<1>4. CASE /\ Current(c)
           /\ ~Ge!Forget(h) /\ ~Ge!Open(h) /\ ~Ge!Remove(h)
  <2>1. SameAt(Ge!TraceKey)
    BY <1>4, GeWrites
  <2>2. CASE SameAt(Ge!TextKey(c))
    <3>1. store'[Ge!TextKey(c)] = store[Ge!TextKey(c)] /\ Ge!Has(store, Ge!TextKey(c))
      BY <2>2 DEF SameAt
    <3>2. \A i \in DOMAIN store[Ge!TextKey(c)] :
            Ge!Has(store, Ge!TraceKey) /\ Heard(store[Ge!TextKey(c)][i], store[Ge!TraceKey])
      BY <1>4, <1>l, <3>1 DEF GeTexts
    <3>3. \A x, y : x = store'[Ge!TextKey(c)] /\ y = store'[Ge!TraceKey] =>
            \A i \in DOMAIN x : Ge!Has(store', Ge!TraceKey) /\ Heard(x[i], y)'
      BY <1>h, <2>1, <3>1, <3>2 DEF SameAt
    <3> QED
      BY <3>3 DEF Heard
  <2>3. CASE Ge!WriteText(h) /\ c = l.call
    <3>1. l.at = "writeText"
      BY <2>3, GeDid DEF DidWriteText, l
    <3>2. /\ Ge!Has(store, Ge!TraceKey) /\ l.trace = store[Ge!TraceKey]
          /\ AllHeard(l.text, l.trace) /\ Heard(h, l.trace) /\ IsSeq(l.text)
      BY <1>l, <3>1 DEF GeKnows, GePlaced, l
    <3>3. store'[Ge!TextKey(c)] = Append(l.text, h)
      BY <2>3, GeWrites DEF l
    <3>4. \A i \in DOMAIN Append(l.text, h) : Heard(Append(l.text, h)[i], store[Ge!TraceKey])
      BY <3>2, AppendAny DEF AllHeard
    <3>5. \A x, y : x = store'[Ge!TextKey(c)] /\ y = store'[Ge!TraceKey] =>
            \A i \in DOMAIN x : Ge!Has(store', Ge!TraceKey) /\ Heard(x[i], y)'
      BY <1>h, <2>1, <3>2, <3>3, <3>4 DEF SameAt
    <3> QED
      BY <3>5 DEF Heard
  <2>4. CASE Ge!Clear(h) /\ c = l.call
    BY <2>4, GeWrites DEF l
  <2> QED
    BY <1>4, <2>2, <2>3, <2>4, GeWrites DEF l
<1> QED
  BY <1>1, <1>2, <1>3, <1>4

(* What is sent, at its end.                                               *)
LEMMA GeSentStep ==
  ASSUME GeBase, NEW h \in GeHooks, Ge!Step(h)
  PROVE  /\ GeSent'
         /\ \/ sent' = sent
            \/ \E s : /\ sent' = Append(sent, s) /\ store' = store /\ world' = world
                      /\ s.trace = hooks[h].trace /\ Opened(s.trace)
                      /\ \/ Ge!SendLlm(h) /\ s.what = "llm" /\ s.text = hooks[h].text
                         \/ Ge!SendRoot(h) /\ s.what = "root" /\ s.text = <<>>
                         \/ Ge!SendTool(h) /\ s.what = "tool" /\ s.text = <<>>
<1> DEFINE l == hooks[h]
<1>l. GePlaced(l) /\ GeKnows(h) /\ GeStored /\ GeSent
  BY DEF GeBase
<1>h. /\ \A x, y : Heard(x, y) => Heard(x, y)'
      /\ \A x : Opened(x) => Opened(x)'
  BY GeStays
<1>1. \/ sent' = sent
      \/ \E s : /\ sent' = Append(sent, s) /\ store' = store /\ world' = world
                /\ s.trace = l.trace
                /\ \/ Ge!SendLlm(h) /\ s.what = "llm" /\ s.text = l.text
                   \/ Ge!SendRoot(h) /\ s.what = "root" /\ s.text = <<>>
                   \/ Ge!SendTool(h) /\ s.what = "tool" /\ s.text = <<>>
  <2>1. CASE Ge!SendLlm(h)
    <3> DEFINE s == [what |-> "llm", trace |-> l.trace, parent |-> l.span, text |-> l.text]
    <3>1. sent' = Append(sent, s) /\ store' = store /\ world' = world
      BY <2>1, GeDid DEF DidSendLlm, GeSends
    <3>2. s.what = "llm" /\ s.trace = l.trace /\ s.text = l.text
      OBVIOUS
    <3> HIDE DEF s, l
    <3> QED
      BY <2>1, <3>1, <3>2
  <2>2. CASE Ge!SendRoot(h)
    <3> DEFINE s == [what |-> "root", trace |-> l.trace, parent |-> None, text |-> <<>>]
    <3>1. sent' = Append(sent, s) /\ store' = store /\ world' = world
      BY <2>2, GeDid DEF DidSendRoot, GeSends
    <3>2. s.what = "root" /\ s.trace = l.trace /\ s.text = <<>>
      OBVIOUS
    <3> HIDE DEF s, l
    <3> QED
      BY <2>2, <3>1, <3>2
  <2>3. CASE Ge!SendTool(h)
    <3> DEFINE s == [what |-> "tool", trace |-> l.trace, parent |-> l.span, text |-> <<>>]
    <3>1. sent' = Append(sent, s) /\ store' = store /\ world' = world
      BY <2>3, GeDid DEF DidSendTool, GeSends
    <3>2. s.what = "tool" /\ s.trace = l.trace /\ s.text = <<>>
      OBVIOUS
    <3> HIDE DEF s, l
    <3> QED
      BY <2>3, <3>1, <3>2
  <2>4. CASE ~Ge!SendLlm(h) /\ ~Ge!SendRoot(h) /\ ~Ge!SendTool(h)
    BY <2>4 DEF Ge!Step, Ge!Start, Ge!FlushCall, Ge!FlushTrace, Ge!FlushText, Ge!Clear, Ge!ClearCall,
       Ge!Ensure, Ge!Known, Ge!Pending, Ge!ReadTurn, Ge!Forget, Ge!ForgetSpan, Ge!Open, Ge!OpenSpan,
       Ge!Remove, Ge!NewCall, Ge!ChunkTrace, Ge!ChunkCall, Ge!ChunkNew, Ge!ReadText, Ge!WriteText,
       Ge!ToolTrace, Ge!ToolSpan, Ge!Crash, Ge!Keeps, Ge!Writes
  <2> QED
    BY <2>1, <2>2, <2>3, <2>4
<1>2. Ge!SendLlm(h) \/ Ge!SendRoot(h) \/ Ge!SendTool(h) => Opened(l.trace)
  <2>1. Ge!SendLlm(h) \/ Ge!SendRoot(h) \/ Ge!SendTool(h) => l.at \in {"sendLlm", "sendRoot", "sendTool"}
    BY GeDid DEF DidSendLlm, DidSendRoot, DidSendTool
  <2> QED
    BY <1>l, <2>1 DEF GeKnows, GeStored
<1>3. Ge!SendLlm(h) => AllHeard(l.text, l.trace)
  <2>1. Ge!SendLlm(h) => l.at = "sendLlm"
    BY GeDid DEF DidSendLlm
  <2> QED
    BY <1>l, <2>1 DEF GeKnows
<1>4. /\ IsSeq(sent')
      /\ \A i \in DOMAIN sent' : Opened(sent'[i].trace) /\ AllHeard(sent'[i].text, sent'[i].trace)
  <2>1. CASE sent' = sent
    BY <1>l, <2>1 DEF GeSent
  <2>2. ASSUME NEW s, sent' = Append(sent, s), Opened(s.trace), AllHeard(s.text, s.trace)
        PROVE  <1>4!:
    BY <1>l, <2>2, AppendAny DEF GeSent
  <2>3. AllHeard(<<>>, l.trace)
    BY DEF AllHeard
  <2> QED
    BY <1>1, <1>2, <1>3, <2>1, <2>2, <2>3
<1>5. GeSent'
  <2>1. \A q : q = sent' => \A i \in DOMAIN q : Opened(q[i].trace)' /\ AllHeard(q[i].text, q[i].trace)'
    BY <1>h, <1>4 DEF AllHeard
  <2> QED
    BY <1>4, <2>1 DEF GeSent, IsSeq, Opened, AllHeard, Heard
<1> QED
  BY <1>1, <1>2, <1>5

LEMMA GeBaseStep ==
  ASSUME GeBase, NEW h \in GeHooks, Ge!Step(h)
  PROVE  GeBase'
<1>1. GeWorld' /\ GeStored' /\ GeSent' /\ GeTexts' /\ GeApart'
  BY GeStays, GeStoredStep, GeSentStep, GeTextsStep, GeAlone
<1>2. DOMAIN hooks' = GeHooks /\ \A g \in GeHooks : GePlaced(hooks'[g]) /\ GeKnows(g)'
  BY GeDid, GePlacedStep, GeKnowsStep
<1>3. None \notin GeHooks
  BY DEF GeBase
<1> QED
  BY <1>1, <1>2, <1>3 DEF GeBase, GeHooks, GePlaced

-----------------------------------------------------------------------------
(* Every turn gets its root *)

(* The next place and trace of a hook that closes or opens turns.          *)
LEMMA GePath ==
  ASSUME GeBase, NEW h \in GeHooks, Ge!Step(h)
  PROVE  LET l == hooks[h] t == hooks'[h] IN
         /\ \/ t.trace \in {None, l.trace}
            \/ Ge!Has(store, Ge!TraceKey) /\ t.trace = store[Ge!TraceKey]
         /\ t.at = "forget" => Ge!SendRoot(h)
         /\ t.at = "forgetSpan" => Ge!Forget(h)
         /\ t.at = "openSpan" => Ge!Open(h)
         /\ t.at \in {"open", "remove"} \/ (t.at \in GeFlush /\ t.next \in {"open", "remove"}) =>
              \/ Ge!Pending(h) /\ ~(Ge!Has(store, Ge!TraceKey) /\ Ge!Has(store, Ge!SpanKey))
              \/ Ge!ForgetSpan(h)
              \/ l.at \in GeFlush /\ l.next \in {"open", "remove"}
         /\ l.at = "forget" => Ge!Forget(h) \/ Ge!Crash(h)
         /\ l.at = "forgetSpan" => Ge!ForgetSpan(h) \/ Ge!Crash(h)
         /\ l.at = "openSpan" => Ge!OpenSpan(h) \/ Ge!Crash(h)
<1> USE DEF GeAt, GeGoes
<1> DEFINE l == hooks[h]
           t == hooks'[h]
<1>l. GePlaced(l)
  BY DEF GeBase
<1>v. \A k : Ge!Get(store, k) = IF Ge!Has(store, k) THEN store[k] ELSE None
  BY DEF Ge!Get, Ge!Has
<1>n. l.at \in GeFlush => l.next \in {"done", "newCall", "trace", "sendRoot", "open", "remove"}
  BY <1>l DEF GePlaced
<1> HIDE DEF l, t
<1>1. CASE Ge!FlushCall(h) \/ Ge!ClearCall(h)
  BY <1>1, <1>n, <1>v, GeDid DEF DidFlushCall, DidClearCall, GeFlush, l, t
<1>2. CASE \/ Ge!FlushTrace(h) \/ Ge!FlushText(h) \/ Ge!SendLlm(h) \/ Ge!Clear(h)
  BY <1>2, <1>n, <1>v, GeDid DEF DidFlushTrace, DidFlushText, DidSendLlm, DidClear, GeFlush, l, t
<1>3. CASE Ge!Ensure(h) \/ Ge!Known(h) \/ Ge!ReadTurn(h)
  BY <1>3, <1>v, GeDid DEF DidEnsure, DidKnown, DidReadTurn, GeFlush, l, t
<1>4. CASE Ge!Pending(h)
  BY <1>4, <1>v, GeDid DEF DidPending, GeFlush, l, t
<1>5. CASE Ge!SendRoot(h) \/ Ge!Forget(h) \/ Ge!ForgetSpan(h) \/ Ge!Open(h)
  BY <1>5, GeDid DEF DidSendRoot, DidForget, DidForgetSpan, DidOpen, GeAfter, GeFlush, l, t
<1>6. CASE \/ Ge!OpenSpan(h) \/ Ge!Remove(h) \/ Ge!NewCall(h) \/ Ge!SendTool(h) \/ Ge!Crash(h)
  BY <1>6, GeDid DEF DidOpenSpan, DidRemove, DidNewCall, DidSendTool, DidCrash, GeFlush, l, t
<1>7. CASE Ge!Start(h)
  BY <1>7, GeDid DEF DidStart, GeBegins, GeFlush, GeChunks, l, t
<1>8. CASE \/ Ge!ChunkTrace(h) \/ Ge!ChunkCall(h) \/ Ge!ToolTrace(h) \/ Ge!ToolSpan(h)
  BY <1>8, <1>v, GeDid DEF DidChunkTrace, DidChunkCall, DidToolTrace, DidToolSpan, GeFlush, l, t
<1>9. CASE \/ Ge!ChunkNew(h) \/ Ge!ReadText(h) \/ Ge!WriteText(h)
  <2>1. l.at \in GeChunkAt => l.next = "done"
    BY <1>l DEF GePlaced
  <2> QED
    BY <1>9, <2>1, GeDid DEF DidChunkNew, DidReadText, DidWriteText, GeFlush, GeChunkAt, l, t
<1> QED
  BY <1>1, <1>2, <1>3, <1>4, <1>5, <1>6, <1>7, <1>8, <1>9 DEF Ge!Step, l, t

LEMMA GeTurnsStep ==
  ASSUME GeBase, GeTurns, NEW h \in GeHooks, Ge!Step(h)
  PROVE  GeTurns'
<1> SUFFICES ASSUME world'.crashes = 0
             PROVE  GeTurns'
  BY DEF GeTurns
<1> DEFINE l == hooks[h]
           t == hooks'[h]
           has == Ge!Has(store, Ge!TraceKey)
           had == Ge!Has(store', Ge!TraceKey)
<1>w. world.crashes = 0 /\ ~Ge!Crash(h)
  BY GeStays
<1>l. /\ GePlaced(l) /\ GeKnows(h) /\ GeStored /\ GeSent
      /\ \A g \in GeHooks : GePlaced(hooks[g])
  BY DEF GeBase
<1>g. /\ \A i, j \in DOMAIN sent :
           sent[i].what = "root" /\ sent[j].what = "root" /\ sent[i].trace = sent[j].trace => i = j
      /\ has /\ Rooted(store[Ge!TraceKey]) => \E g \in GeHooks : hooks[g].at = "forget"
      /\ ~(has <=> Ge!Has(store, Ge!SpanKey)) => \E g \in GeHooks : hooks[g].at \in {"openSpan", "forgetSpan"}
      /\ \A g \in GeHooks : GeCloses(hooks[g])
      /\ \A i \in DOMAIN sent : Live(sent[i].trace)
      /\ \A g \in GeHooks : hooks[g].trace # None => Live(hooks[g].trace)
  BY <1>w DEF GeTurns
<1>o. /\ \A g \in GeHooks : g # h => hooks'[g] = hooks[g]
      /\ \A g \in GeHooks : hooks[g].at \in {"forget", "openSpan", "forgetSpan"} /\ l.at \in GeAloneAt => g = h
  <2>1. \A g \in GeHooks : hooks[g].at \in {"forget", "openSpan", "forgetSpan"} =>
          GeBusy(g) /\ hooks[g].kind \in GeSole
    BY <1>l DEF GePlaced, GeAloneAt, GeBusy
  <2>2. l.at \in GeAloneAt => l.kind \in GeSole /\ l.at # "new" /\ l.at # "done"
    BY <1>l DEF GePlaced, GeAloneAt
  <2>3. "afterTool" \notin GeSole
    BY DEF GeSole
  <2> QED
    BY <2>1, <2>2, <2>3, GeAlone, GeDid
<1>p. /\ \/ t.trace \in {None, l.trace}
         \/ has /\ t.trace = store[Ge!TraceKey]
      /\ t.at = "forget" => Ge!SendRoot(h)
      /\ t.at = "forgetSpan" => Ge!Forget(h)
      /\ t.at = "openSpan" => Ge!Open(h)
      /\ t.at \in {"open", "remove"} \/ (t.at \in GeFlush /\ t.next \in {"open", "remove"}) =>
           \/ Ge!Pending(h) /\ ~(has /\ Ge!Has(store, Ge!SpanKey))
           \/ Ge!ForgetSpan(h)
           \/ l.at \in GeFlush /\ l.next \in {"open", "remove"}
      /\ l.at = "forget" => Ge!Forget(h)
      /\ l.at = "forgetSpan" => Ge!ForgetSpan(h)
      /\ l.at = "openSpan" => Ge!OpenSpan(h)
  BY <1>w, GePath
<1>a. /\ Ge!SendRoot(h) => l.at = "sendRoot" /\ t.at = "forget" /\ store' = store
      /\ Ge!Forget(h) => l.at = "forget" /\ t.at = "forgetSpan"
      /\ Ge!ForgetSpan(h) => l.at = "forgetSpan"
      /\ Ge!Open(h) => l.at = "open" /\ t.at = "openSpan"
      /\ Ge!OpenSpan(h) => l.at = "openSpan"
      /\ Ge!Remove(h) => l.at = "remove"
      /\ Ge!Pending(h) => l.at = "pending" /\ store' = store
  BY GeDid DEF DidSendRoot, DidForget, DidForgetSpan, DidOpen, DidOpenSpan, DidRemove, DidPending,
     GeAt, GeGoes, GeSends, GeRest
<1>k. /\ Ge!Forget(h) \/ Ge!Open(h) \/ Ge!Remove(h) \/ SameAt(Ge!TraceKey)
      /\ Ge!ForgetSpan(h) \/ Ge!OpenSpan(h) \/ Ge!Remove(h) \/ SameAt(Ge!SpanKey)
      /\ Ge!Forget(h) => ~had
      /\ Ge!ForgetSpan(h) => ~Ge!Has(store', Ge!SpanKey)
      /\ Ge!Open(h) => had /\ store'[Ge!TraceKey] = h
      /\ Ge!OpenSpan(h) => Ge!Has(store', Ge!SpanKey)
      /\ Ge!Remove(h) => ~had /\ ~Ge!Has(store', Ge!SpanKey)
  BY GeWrites
<1>s. /\ GeSent'
      /\ \/ sent' = sent
         \/ \E s : /\ sent' = Append(sent, s) /\ s.trace = l.trace /\ Opened(s.trace) /\ store' = store
                   /\ \/ Ge!SendLlm(h) /\ s.what = "llm"
                      \/ Ge!SendRoot(h) /\ s.what = "root"
                      \/ Ge!SendTool(h) /\ s.what = "tool"
  BY GeSentStep
<1>c. GeCloses(l) /\ \A g \in GeHooks : g # h => hooks'[g] = hooks[g]
  BY <1>g, <1>o
<1>i. IsSeq(sent) /\ \A i \in DOMAIN sent : Opened(sent[i].trace)
  BY <1>l DEF GeSent
<1> HIDE DEF l, t
<1>1. /\ \A x : Rooted(x) => Rooted(x)'
      /\ \A x : Rooted(x)' => Rooted(x) \/ (Ge!SendRoot(h) /\ x = l.trace)
      /\ Ge!SendRoot(h) /\ sent' # sent => \A x : x = l.trace => Rooted(x)'
  <2>1. CASE sent' = sent
    BY <2>1 DEF Rooted
  <2>2. ASSUME NEW s, sent' = Append(sent, s), s.trace = l.trace,
               s.what = "root" => Ge!SendRoot(h), Ge!SendRoot(h) => s.what = "root"
        PROVE  <1>1!:
    <3>1. /\ DOMAIN sent' = DOMAIN sent \cup {Len(sent')} /\ Len(sent') \notin DOMAIN sent
          /\ (\A k \in DOMAIN sent : sent'[k] = sent[k]) /\ sent'[Len(sent')] = s
      BY <1>i, <2>2, AppendAny
    <3> QED
      BY <2>2, <3>1 DEF Rooted
  <2>3. ~(Ge!SendLlm(h) /\ Ge!SendRoot(h)) /\ ~(Ge!SendTool(h) /\ Ge!SendRoot(h))
    BY DEF Ge!SendLlm, Ge!SendRoot, Ge!SendTool, Ge!Local
  <2> QED
    BY <1>s, <2>1, <2>2, <2>3
<1>r. Ge!SendRoot(h) => \A x : x = l.trace => Rooted(x)'
  <2>1. Ge!SendRoot(h) => DidSendRoot(h)
    BY GeDid
  <2>2. DidSendRoot(h) => sent' # sent
    <3> DEFINE s == [what |-> "root", trace |-> l.trace, parent |-> None, text |-> <<>>]
    <3>1. DidSendRoot(h) => sent' = Append(sent, s)
      BY DEF DidSendRoot, GeSends, l
    <3> HIDE DEF s
    <3>2. Len(Append(sent, s)) = Len(sent) + 1 /\ Len(sent) \in Nat
      BY <1>i, AppendAny
    <3> QED
      BY <3>1, <3>2
  <2> QED
    BY <1>1, <2>1, <2>2
<1>f. has /\ l.at \in GeAloneAt /\ l.at # "forget" => ~Rooted(store[Ge!TraceKey])
  BY <1>g, <1>o DEF l
<1>b. Ge!SendRoot(h) => has /\ l.trace = store[Ge!TraceKey] /\ had /\ store'[Ge!TraceKey] = l.trace
  BY <1>l, <1>a DEF GeKnows, l
<1>2. \A i, j \in DOMAIN sent' :
        sent'[i].what = "root" /\ sent'[j].what = "root" /\ sent'[i].trace = sent'[j].trace => i = j
  <2>1. CASE sent' = sent
    BY <1>g, <2>1
  <2>2. ASSUME NEW s, sent' = Append(sent, s), s.trace = l.trace, s.what = "root" => Ge!SendRoot(h)
        PROVE  <1>2!:
    <3>1. /\ DOMAIN sent' = DOMAIN sent \cup {Len(sent')} /\ Len(sent') \notin DOMAIN sent
          /\ (\A k \in DOMAIN sent : sent'[k] = sent[k]) /\ sent'[Len(sent')] = s
      BY <1>i, <2>2, AppendAny
    <3>2. Ge!SendRoot(h) => ~Rooted(l.trace)
      BY <1>a, <1>b, <1>f DEF GeAloneAt
    <3>3. s.what = "root" => \A j \in DOMAIN sent : sent[j].what = "root" => sent[j].trace # s.trace
      BY <2>2, <3>2 DEF Rooted
    <3> QED
      BY <1>g, <3>1, <3>3, Zenon
  <2>3. ~(Ge!SendLlm(h) /\ Ge!SendRoot(h)) /\ ~(Ge!SendTool(h) /\ Ge!SendRoot(h))
    BY DEF Ge!SendLlm, Ge!SendRoot, Ge!SendTool, Ge!Local
  <2> QED
    BY <1>s, <2>1, <2>2, <2>3
<1>3. \A x : Live(x) => (had /\ store'[Ge!TraceKey] = x) \/ Rooted(x)'
  <2>1. Ge!Forget(h) => has /\ Rooted(store[Ge!TraceKey])
    BY <1>a, <1>c DEF GeCloses
  <2>2. Ge!Open(h) \/ Ge!Remove(h) => ~has
    BY <1>a, <1>c DEF GeCloses
  <2> QED
    BY <1>1, <1>k, <2>1, <2>2 DEF Live, SameAt
<1>4. had => \A x : x = store'[Ge!TraceKey] /\ Rooted(x)' => \E g \in GeHooks : hooks'[g].at = "forget"
  <2> SUFFICES ASSUME had, NEW x, x = store'[Ge!TraceKey], Rooted(x)'
               PROVE  \E g \in GeHooks : hooks'[g].at = "forget"
    OBVIOUS
  <2>1. CASE Ge!SendRoot(h)
    BY <2>1, <1>a DEF t
  <2>2. CASE Ge!Open(h)
    <3>1. x = h /\ Rooted(x)
      BY <2>2, <1>1, <1>k, <1>a
    <3>2. ~Opened(h)
      BY <2>2, <1>a DEF Opened, l
    <3> QED
      BY <3>1, <3>2, <1>i DEF Rooted
  <2>3. CASE ~Ge!SendRoot(h) /\ ~Ge!Open(h)
    <3>1. has /\ x = store[Ge!TraceKey] /\ Rooted(x)
      BY <2>3, <1>1, <1>k DEF SameAt
    <3>2. PICK g \in GeHooks : hooks[g].at = "forget"
      BY <3>1, <1>g
    <3>3. g # h
      BY <3>2, <1>p, <1>k DEF l
    <3> QED
      BY <3>2, <3>3, <1>c
  <2> QED
    BY <2>1, <2>2, <2>3
<1>5. ~(had <=> Ge!Has(store', Ge!SpanKey)) => \E g \in GeHooks : hooks'[g].at \in {"openSpan", "forgetSpan"}
  <2>1. CASE Ge!Forget(h) \/ Ge!Open(h)
    BY <2>1, <1>a DEF t
  <2>2. CASE Ge!ForgetSpan(h)
    <3>1. ~has /\ SameAt(Ge!TraceKey)
      BY <2>2, <1>a, <1>c, <1>k DEF GeCloses
    <3> QED
      BY <2>2, <3>1, <1>k DEF SameAt
  <2>3. CASE Ge!OpenSpan(h)
    <3>1. has /\ SameAt(Ge!TraceKey)
      BY <2>3, <1>a, <1>c, <1>k DEF GeCloses
    <3> QED
      BY <2>3, <3>1, <1>k DEF SameAt
  <2>4. CASE Ge!Remove(h)
    BY <2>4, <1>k
  <2>5. CASE ~Ge!Forget(h) /\ ~Ge!Open(h) /\ ~Ge!ForgetSpan(h) /\ ~Ge!OpenSpan(h) /\ ~Ge!Remove(h)
    <3> SUFFICES ASSUME ~(has <=> Ge!Has(store, Ge!SpanKey))
                 PROVE  \E g \in GeHooks : hooks'[g].at \in {"openSpan", "forgetSpan"}
      BY <2>5, <1>k DEF SameAt
    <3>1. PICK g \in GeHooks : hooks[g].at \in {"openSpan", "forgetSpan"}
      BY <1>g
    <3>2. g # h
      BY <2>5, <3>1, <1>p DEF l
    <3> QED
      BY <3>1, <3>2, <1>c
  <2> QED
    BY <2>1, <2>2, <2>3, <2>4, <2>5
<1>6. ASSUME NEW g \in GeHooks, g # h
      PROVE  GeCloses(hooks[g])'
  <2> DEFINE m == hooks[g]
  <2>1. GeCloses(m) /\ GePlaced(m) /\ hooks'[g] = m
    BY <1>g, <1>l, <1>6, <1>c
  <2>2. \/ m.at \in {"forget", "forgetSpan", "open", "remove", "openSpan"}
        \/ m.at \in GeFlush /\ m.next \in {"open", "remove"}
        => GeBusy(g) /\ m.kind \in GeSole
    BY <2>1 DEF GePlaced, GeAloneAt, GeFlush, GeBusy, GeSole, GeChunks
  <2>3. GeBusy(g) /\ m.kind \in GeSole => SameAt(Ge!TraceKey) /\ SameAt(Ge!SpanKey)
    <3>1. "afterTool" \notin GeSole
      BY DEF GeSole
    <3> QED
      BY <1>6, <3>1, GeOthers
  <2> HIDE DEF m
  <2>4. /\ m.at = "forget" => had /\ Rooted(store[Ge!TraceKey])'
        /\ m.at = "forgetSpan" => ~had
        /\ m.at \in {"open", "remove"} \/ (m.at \in GeFlush /\ m.next \in {"open", "remove"}) =>
             ~had /\ ~Ge!Has(store', Ge!SpanKey)
        /\ m.at = "openSpan" => had
    <3>1. \A x : x = store'[Ge!TraceKey] => (Rooted(x)' <=> Rooted(store[Ge!TraceKey])')
      BY DEF Rooted
    <3> QED
      BY <2>1, <2>2, <2>3, <1>1, <3>1 DEF GeCloses, SameAt
  <2> QED
    BY <2>1, <2>4 DEF GeCloses, Rooted, Ge!Has, Ge!TraceKey, Ge!SpanKey
<1>7. GeCloses(hooks[h])'
  <2>1. t.at = "forget" => had /\ Rooted(store[Ge!TraceKey])'
    <3>1. \A x : x = store'[Ge!TraceKey] => (Rooted(x)' <=> Rooted(store[Ge!TraceKey])')
      BY DEF Rooted
    <3> QED
      BY <1>p, <1>b, <1>r, <3>1
  <2>2. t.at = "forgetSpan" => ~had
    BY <1>p, <1>k
  <2>3. t.at = "openSpan" => had
    BY <1>p, <1>k
  <2>4. ASSUME t.at \in {"open", "remove"} \/ (t.at \in GeFlush /\ t.next \in {"open", "remove"})
        PROVE  ~had /\ ~Ge!Has(store', Ge!SpanKey)
    <3>1. CASE Ge!Pending(h) /\ ~(has /\ Ge!Has(store, Ge!SpanKey))
      <4>1. ~(\E g \in GeHooks : hooks[g].at \in {"openSpan", "forgetSpan"})
        BY <3>1, <1>a, <1>o DEF GeAloneAt, l
      <4> QED
        BY <3>1, <4>1, <1>a, <1>g
    <3>2. CASE Ge!ForgetSpan(h)
      BY <3>2, <1>a, <1>c, <1>k DEF GeCloses, SameAt
    <3>3. CASE l.at \in GeFlush /\ l.next \in {"open", "remove"}
      <4>1. ~has /\ ~Ge!Has(store, Ge!SpanKey)
        BY <3>3, <1>c DEF GeCloses
      <4>2. l.at \notin {"forget", "open", "remove", "forgetSpan", "openSpan"}
        BY <3>3 DEF GeFlush
      <4> QED
        BY <4>1, <4>2, <1>a, <1>k DEF SameAt
    <3> QED
      BY <2>4, <1>p, <3>1, <3>2, <3>3
  <2> QED
    BY <2>1, <2>2, <2>3, <2>4 DEF GeCloses, Rooted, Ge!Has, Ge!TraceKey, Ge!SpanKey, t
<1>8. \A x : (\E i \in DOMAIN sent' : x = sent'[i].trace) => Live(x)
  <2>1. CASE sent' = sent
    BY <1>g, <2>1
  <2>2. ASSUME NEW s, sent' = Append(sent, s), s.trace = l.trace, Opened(s.trace)
        PROVE  <1>8!:
    <3>1. /\ DOMAIN sent' = DOMAIN sent \cup {Len(sent')}
          /\ (\A k \in DOMAIN sent : sent'[k] = sent[k]) /\ sent'[Len(sent')] = s
      BY <1>i, <2>2, AppendAny
    <3>2. s.trace # None
      BY <2>2 DEF Opened, GeBase
    <3>3. Live(s.trace)
      BY <2>2, <3>2, <1>g DEF l
    <3> QED
      BY <1>g, <3>1, <3>3, Zenon
  <2> QED
    BY <1>s, <2>1, <2>2
<1>9. \A x : (\E g \in GeHooks : x = hooks'[g].trace) /\ x # None => Live(x)
  <2>1. t.trace # None => Live(t.trace)
    BY <1>p, <1>g DEF Live, l
  <2> QED
    BY <1>g, <1>c, <2>1 DEF t
<1>10. /\ \A i \in DOMAIN sent' : Live(sent[i].trace)'
       /\ \A g \in GeHooks : hooks'[g].trace # None => Live(hooks[g].trace)'
  BY <1>3, <1>8, <1>9 DEF Live, Rooted, Ge!Has, Ge!TraceKey
<1>11. \A g \in GeHooks : GeCloses(hooks[g])'
  BY <1>6, <1>7
<1>12. Ge!Has(store, Ge!TraceKey)' /\ Rooted(store[Ge!TraceKey])' => \E g \in GeHooks : hooks'[g].at = "forget"
  BY <1>4 DEF Rooted, Ge!Has, Ge!TraceKey
<1> QED
  BY <1>2, <1>5, <1>10, <1>11, <1>12 DEF GeTurns, Ge!Has, Ge!TraceKey, Ge!SpanKey, GeHooks

-----------------------------------------------------------------------------
(* The text of a chunk once *)

(* While chunks do not overlap, no other hook is inside an event but of a  *)
(* tool.                                                                   *)
GeInside == GeFlush \cup GeAloneAt \cup GeChunkAt

LEMMA GeInsideAlone ==
  ASSUME GeBase, ~world.overlap, NEW h \in GeHooks, Ge!Step(h)
  PROVE  /\ hooks[h].at \in GeInside => \A g \in GeHooks : g # h => hooks[g].at \notin GeInside
         /\ hooks'[h].at \in GeInside => \A g \in GeHooks : g # h => hooks'[g].at \notin GeInside
<1>1. \A g \in GeHooks : hooks[g].at \in GeInside => GeBusy(g) /\ hooks[g].kind # "afterTool"
  <2>1. \A g \in GeHooks : GePlaced(hooks[g])
    BY DEF GeBase
  <2> QED
    BY <2>1 DEF GePlaced, GeBusy, GeInside, GeFlush, GeAloneAt, GeChunkAt, GeSole, GeChunks
<1>2. \A g \in GeHooks : hooks'[g].at \in GeInside =>
        hooks'[g].at \notin {"new", "done"} /\ hooks'[g].kind # "afterTool"
  <2>1. \A g \in GeHooks : GePlaced(hooks'[g])
    BY GePlacedStep
  <2> QED
    BY <2>1 DEF GePlaced, GeInside, GeFlush, GeAloneAt, GeChunkAt, GeSole, GeChunks
<1>3. GeApart /\ GeApart' /\ world'.overlap = world.overlap
  BY GeAlone, GeStays DEF GeBase
<1> QED
  BY <1>1, <1>2, <1>3 DEF GeApart, GeBusy, Ge!Running

(* How the step moves text between the call and the spans.                 *)
LEMMA GeTextMoves ==
  ASSUME GeBase, GeOnce, world.crashes = 0, ~world.overlap, NEW h \in GeHooks, Ge!Step(h), ~Ge!Crash(h)
  PROVE  /\ \A x : Ge!Kept(x)' => Ge!Kept(x) \/ (Ge!WriteText(h) /\ x = h)
         /\ \A x \in GeHooks : Ge!Kept(x) => Ge!Kept(x)' \/ (Ge!Clear(h) /\ InSpan(x))
         /\ Ge!WriteText(h) => \A x : x = h => Ge!Kept(x)'
         /\ Ge!Clear(h) => \A x : ~Ge!Kept(x)'
         /\ \A x : InSpan(x) => InSpan(x)'
         /\ \A x : InSpan(x)' => InSpan(x) \/ (Ge!SendLlm(h) /\ Ge!Kept(x))
         /\ Ge!SendLlm(h) => \A x : Ge!Kept(x) => InSpan(x)'
<1> DEFINE l == hooks[h]
<1>l. GePlaced(l) /\ GeKnows(h) /\ GeStored /\ GeSent /\ GeHolds(l)
  BY DEF GeBase, GeOnce
<1>k. /\ \A x : Ge!Kept(x) <=> /\ Ge!Has(store, Ge!CallKey) /\ Ge!Has(store, Ge!TextKey(store[Ge!CallKey]))
                               /\ \E i \in DOMAIN store[Ge!TextKey(store[Ge!CallKey])] :
                                    store[Ge!TextKey(store[Ge!CallKey])][i] = x
      /\ \A x : Ge!Kept(x)' <=> /\ Ge!Has(store', Ge!CallKey) /\ Ge!Has(store', Ge!TextKey(store'[Ge!CallKey]))
                                /\ \E i \in DOMAIN store'[Ge!TextKey(store'[Ge!CallKey])] :
                                     store'[Ge!TextKey(store'[Ge!CallKey])][i] = x
  BY DEF Ge!Kept, Ge!Has, Ge!CallKey, Ge!TextKey
<1>a. /\ Ge!WriteText(h) => l.at = "writeText"
      /\ Ge!Clear(h) => l.at = "clear"
      /\ Ge!ClearCall(h) => l.at = "clearCall"
      /\ Ge!SendLlm(h) => l.at = "sendLlm" /\ store' = store
      /\ Ge!NewCall(h) => l.at = "newCall"
      /\ Ge!ChunkNew(h) => l.at = "chunkNew"
      /\ Ge!Remove(h) => l.at = "remove"
  BY GeDid DEF DidWriteText, DidClear, DidClearCall, DidSendLlm, DidNewCall, DidChunkNew, DidRemove, GeSends
<1>h. l.at \in {"writeText", "clear", "clearCall", "sendLlm"} =>
        Ge!Has(store, Ge!CallKey) /\ store[Ge!CallKey] = l.call
  BY <1>l DEF GeHolds, GeFlush
<1> HIDE DEF l
<1>1. CASE Ge!WriteText(h)
  <2>1. /\ SameAt(Ge!CallKey) /\ Ge!Has(store', Ge!TextKey(l.call))
        /\ store'[Ge!TextKey(l.call)] = Append(l.text, h)
    <3>1. ~Ge!ClearCall(h) /\ ~Ge!NewCall(h) /\ ~Ge!ChunkNew(h) /\ ~Ge!Remove(h)
      BY <1>1, <1>a
    <3> QED
      BY <1>1, <3>1, GeWrites DEF l
  <2>2. Ge!Has(store', Ge!CallKey) /\ store'[Ge!CallKey] = l.call
    BY <1>1, <1>a, <1>h, <2>1 DEF SameAt
  <2>3. l.text = GeTextOf(l.call) /\ IsSeq(l.text)
    BY <1>1, <1>a, <1>l DEF GeHolds, GePlaced, l
  <2>4. \A x : (\E i \in DOMAIN Append(l.text, h) : Append(l.text, h)[i] = x) <=>
                 (x = h \/ \E i \in DOMAIN l.text : l.text[i] = x)
    BY <2>3, AppendAny
  <2>5. \A x : Ge!Kept(x)' <=> (x = h \/ Ge!Kept(x))
    <3>1. \A x : Ge!Kept(x) <=> \E i \in DOMAIN l.text : l.text[i] = x
      BY <1>1, <1>a, <1>k, <1>h, <2>3 DEF GeTextOf
    <3> QED
      BY <1>k, <2>1, <2>2, <2>4, <3>1
  <2>6. sent' = sent
    BY <1>1, GeDid DEF DidWriteText, GeCalm
  <2>7. \A x : InSpan(x)' <=> InSpan(x)
    BY <2>6 DEF InSpan
  <2> QED
    BY <1>1, <1>a, <2>5, <2>7
<1>2. CASE Ge!SendLlm(h)
  <2>1. l.text = GeTextOf(l.call) /\ store' = store
    BY <1>2, <1>a, <1>l DEF GeHolds, l
  <2>2. \A x : Ge!Kept(x) <=> \E i \in DOMAIN l.text : l.text[i] = x
    BY <1>2, <1>a, <1>k, <1>h, <2>1 DEF GeTextOf
  <2>3. \A x : Ge!Kept(x)' <=> Ge!Kept(x)
    BY <1>k, <2>1
  <2>4. \A x : InSpan(x)' <=> (InSpan(x) \/ \E i \in DOMAIN l.text : l.text[i] = x)
    <3> DEFINE s == [what |-> "llm", trace |-> l.trace, parent |-> l.span, text |-> l.text]
    <3>1. sent' = Append(sent, s)
      BY <1>2, GeDid DEF DidSendLlm, GeSends, l
    <3>2. s.text = l.text
      OBVIOUS
    <3>3. IsSeq(sent)
      BY <1>l DEF GeSent
    <3> HIDE DEF s
    <3>4. /\ DOMAIN sent' = DOMAIN sent \cup {Len(sent')}
          /\ (\A k \in DOMAIN sent : sent'[k] = sent[k]) /\ sent'[Len(sent')] = s
      BY <3>1, <3>3, AppendAny
    <3>5. \A x : x \in Ge!TextOf(s) <=> \E i \in DOMAIN l.text : l.text[i] = x
      BY <3>2 DEF Ge!TextOf
    <3>6. \A x : InSpan(x)' <=> \E i \in DOMAIN sent' : x \in Ge!TextOf(sent'[i])
      BY DEF InSpan, Ge!TextOf
    <3> QED
      BY <3>4, <3>5, <3>6, Zenon DEF InSpan
  <2>5. ~Ge!WriteText(h) /\ ~Ge!Clear(h)
    BY <1>2, <1>a
  <2> QED
    BY <1>2, <2>2, <2>3, <2>4, <2>5
<1>3. CASE ~Ge!WriteText(h) /\ ~Ge!SendLlm(h)
  <2>1. \A x : InSpan(x)' <=> InSpan(x)
    <3>1. CASE sent' = sent
      BY <3>1 DEF InSpan
    <3>2. ASSUME NEW s, sent' = Append(sent, s), s.text = <<>>
          PROVE  <2>1!:
      <4>1. /\ DOMAIN sent' = DOMAIN sent \cup {Len(sent')}
            /\ (\A k \in DOMAIN sent : sent'[k] = sent[k]) /\ sent'[Len(sent')] = s
        BY <1>l, <3>2, AppendAny DEF GeSent
      <4>2. \A x : x \notin Ge!TextOf(s)
        BY <3>2 DEF Ge!TextOf
      <4>3. \A x : InSpan(x)' <=> \E i \in DOMAIN sent' : x \in Ge!TextOf(sent'[i])
        BY DEF InSpan, Ge!TextOf
      <4> QED
        BY <4>1, <4>2, <4>3, Zenon DEF InSpan
    <3> QED
      BY <1>3, <3>1, <3>2, GeSentStep
  <2>2. CASE Ge!Clear(h)
    <3>1. ~Ge!Has(store', Ge!TextKey(l.call)) /\ SameAt(Ge!CallKey)
      <4>1. ~Ge!ClearCall(h) /\ ~Ge!NewCall(h) /\ ~Ge!ChunkNew(h) /\ ~Ge!Remove(h)
        BY <2>2, <1>a
      <4> QED
        BY <2>2, <4>1, GeWrites DEF l
    <3>2. \A x : ~Ge!Kept(x)'
      BY <2>2, <3>1, <1>a, <1>k, <1>h DEF SameAt
    <3>3. \A x \in GeHooks : Ge!Kept(x) => InSpan(x)
      BY <2>2, <1>a, <1>l DEF GeHolds, l
    <3> QED
      BY <1>3, <2>1, <2>2, <3>2, <3>3
  <2>3. CASE Ge!ClearCall(h)
    <3>1. ~Ge!Has(store', Ge!CallKey)
      <4>1. Ge!Get(store, Ge!CallKey) = l.call
        BY <2>3, <1>a, <1>h DEF Ge!Get, Ge!Has
      <4> QED
        BY <2>3, <4>1, GeWrites DEF l
    <3>2. ~Ge!Has(store, Ge!TextKey(l.call))
      BY <2>3, <1>a, <1>l DEF GeHolds, l
    <3>3. \A x : ~Ge!Kept(x) /\ ~Ge!Kept(x)'
      BY <2>3, <3>1, <3>2, <1>a, <1>k, <1>h
    <3> QED
      BY <1>3, <2>1, <3>3
  <2>4. CASE Ge!NewCall(h) \/ Ge!ChunkNew(h)
    <3>1. ~Ge!Has(store, Ge!CallKey)
      BY <2>4, <1>a, <1>l DEF GeHolds, GeKnows, l
    <3>2. ~Issued(h)
      BY <2>4, <1>a DEF Issued, GeFlush, l
    <3>3. store'[Ge!CallKey] = h
      BY <2>4, GeWrites
    <3>4. ~Ge!Has(store', Ge!TextKey(h))
      <4>1. ~Ge!Clear(h) /\ ~Ge!WriteText(h) /\ ~Ge!Remove(h)
        BY <2>4, <1>a
      <4>2. SameAt(Ge!TextKey(h))
        BY <4>1, GeWrites
      <4> QED
        BY <1>l, <3>2, <4>2 DEF GeStored, SameAt
    <3>5. \A x : ~Ge!Kept(x) /\ ~Ge!Kept(x)'
      BY <3>1, <3>3, <3>4, <1>k
    <3>6. ~Ge!Clear(h)
      BY <2>4, <1>a
    <3> QED
      BY <1>3, <2>1, <3>5, <3>6
  <2>5. CASE Ge!Remove(h)
    <3>1. ~Ge!Has(store, Ge!CallKey) /\ ~Ge!Has(store', Ge!CallKey) /\ ~Ge!Clear(h)
      BY <2>5, <1>a, <1>l, GeWrites DEF GeKnows, l
    <3> QED
      BY <1>3, <2>1, <3>1, <1>k
  <2>6. CASE ~Ge!Clear(h) /\ ~Ge!ClearCall(h) /\ ~Ge!NewCall(h) /\ ~Ge!ChunkNew(h) /\ ~Ge!Remove(h)
    <3>1. SameAt(Ge!CallKey) /\ \A c : SameAt(Ge!TextKey(c))
      BY <1>3, <2>6, GeWrites
    <3>2. \A x : Ge!Kept(x)' <=> Ge!Kept(x)
      BY <1>k, <3>1 DEF SameAt
    <3> QED
      BY <1>3, <2>1, <2>6, <3>2
  <2> QED
    BY <2>2, <2>3, <2>4, <2>5, <2>6
<1> QED
  BY <1>1, <1>2, <1>3

(* What is heard is in the text of no call and in no span before its hook  *)
(* has written it.                                                         *)
LEMMA GeFreshChunk ==
  ASSUME GeBase, NEW x \in GeHooks, hooks[x].at \in {"new", "chunkTrace"}
  PROVE  ~Ge!Kept(x) /\ ~InSpan(x)
<1>1. \A y : ~Heard(x, y)
  BY DEF GeBase, GeWorld, Heard
<1>2. ~InSpan(x)
  BY <1>1 DEF GeBase, GeSent, AllHeard, InSpan, Ge!TextOf
<1>3. ASSUME Ge!Has(store, Ge!CallKey), Ge!Has(store, Ge!TextKey(store[Ge!CallKey]))
      PROVE  \A i \in DOMAIN store[Ge!TextKey(store[Ge!CallKey])] :
               store[Ge!TextKey(store[Ge!CallKey])][i] # x
  <2> DEFINE c == store[Ge!CallKey]
  <2>1. c \in GeHooks /\ Current(c)
    BY <1>3 DEF GeBase, GeStored, Issued, Current
  <2> HIDE DEF c
  <2>2. \A i \in DOMAIN store[Ge!TextKey(c)] : Heard(store[Ge!TextKey(c)][i], store[Ge!TraceKey])
    BY <1>3, <2>1 DEF GeBase, GeTexts, c
  <2> QED
    BY <1>1, <2>2 DEF c
<1> QED
  BY <1>2, <1>3 DEF Ge!Kept

(* A chunk's place: not written before WriteText, and nothing else goes    *)
(* there or back.                                                          *)
GeUnwritten == {"chunkCall", "chunkNew", "readText", "writeText"}

LEMMA GePlaces ==
  ASSUME GeBase, NEW h \in GeHooks, Ge!Step(h), ~Ge!Crash(h)
  PROVE  LET l == hooks[h] t == hooks'[h] IN
         /\ l.at \in GeUnwritten => t.at \in GeUnwritten \/ Ge!WriteText(h)
         /\ t.at \in GeUnwritten => l.at \in GeUnwritten \cup {"chunkTrace"}
         /\ Ge!WriteText(h) => l.at = "writeText" /\ t.at \notin GeUnwritten
         /\ Ge!SendLlm(h) => l.at = "sendLlm" /\ t.at = "clear"
         /\ l.at = "clear" => Ge!Clear(h)
         /\ t.at \in {"readText", "writeText"} \cup (GeFlush \ {"flush"}) =>
              \/ Ge!Has(store, Ge!CallKey) /\ t.call = store[Ge!CallKey] /\ store' = store
              \/ Ge!ChunkNew(h) /\ t.call = h
              \/ /\ l.at \in {"readText", "writeText"} \cup (GeFlush \ {"flush"}) /\ t.call = l.call
                 /\ store' = store \/ Ge!Clear(h)
         /\ t.at \in {"writeText", "sendLlm"} =>
              store' = store /\ t.text = GeTextOf(t.call)
         /\ t.at = "chunkNew" => store' = store /\ ~Ge!Has(store, Ge!CallKey)
         /\ t.at = "clear" => Ge!SendLlm(h)
              \/ (store' = store /\ sent' = sent /\ ~Ge!Has(store, Ge!TraceKey) /\ Ge!FlushTrace(h))
         /\ t.at = "clearCall" => Ge!Clear(h) /\ t.call = l.call
<1> USE DEF GeAt, GeGoes, GeRest, GeSends, GeUnwritten
<1> DEFINE l == hooks[h]
           t == hooks'[h]
<1>l. GePlaced(l) /\ GeStored
  BY DEF GeBase
<1>v. /\ \A k : Ge!Get(store, k) = IF Ge!Has(store, k) THEN store[k] ELSE None
      /\ Ge!Has(store, Ge!TraceKey) => store[Ge!TraceKey] # None
      /\ Ge!Has(store, Ge!CallKey) => store[Ge!CallKey] # None
  BY <1>l DEF Ge!Get, Ge!Has, GeStored, Opened, Issued, GeBase
<1>n. l.at \in GeFlush => l.next \in {"done", "newCall", "trace", "sendRoot", "open", "remove"}
  BY <1>l DEF GePlaced
<1>x. /\ Ge!WriteText(h) <=> (Ge!WriteText(h) /\ l.at = "writeText")
      /\ Ge!SendLlm(h) <=> (Ge!SendLlm(h) /\ l.at = "sendLlm")
  BY DEF Ge!WriteText, Ge!SendLlm, Ge!Local
<1> HIDE DEF l, t
<1>1. CASE Ge!FlushCall(h) \/ Ge!ClearCall(h)
  BY <1>1, <1>n, <1>v, <1>x, GeDid DEF DidFlushCall, DidClearCall, GeFlush, l, t
<1>2. CASE Ge!FlushTrace(h)
  BY <1>2, <1>v, <1>x, GeDid DEF DidFlushTrace, GeFlush, l, t
<1>3. CASE Ge!FlushText(h)
  BY <1>3, <1>x, GeDid DEF DidFlushText, GeFlush, l, t
<1>4. CASE Ge!SendLlm(h)
  BY <1>4, <1>x, GeDid DEF DidSendLlm, GeFlush, l, t
<1>5. CASE Ge!Clear(h)
  BY <1>5, <1>x, GeDid DEF DidClear, GeFlush, l, t
<1>6. CASE Ge!Ensure(h) \/ Ge!Known(h) \/ Ge!Pending(h) \/ Ge!ReadTurn(h)
  BY <1>6, <1>x, GeDid DEF DidEnsure, DidKnown, DidPending, DidReadTurn, GeAfter, GeFlush, l, t
<1>10. CASE Ge!SendRoot(h) \/ Ge!Forget(h) \/ Ge!ForgetSpan(h) \/ Ge!Open(h)
  BY <1>10, <1>x, GeDid DEF DidSendRoot, DidForget, DidForgetSpan, DidOpen, GeAfter, GeFlush, l, t
<1>11. CASE Ge!OpenSpan(h) \/ Ge!Remove(h) \/ Ge!NewCall(h)
  BY <1>11, <1>x, GeDid DEF DidOpenSpan, DidRemove, DidNewCall, GeFlush, l, t
<1>7. CASE \/ Ge!Start(h) \/ Ge!ToolTrace(h) \/ Ge!ToolSpan(h) \/ Ge!SendTool(h)
  BY <1>7, <1>x, GeDid DEF DidStart, GeBegins, DidToolTrace, DidToolSpan, DidSendTool, GeFlush, GeChunks, l, t
<1>8. CASE Ge!ChunkTrace(h) \/ Ge!ChunkCall(h) \/ Ge!ChunkNew(h)
  BY <1>8, <1>v, <1>x, GeDid DEF DidChunkTrace, DidChunkCall, DidChunkNew, GeFlush, l, t
<1>9. CASE Ge!ReadText(h) \/ Ge!WriteText(h)
  BY <1>9, <1>x, GeDid DEF DidReadText, DidWriteText, GeFlush, l, t
<1> QED
  BY <1>1, <1>2, <1>3, <1>4, <1>5, <1>6, <1>7, <1>8, <1>9, <1>10, <1>11 DEF Ge!Step, l, t

LEMMA GeHoldsStep ==
  ASSUME GeBase, GeOnce, world.crashes = 0, ~world.overlap, NEW h \in GeHooks, Ge!Step(h), ~Ge!Crash(h)
  PROVE  \A g \in GeHooks : GeHolds(hooks[g])'
<1> DEFINE l == hooks[h]
           t == hooks'[h]
           CallPlaces == {"readText", "writeText"} \cup (GeFlush \ {"flush"})
<1>l. /\ GeHolds(l) /\ GeTexts /\ GeStored /\ \A g \in GeHooks : GeHolds(hooks[g])
      /\ \A g \in GeHooks : GePlaced(hooks[g])
  BY DEF GeBase, GeOnce
<1>p. /\ l.at = "clear" => Ge!Clear(h)
      /\ t.at \in CallPlaces =>
           \/ Ge!Has(store, Ge!CallKey) /\ t.call = store[Ge!CallKey] /\ store' = store
           \/ Ge!ChunkNew(h) /\ t.call = h
           \/ /\ l.at \in CallPlaces /\ t.call = l.call
              /\ store' = store \/ Ge!Clear(h)
      /\ t.at \in {"writeText", "sendLlm"} => store' = store /\ t.text = GeTextOf(t.call)
      /\ t.at = "chunkNew" => store' = store /\ ~Ge!Has(store, Ge!CallKey)
      /\ t.at = "clear" => Ge!SendLlm(h)
           \/ (store' = store /\ sent' = sent /\ ~Ge!Has(store, Ge!TraceKey) /\ Ge!FlushTrace(h))
      /\ t.at = "clearCall" => Ge!Clear(h) /\ t.call = l.call
  BY GePlaces
<1>c. Ge!Clear(h) => l.at = "clear" /\ t.at = "clearCall" /\ t.call = l.call
  BY GeDid DEF DidClear, GeAt
<1>t. /\ Ge!SendLlm(h) => \A x : Ge!Kept(x) => InSpan(x)'
      /\ \A x : Ge!Kept(x)' => Ge!Kept(x) \/ (Ge!WriteText(h) /\ x = h)
      /\ Ge!WriteText(h) => hooks[h].at = "writeText" /\ t.at \notin GeUnwritten
      /\ Ge!SendLlm(h) => hooks[h].at = "sendLlm"
      /\ \A x : InSpan(x) => InSpan(x)'
  BY GeTextMoves, GePlaces
<1>o. \A g \in GeHooks : g # h => hooks'[g] = hooks[g]
  BY GeDid
<1> HIDE DEF l, t
<1>1. t.at \in CallPlaces => Ge!Has(store', Ge!CallKey) /\ store'[Ge!CallKey] = t.call
  <2>1. Ge!ChunkNew(h) => Ge!Has(store', Ge!CallKey) /\ store'[Ge!CallKey] = h
    BY GeWrites
  <2>2. Ge!Clear(h) => SameAt(Ge!CallKey)
    <3>1. Ge!Clear(h) => ~Ge!ClearCall(h) /\ ~Ge!NewCall(h) /\ ~Ge!ChunkNew(h) /\ ~Ge!Remove(h)
      BY DEF Ge!Clear, Ge!ClearCall, Ge!NewCall, Ge!ChunkNew, Ge!Remove, Ge!Local
    <3> QED
      BY <3>1, GeWrites
  <2>3. l.at \in CallPlaces => Ge!Has(store, Ge!CallKey) /\ store[Ge!CallKey] = l.call
    BY <1>l DEF GeHolds
  <2> QED
    BY <1>p, <2>1, <2>2, <2>3 DEF SameAt
<1>2. t.at = "clear" => \A x \in GeHooks : Ge!Kept(x)' => InSpan(x)'
  <2>1. CASE Ge!SendLlm(h)
    <3>1. ~Ge!WriteText(h)
      BY <2>1, <1>t
    <3> QED
      BY <2>1, <3>1, <1>t
  <2>2. CASE store' = store /\ sent' = sent /\ ~Ge!Has(store, Ge!TraceKey) /\ Ge!FlushTrace(h)
    <3>1. \A x : ~Ge!Kept(x)
      <4> SUFFICES ASSUME NEW x, Ge!Kept(x)
                   PROVE  FALSE
        OBVIOUS
      <4> DEFINE c == store[Ge!CallKey]
      <4>1. Ge!Has(store, Ge!CallKey) /\ Ge!Has(store, Ge!TextKey(c)) /\ DOMAIN store[Ge!TextKey(c)] # {}
        BY DEF Ge!Kept
      <4>2. c \in GeHooks /\ Current(c)
        BY <1>l, <4>1 DEF GeStored, Issued, Current
      <4> HIDE DEF c
      <4> QED
        BY <1>l, <2>2, <4>1, <4>2 DEF GeTexts
    <3>2. ~Ge!WriteText(h)
      BY <2>2 DEF Ge!FlushTrace, Ge!WriteText, Ge!Local
    <3> QED
      BY <3>1, <3>2, <1>t
  <2> QED
    BY <1>p, <2>1, <2>2
<1>3. t.at = "clearCall" => ~Ge!Has(store', Ge!TextKey(t.call))
  BY <1>p, GeWrites DEF l
<1>4. t.at \in {"writeText", "sendLlm"} => t.text = IF Ge!Has(store', Ge!TextKey(t.call)) THEN store'[Ge!TextKey(t.call)] ELSE <<>>
  BY <1>p DEF GeTextOf
<1>5. GeHolds(hooks[h])'
  <2>1. t.at = "chunkNew" => ~Ge!Has(store', Ge!CallKey)
    BY <1>p
  <2>2. t.at = "clear" => \A x \in GeHooks : (Ge!Kept(x) => InSpan(x))'
    BY <1>2
  <2> QED
    BY <1>1, <2>1, <2>2, <1>3, <1>4
    DEF GeHolds, GeTextOf, InSpan, Ge!Kept, Ge!TextOf, Ge!Has, Ge!CallKey, Ge!TextKey, GeHooks, t
<1>6. ASSUME NEW g \in GeHooks, g # h
      PROVE  GeHolds(hooks[g])'
  <2> DEFINE m == hooks[g]
             places == {"readText", "writeText", "chunkNew"} \cup (GeFlush \ {"flush"})
  <2>1. hooks'[g] = m /\ GeHolds(m)
    BY <1>6, <1>o, <1>l
  <2>2. CASE m.at \notin places
    BY <2>1, <2>2 DEF GeHolds, GeFlush
  <2>3. CASE m.at \in places
    <3>1. places \subseteq GeInside
      BY DEF GeInside, GeFlush, GeChunkAt
    <3>2. l.at \notin GeInside
      BY <1>6, <2>3, <3>1, GeInsideAlone DEF l
    <3>3. /\ Ge!ClearCall(h) => l.at \in GeInside
          /\ Ge!NewCall(h) => l.at \in GeInside
          /\ Ge!ChunkNew(h) => l.at \in GeInside
          /\ Ge!Remove(h) => l.at \in GeInside
          /\ Ge!Clear(h) => l.at \in GeInside
          /\ Ge!WriteText(h) => l.at \in GeInside
      BY DEF Ge!ClearCall, Ge!NewCall, Ge!ChunkNew, Ge!Remove, Ge!Clear, Ge!WriteText, Ge!Local,
         GeInside, GeFlush, GeAloneAt, GeChunkAt, l
    <3>4. SameAt(Ge!CallKey) /\ \A c : SameAt(Ge!TextKey(c))
      BY <3>2, <3>3, GeWrites
    <3>5. \A x \in GeHooks : (Ge!Kept(x) => InSpan(x)) => (Ge!Kept(x) => InSpan(x))'
      BY <1>t, <3>2, <3>3
    <3> HIDE DEF m
    <3>6. /\ m.at \in CallPlaces => Ge!Has(store', Ge!CallKey) /\ store'[Ge!CallKey] = m.call
          /\ m.at \in {"writeText", "sendLlm"} =>
               m.text = IF Ge!Has(store', Ge!TextKey(m.call)) THEN store'[Ge!TextKey(m.call)] ELSE <<>>
          /\ m.at = "chunkNew" => ~Ge!Has(store', Ge!CallKey)
          /\ m.at = "clear" => \A x \in GeHooks : (Ge!Kept(x) => InSpan(x))'
          /\ m.at = "clearCall" => ~Ge!Has(store', Ge!TextKey(m.call))
      BY <2>1, <3>4, <3>5 DEF GeHolds, SameAt, GeTextOf
    <3> QED
      BY <2>1, <3>6
      DEF GeHolds, GeTextOf, InSpan, Ge!Kept, Ge!TextOf, Ge!Has, Ge!CallKey, Ge!TextKey, GeHooks, m
  <2> QED
    BY <2>2, <2>3
<1> QED
  BY <1>5, <1>6

LEMMA GeOnceStep ==
  ASSUME GeBase, GeOnce, NEW h \in GeHooks, Ge!Step(h)
  PROVE  GeOnce'
<1> SUFFICES ASSUME world'.crashes = 0, ~world'.overlap
             PROVE  GeOnce'
  BY DEF GeOnce
<1> DEFINE l == hooks[h]
           t == hooks'[h]
<1>w. world.crashes = 0 /\ ~world.overlap /\ ~Ge!Crash(h)
  BY GeStays
<1>g. /\ \A i, j \in DOMAIN sent : Ge!TextOf(sent[i]) \cap Ge!TextOf(sent[j]) # {} => i = j
      /\ \A e \in world.heard :
           IF hooks[e.chunk].at \in GeUnwritten
           THEN ~Ge!Kept(e.chunk) /\ ~InSpan(e.chunk)
           ELSE Ge!Kept(e.chunk) \/ InSpan(e.chunk)
      /\ \A x \in GeHooks : Ge!Kept(x) /\ InSpan(x) => \E f \in GeHooks : hooks[f].at = "clear"
      /\ GeHolds(l)
  BY <1>w DEF GeOnce, GeUnwritten
<1>l. /\ GePlaced(l) /\ GeKnows(h) /\ IsSeq(sent)
      /\ \A i \in DOMAIN sent : AllHeard(sent[i].text, sent[i].trace)
      /\ world \in [overlap : BOOLEAN, crashes : Nat, heard : SUBSET [chunk : GeHooks, trace : GeHooks]]
      /\ \A e \in world.heard : hooks[e.chunk].at \notin {"new", "chunkTrace"}
  BY DEF GeBase, GeSent, GeWorld
<1>o. \A g \in GeHooks : g # h => hooks'[g] = hooks[g]
  BY GeDid
<1>t. /\ \A x : Ge!Kept(x)' => Ge!Kept(x) \/ (Ge!WriteText(h) /\ x = h)
      /\ \A x \in GeHooks : Ge!Kept(x) => Ge!Kept(x)' \/ (Ge!Clear(h) /\ InSpan(x))
      /\ Ge!WriteText(h) => \A x : x = h => Ge!Kept(x)'
      /\ Ge!Clear(h) => \A x : ~Ge!Kept(x)'
      /\ \A x : InSpan(x) => InSpan(x)'
      /\ \A x : InSpan(x)' => InSpan(x) \/ (Ge!SendLlm(h) /\ Ge!Kept(x))
  BY <1>w, GeTextMoves
<1>p. /\ l.at \in GeUnwritten => t.at \in GeUnwritten \/ Ge!WriteText(h)
      /\ t.at \in GeUnwritten => l.at \in GeUnwritten \cup {"chunkTrace"}
      /\ Ge!WriteText(h) => l.at = "writeText" /\ t.at \notin GeUnwritten
      /\ Ge!SendLlm(h) => l.at = "sendLlm" /\ t.at = "clear"
      /\ l.at = "clear" => Ge!Clear(h)
  BY <1>w, GePlaces
<1>a. /\ l.at \in GeInside => \A g \in GeHooks : g # h => hooks[g].at \notin GeInside
      /\ GeUnwritten \cup {"clear", "sendLlm", "writeText"} \subseteq GeInside
      /\ "clear" \notin GeUnwritten /\ "sendLlm" \notin GeUnwritten /\ "writeText" \in GeUnwritten
      /\ "chunkTrace" \notin GeUnwritten
  BY <1>w, GeInsideAlone DEF GeInside, GeFlush, GeChunkAt, GeUnwritten
<1>h. Ge!WriteText(h) => ~InSpan(h) /\ ~Ge!Kept(h)
  <2>1. l.at = "writeText" => Heard(h, l.trace)
    BY <1>l DEF GeKnows
  <2>2. l.at = "writeText" => \E e \in world.heard : e.chunk = h
    BY <2>1 DEF Heard
  <2> QED
    BY <1>g, <1>p, <1>a, <2>2 DEF l
<1> HIDE DEF l, t
<1>1. \A i, j \in DOMAIN sent' : Ge!TextOf(sent'[i]) \cap Ge!TextOf(sent'[j]) # {} => i = j
  <2>1. CASE sent' = sent
    BY <1>g, <2>1
  <2>2. ASSUME NEW s, sent' = Append(sent, s),
               \A x \in Ge!TextOf(s) : ~InSpan(x)
        PROVE  <1>1!:
    <3>1. /\ DOMAIN sent' = DOMAIN sent \cup {Len(sent')} /\ Len(sent') \notin DOMAIN sent
          /\ (\A k \in DOMAIN sent : sent'[k] = sent[k]) /\ sent'[Len(sent')] = s
      BY <1>l, <2>2, AppendAny
    <3>2. \A k \in DOMAIN sent : Ge!TextOf(s) \cap Ge!TextOf(sent[k]) = {}
      BY <2>2 DEF InSpan
    <3> QED
      BY <1>g, <3>1, <3>2, Zenon
  <2>3. ASSUME NEW s, s.text = <<>>
        PROVE  \A x \in Ge!TextOf(s) : ~InSpan(x)
    BY <2>3 DEF Ge!TextOf
  <2>4. ASSUME NEW s, Ge!SendLlm(h), s.text = l.text
        PROVE  \A x \in Ge!TextOf(s) : ~InSpan(x)
    <3> SUFFICES ASSUME NEW x \in Ge!TextOf(s), InSpan(x)
                 PROVE  FALSE
      OBVIOUS
    <3>1. l.at = "sendLlm"
      BY <2>4, <1>p
    <3>2. /\ Ge!Has(store, Ge!CallKey) /\ store[Ge!CallKey] = l.call
          /\ l.text = GeTextOf(l.call)
      BY <1>g, <3>1 DEF GeHolds, GeFlush
    <3>3. \E i \in DOMAIN l.text : l.text[i] = x
      BY <2>4 DEF Ge!TextOf
    <3>4. Ge!Kept(x)
      BY <3>2, <3>3 DEF Ge!Kept, GeTextOf
    <3>5. x \in GeHooks
      <4>1. \E y : Heard(x, y)
        BY <1>l DEF InSpan, AllHeard, Ge!TextOf
      <4> QED
        BY <1>l, <4>1 DEF Heard
    <3>6. PICK f \in GeHooks : hooks[f].at = "clear"
      BY <1>g, <3>4, <3>5
    <3> QED
      BY <1>a, <3>1, <3>6 DEF l
  <2> QED
    BY <2>1, <2>2, <2>3, <2>4, GeSentStep DEF l
<1>2. ASSUME NEW e \in world'.heard
      PROVE  \A x : x = e.chunk =>
               IF hooks'[x].at \in GeUnwritten
               THEN ~Ge!Kept(x)' /\ ~InSpan(x)'
               ELSE Ge!Kept(x)' \/ InSpan(x)'
  <2> SUFFICES ASSUME NEW x, x = e.chunk
               PROVE  IF hooks'[x].at \in GeUnwritten
                      THEN ~Ge!Kept(x)' /\ ~InSpan(x)'
                      ELSE Ge!Kept(x)' \/ InSpan(x)'
    OBVIOUS
  <2>1. CASE e \in world.heard
    <3>1. x \in GeHooks /\ hooks[x].at \notin {"new", "chunkTrace"}
      BY <1>l, <2>1
    <3>2. IF hooks[x].at \in GeUnwritten
          THEN ~Ge!Kept(x) /\ ~InSpan(x)
          ELSE Ge!Kept(x) \/ InSpan(x)
      BY <1>g, <2>1
    <3>3. CASE hooks[x].at \in GeUnwritten /\ ~(Ge!WriteText(h) /\ x = h)
      <4>1. hooks'[x].at \in GeUnwritten
        BY <1>o, <1>p, <3>1, <3>3 DEF l, t
      <4> QED
        BY <1>t, <3>2, <3>3, <4>1
    <3>4. CASE Ge!WriteText(h) /\ x = h
      BY <1>t, <1>p, <3>4 DEF t
    <3>5. CASE hooks[x].at \notin GeUnwritten
      <4>1. hooks'[x].at \notin GeUnwritten
        BY <1>o, <1>p, <3>1, <3>5 DEF l, t
      <4> QED
        BY <1>t, <3>1, <3>2, <3>5, <4>1
    <3> QED
      BY <3>3, <3>4, <3>5
  <2>2. CASE e \notin world.heard
    <3>1. /\ l.at = "chunkTrace" /\ t.at = "chunkCall"
          /\ world' = [world EXCEPT !.heard = @ \cup {[chunk |-> h, trace |-> store[Ge!TraceKey]]}]
      BY <1>2, <1>w, <2>2, GeCourse DEF l, t
    <3>2. world'.heard = world.heard \cup {[chunk |-> h, trace |-> store[Ge!TraceKey]]}
      BY <1>l, <3>1
    <3>3. x = h
      BY <2>2, <3>2
    <3>4. ~Ge!Kept(h) /\ ~InSpan(h)
      BY <3>1, GeFreshChunk DEF l
    <3>5. ~Ge!WriteText(h) /\ ~Ge!SendLlm(h)
      BY <1>p, <3>1
    <3> QED
      BY <1>t, <3>1, <3>3, <3>4, <3>5 DEF GeUnwritten, t
  <2> QED
    BY <2>1, <2>2
<1>3. ASSUME NEW x \in GeHooks, Ge!Kept(x)', InSpan(x)'
      PROVE  \E f \in GeHooks : hooks'[f].at = "clear"
  <2>1. CASE Ge!SendLlm(h)
    BY <2>1, <1>p DEF t
  <2>2. CASE ~Ge!SendLlm(h)
    <3>1. InSpan(x)
      BY <1>3, <1>t, <2>2
    <3>2. Ge!Kept(x)
      BY <1>3, <1>t, <1>h, <3>1
    <3>3. PICK f \in GeHooks : hooks[f].at = "clear"
      BY <1>g, <3>1, <3>2
    <3>4. f # h
      BY <1>3, <1>t, <1>p, <3>3 DEF l
    <3> QED
      BY <1>o, <3>3, <3>4
  <2> QED
    BY <2>1, <2>2
<1>4. \A g \in GeHooks : GeHolds(hooks[g])'
  BY <1>w, GeHoldsStep
<1>5. \A e \in world'.heard :
        IF hooks'[e.chunk].at \in GeUnwritten
        THEN (~Ge!Kept(e.chunk) /\ ~InSpan(e.chunk))'
        ELSE (Ge!Kept(e.chunk) \/ InSpan(e.chunk))'
  BY <1>2 DEF Ge!Kept, InSpan, Ge!TextOf, Ge!Has, Ge!CallKey, Ge!TextKey
<1>6. \A x \in GeHooks : (Ge!Kept(x) /\ InSpan(x))' => \E f \in GeHooks : hooks'[f].at = "clear"
  BY <1>3
<1>7. \A i, j \in DOMAIN sent' : (Ge!TextOf(sent[i]) \cap Ge!TextOf(sent[j]) # {})' => i = j
  BY <1>1 DEF Ge!TextOf
<1> QED
  BY <1>4, <1>5, <1>6, <1>7 DEF GeOnce, GeUnwritten, GeHooks

-----------------------------------------------------------------------------
(* The invariant of Gemini *)

LEMMA GeInit ==
  ASSUME Ge!GeminiAssumption, Ge!Init
  PROVE  GeInv
<1>1. PICK o \in Overlaps : world = [overlap |-> o, crashes |-> 0, heard |-> {}]
  BY DEF Ge!Init
<1>2. /\ sent = <<>> /\ DOMAIN sent = {} /\ IsSeq(sent) /\ IsSeq(<<>>)
      /\ \A k : ~Ge!Has(store, k)
      /\ DOMAIN hooks = GeHooks
      /\ \A h \in GeHooks : hooks[h] = [at |-> "new", kind |-> None, trace |-> None, span |-> None,
                                        call |-> None, text |-> <<>>, next |-> "done"]
  BY DEF Ge!Init, Ge!Unborn, Ge!Empty, Ge!Has, GeHooks, IsSeq
<1>3. \A h \in GeHooks : /\ hooks[h].at = "new" /\ hooks[h].trace = None /\ hooks[h].text = <<>>
                         /\ DOMAIN hooks[h] = GeFields
  BY <1>2 DEF GeFields
<1>4. o \in BOOLEAN /\ None \notin GeHooks
  BY DEF Ge!GeminiAssumption, GeHooks
<1>5. GeWorld
  BY <1>1, <1>4 DEF GeWorld
<1>6. GeStored /\ GeTexts /\ GeSent /\ GeApart
  BY <1>2, <1>3 DEF GeStored, GeTexts, GeSent, GeApart, Ge!Running
<1>7. \A h \in GeHooks : GePlaced(hooks[h]) /\ GeKnows(h)
  BY <1>2, <1>3 DEF GePlaced, GeKnows, GeFlush, GeAloneAt, GeChunkAt, GeToolAt
<1>8. GeTurns
  BY <1>2, <1>3 DEF GeTurns, GeCloses, GeFlush
<1>9. GeOnce
  <2>1. \A x : ~Ge!Kept(x) /\ ~InSpan(x)
    BY <1>2 DEF Ge!Kept, InSpan
  <2>2. world.heard = {}
    BY <1>1
  <2>3. \A h \in GeHooks : GeHolds(hooks[h])
    BY <1>3 DEF GeHolds, GeFlush
  <2> QED
    BY <1>2, <2>1, <2>2, <2>3 DEF GeOnce
<1> QED
  BY <1>2, <1>4, <1>5, <1>6, <1>7, <1>8, <1>9 DEF GeInv, GeBase

LEMMA GeStep ==
  ASSUME GeInv, [Ge!Next]_Ge!vars
  PROVE  GeInv'
<1>1. CASE Ge!Next
  <2>1. PICK h \in GeHooks : Ge!Step(h)
    BY <1>1 DEF Ge!Next, GeHooks
  <2> QED
    BY <2>1, GeBaseStep, GeTurnsStep, GeOnceStep DEF GeInv
<1>2. CASE UNCHANGED Ge!vars
  <2>1. UNCHANGED <<store, hooks, sent, world>>
    BY <1>2 DEF Ge!vars
  <2>2. GeBase'
    <3>1. GeBase
      BY DEF GeInv
    <3>2. GeWorld' /\ GeStored'
      BY <2>1, <3>1 DEF GeBase, GeWorld, GeStored, Opened, Issued, IsSeq, Ge!Has, GeHooks
    <3>3. GeSent' /\ GeApart'
      BY <2>1, <3>1 DEF GeBase, GeSent, GeApart, Opened, AllHeard, Heard, IsSeq, Ge!Running, GeHooks
    <3>4. GeTexts'
      BY <2>1, <3>1 DEF GeBase, GeTexts, Current, Heard, Ge!Has, GeHooks
    <3>5. \A h \in GeHooks : GeKnows(h)'
      <4> SUFFICES ASSUME NEW h \in GeHooks
                   PROVE  GeKnows(h)'
        BY DEF GeHooks
      <4>1. GeKnows(h)
        BY <3>1 DEF GeBase
      <4>2. /\ \A t : Opened(t)' <=> Opened(t)
            /\ \A c : Issued(c)' <=> Issued(c)
            /\ \A text, t : AllHeard(text, t)' <=> AllHeard(text, t)
            /\ \A x, t : Heard(x, t)' <=> Heard(x, t)
            /\ \A k : Ge!Has(store, k)' <=> Ge!Has(store, k)
        BY <2>1 DEF Opened, Issued, AllHeard, Heard, Ge!Has, GeHooks
      <4> QED
        BY <2>1, <4>1, <4>2 DEF GeKnows
    <3> QED
      BY <2>1, <3>1, <3>2, <3>3, <3>4, <3>5 DEF GeBase, GeHooks
  <2>3. GeTurns'
    BY <2>1 DEF GeInv, GeTurns, GeCloses, Live, Rooted, Ge!Has, Ge!TraceKey, Ge!SpanKey, GeHooks
  <2>4. GeOnce'
    <3>1. /\ \A x : Ge!Kept(x)' <=> Ge!Kept(x)
          /\ \A x : InSpan(x)' <=> InSpan(x)
      BY <2>1 DEF Ge!Kept, InSpan, Ge!Has, Ge!TextOf
    <3>2. \A h \in GeHooks : GeHolds(hooks[h])' <=> GeHolds(hooks[h])
      BY <2>1, <3>1 DEF GeHolds, GeTextOf, Ge!Has, GeHooks
    <3> QED
      BY <2>1, <3>1, <3>2 DEF GeInv, GeOnce, GeHooks, Ge!Has
  <2> QED
    BY <2>2, <2>3, <2>4 DEF GeInv
<1> QED
  BY <1>1, <1>2

LEMMA GeInvariant == Spec => [](harness = "gemini" => GeInv)
<1> DEFINE Inv == harness = "gemini" => GeInv
<1>1. Init => Inv
  <2>1. Ge!GeminiAssumption
    BY HarnessesAssumption
  <2> QED
    BY <2>1, GeInit DEF Init
<1>2. Inv /\ [Next]_vars => Inv'
  <2> SUFFICES ASSUME Inv, [Next]_vars, harness' = "gemini"
               PROVE  GeInv'
    OBVIOUS
  <2>1. harness = "gemini"
    BY DEF Next, vars
  <2>2. [Next]_vars /\ harness = "gemini" => [Ge!Next]_Ge!vars
    BY DEF Next, vars, Ge!vars
  <2> QED
    BY <2>1, <2>2, GeStep
<1> QED
  BY <1>1, <1>2, PTL DEF Spec

(* Gemini: unless a hook died, a turn has one root at most, and when no    *)
(* hook runs every turn with a span is open or has its root                *)
(* (_close_pending_turn, _handle_after_agent).                             *)
THEOREM GeminiTurnsGetRoots == Spec => []TurnsGetRoots
<1>1. (harness = "gemini" => GeInv) => TurnsGetRoots
  <2> SUFFICES ASSUME GeInv
               PROVE  Ge!TurnsGetRoots
    BY DEF TurnsGetRoots
  <2>1. GeTurns
    BY DEF GeInv
  <2> QED
    BY <2>1 DEF GeTurns, Ge!TurnsGetRoots, Live, Rooted, Ge!Get, Ge!Has
<1> QED
  BY <1>1, GeInvariant, PTL

LEMMA GeCardinality == \A S : Ge!Cardinality(S) = Cardinality(S)
BY DEF Ge!Cardinality, Cardinality

(* Gemini: the text of a chunk is reported in the turn in which it was     *)
(* streamed, whatever overlaps and dies; and while no hook dies and chunks *)
(* do not overlap, when no hook runs it is in one LLM span or waits for    *)
(* the next flush (_handle_after_model, _flush_pending_model_call).        *)
THEOREM GeminiText == Spec => []TextOnceInItsTurn
<1>1. (harness = "gemini" => GeInv) => TextOnceInItsTurn
  <2> SUFFICES ASSUME GeInv
               PROVE  Ge!TextOnceInItsTurn
    BY DEF TextOnceInItsTurn
  <2>1. \A i \in DOMAIN sent : \A c \in Ge!TextOf(sent[i]) :
          [chunk |-> c, trace |-> sent[i].trace] \in world.heard
    BY DEF GeInv, GeBase, GeSent, AllHeard, Heard, Ge!TextOf
  <2>2. ASSUME Ge!Quiet, world.crashes = 0, ~world.overlap, NEW e \in world.heard
        PROVE  Ge!Cardinality({i \in DOMAIN sent : e.chunk \in Ge!TextOf(sent[i])})
                 + (IF Ge!Kept(e.chunk) THEN 1 ELSE 0) = 1
    <3> DEFINE x == e.chunk
               S == {i \in DOMAIN sent : x \in Ge!TextOf(sent[i])}
    <3>1. x \in GeHooks
      BY DEF GeInv, GeBase, GeWorld
    <3>2. \A h \in GeHooks : hooks[h].at \in {"new", "done"}
      BY <2>2 DEF Ge!Quiet, Ge!Running, GeHooks
    <3>3. \A i, j \in S : i = j
      BY <2>2 DEF GeInv, GeOnce
    <3>4. Ge!Kept(x) \/ InSpan(x)
      BY <2>2, <3>1, <3>2 DEF GeInv, GeOnce
    <3>5. ~(Ge!Kept(x) /\ InSpan(x))
      BY <2>2, <3>1, <3>2 DEF GeInv, GeOnce
    <3>6. InSpan(x) <=> S # {}
      BY DEF InSpan
    <3> HIDE DEF S
    <3>7. CASE S = {}
      <4>1. Cardinality(S) = 0
        BY <3>7, FS_EmptySet
      <4> QED
        BY <3>4, <3>6, <3>7, <4>1, GeCardinality DEF S
    <3>8. CASE S # {}
      <4>1. PICK i : S = {i}
        BY <3>3, <3>8
      <4>2. Cardinality(S) = 1
        BY <4>1, FS_Singleton
      <4> QED
        BY <3>5, <3>6, <3>8, <4>2, GeCardinality DEF S
    <3> QED
      BY <3>7, <3>8
  <2> QED
    BY <2>1, <2>2 DEF Ge!TextOnceInItsTurn
<1> QED
  BY <1>1, GeInvariant, PTL
=============================================================================
