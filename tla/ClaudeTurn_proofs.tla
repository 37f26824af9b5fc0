------------------------- MODULE ClaudeTurn_proofs -------------------------
(***************************************************************************)
(* Proofs about ClaudeTurn, for any number of hooks, tools and subagents   *)
(* and in any environment.                                                 *)
(***************************************************************************)
EXTENDS ClaudeTurn, TLAPS

(* Some root of the turn of l has been delivered with the observations of  *)
(* l in it.                                                                *)
IsSentIn(l, S) ==
  \E s \in S : /\ IsRoot(s) /\ s.ok /\ s.trace = l.trace
               /\ s.obs = {<<i, l.found[i]>> : i \in Matched(l)}

(* An export is acknowledged after it has succeeded.                       *)
SentBeforeAck == \A h \in Hooks : hook[h].at = "ack" => IsSentIn(hook[h], spans)

(* The kinds of events whose handlers come to a stage.                     *)
KindAt(e, at) ==
  /\ at \in {"ensure", "setSession", "setCount"} => e.kind \in {"session", "prompt"}
  /\ at \in {"pending", "recheck", "count", "open", "openSpan", "openLine"} => e.kind = "prompt"

KindsOfStages == \A h \in Hooks : KindAt(ev[h], hook[h].at)

IsPrompt(h) == ev[h].kind = "prompt" /\ Running(h)

(* Prompts come one by one, and none is open when a prompt opens a turn.   *)
OnePrompt ==
  "prompt" \in mode.serial => \A h, o \in Hooks : IsPrompt(h) /\ IsPrompt(o) => h = o

NoneOpen ==
  "prompt" \in mode.serial =>
    \A h \in Hooks : hook[h].at \in {"count", "open"} => data.trace = NoHook

TurnInv == ClaudeTypeOK /\ SentBeforeAck /\ KindsOfStages /\ OnePrompt /\ NoneOpen

-----------------------------------------------------------------------------
(* Lemmas about the helpers *)

(* A handler goes on at one of the stages, and opens a turn or sets up a   *)
(* session only where it may.                                              *)
LEMMA NextStages ==
  ASSUME NEW e, NEW at \in Stages
  PROVE  /\ First(e) \in Stages \ {"new", "ack", "count", "open"} /\ KindAt(e, First(e))
         /\ Ensured(e) \in {"done", "pending"}
         /\ Exported(e) \in {"done", "recheck"} /\ KindAt(e, Exported(e))
         /\ Traced(e) \in {"descriptor", "span"}
         /\ Spanned(e) \in {"number", "note"}
         /\ \A tree : Parsed(e, tree) \in {"tools", "command"}
         /\ AfterUpdate(e, at) \in Stages \ {"new", "ack", "count"}
         /\ AfterUpdate(e, at) = "open" => at = "count"
         /\ KindAt(e, at) => KindAt(e, AfterUpdate(e, at))
         /\ AfterDrop(e, at) \in {"done", "span", AfterUpdate(e, at)}
<1>1. First(e) \in {"ensure", "stash", "done", "start", "trace", "lookup", "remove"}
  BY DEF First
<1>2. First(e) = "ensure" => e.kind \in {"session", "prompt"}
  BY DEF First
<1>3. Exported(e) \in {"done", "recheck"} /\ (Exported(e) = "recheck" => e.kind = "prompt")
  BY DEF Exported
<1>4. Ensured(e) \in {"done", "pending"} /\ (Ensured(e) = "pending" => e.kind # "session")
  BY DEF Ensured
<1>5. AfterUpdate(e, at) \in {"setCount", "done", "pending", "send", "open", "openSpan",
                              "openLine", "result", "recheck"}
  BY <1>3, <1>4 DEF AfterUpdate
<1>6. /\ AfterUpdate(e, at) = "open" => at = "count"
      /\ AfterUpdate(e, at) = "openSpan" => at = "open"
      /\ AfterUpdate(e, at) = "openLine" => at = "openSpan"
      /\ AfterUpdate(e, at) = "setCount" => at = "setSession"
      /\ AfterUpdate(e, at) = "pending" => at = "setCount" /\ e.kind # "session"
      /\ AfterUpdate(e, at) = "recheck" => e.kind = "prompt"
  BY <1>3, <1>4 DEF AfterUpdate
<1>7. KindAt(e, at) => KindAt(e, AfterUpdate(e, at))
  BY <1>5, <1>6 DEF KindAt
<1>8. KindAt(e, First(e)) /\ KindAt(e, Exported(e))
  BY <1>1, <1>2, <1>3 DEF KindAt
<1>9. AfterDrop(e, at) \in {"done", "span", AfterUpdate(e, at)}
  BY DEF AfterDrop
<1>10. Traced(e) \in {"descriptor", "span"} /\ Spanned(e) \in {"number", "note"}
  BY DEF Traced, Spanned
<1>11. \A tree : Parsed(e, tree) \in {"tools", "command"}
  BY DEF Parsed
<1> QED
  BY <1>1, <1>3, <1>4, <1>5, <1>6, <1>7, <1>8, <1>9, <1>10, <1>11 DEF Stages, Updates

LEMMA IdleType ==
  ASSUME NEW at \in Stages
  PROVE  Idle(at) \in LocalType /\ Idle(at).at = at
BY DEF Idle, LocalType, NoObs, Obs, Owner, Ids

(* Continue replaces the local variables of one hook.                      *)
LEMMA ContinueType ==
  ASSUME NEW h \in Hooks, NEW s \in Stages, NEW l \in LocalType,
         hook \in [Hooks -> LocalType], Continue(h, s, l)
  PROVE  /\ hook' \in [Hooks -> LocalType]
         /\ \A o \in Hooks : o # h => hook'[o] = hook[o]
         /\ s # "done" => hook'[h] = [l EXCEPT !.at = s]
         /\ hook'[h].at = s
<1>1. Idle("done") \in LocalType /\ Idle("done").at = "done"
  BY IdleType DEF Stages
<1>2. [l EXCEPT !.at = s] \in LocalType /\ [l EXCEPT !.at = s].at = s
  BY DEF LocalType
<1> QED
  BY <1>1, <1>2 DEF Continue

(* What is matched depends on the lines of l and on what l found.          *)
LEMMA MatchedAt ==
  ASSUME NEW l \in LocalType, NEW s, NEW S
  PROVE  IsSentIn([l EXCEPT !.at = s], S) <=> IsSentIn(l, S)
BY DEF IsSentIn, Matched, LocalType

-----------------------------------------------------------------------------
(* A handler that goes on *)

(* A hook that goes on keeps the invariant, if it finds no turn where it   *)
(* goes to open its own, has sent what it goes to acknowledge, and opens a *)
(* turn only where the stages say so.                                      *)
LEMMA GoesOn ==
  ASSUME TurnInv,
         NEW h \in Hooks, NEW s \in Stages \ {"new"}, NEW l \in LocalType,
         Running(h), Continue(h, s, l),
         mode' = mode, log' = log, ev' = ev,
         spans \subseteq spans', before' \in [Hooks -> Owner], data' \in DataType,
         KindAt(ev[h], s),
         s = "ack" => IsSentIn(l, spans'),
         s \in {"count", "open"} /\ "prompt" \in mode.serial => data'.trace = NoHook,
         data'.trace \in {data.trace, NoHook} \/ hook[h].at = "open"
  PROVE  TurnInv'
<1>1. /\ hook' \in [Hooks -> LocalType]
      /\ \A o \in Hooks : o # h => hook'[o] = hook[o]
      /\ s # "done" => hook'[h] = [l EXCEPT !.at = s]
      /\ hook'[h].at = s
  BY ContinueType DEF TurnInv, ClaudeTypeOK
<1>2. ClaudeTypeOK'
  BY <1>1 DEF TurnInv, ClaudeTypeOK, DataType, LocalType
<1>3. SentBeforeAck'
  <2> SUFFICES ASSUME NEW o \in Hooks, hook'[o].at = "ack"
               PROVE  IsSentIn(hook[o], spans)'
    BY DEF SentBeforeAck
  <2>1. CASE o = h
    <3>1. s = "ack" /\ hook'[h] = [l EXCEPT !.at = s]
      BY <2>1, <1>1
    <3>2. IsSentIn(hook'[h], spans')
      BY <3>1, MatchedAt
    <3> QED
      BY <3>2, <2>1 DEF IsSentIn, Matched, ItemsIn, IsAnswer
  <2>2. CASE o # h
    BY <2>2, <1>1 DEF TurnInv, SentBeforeAck, IsSentIn, Matched, ItemsIn, IsAnswer
  <2> QED
    BY <2>1, <2>2
<1>4. KindsOfStages'
  BY <1>1 DEF TurnInv, KindsOfStages, KindAt
<1>5. OnePrompt'
  BY <1>1 DEF TurnInv, OnePrompt, IsPrompt, Running
<1>6. NoneOpen'
  <2> SUFFICES ASSUME "prompt" \in mode.serial, NEW o \in Hooks,
                      hook'[o].at \in {"count", "open"}
               PROVE  data'.trace = NoHook
    BY DEF NoneOpen
  <2>1. CASE o = h
    BY <2>1, <1>1
  <2>2. CASE o # h
    <3>1. hook[o].at \in {"count", "open"} /\ data.trace = NoHook
      BY <2>2, <1>1 DEF TurnInv, NoneOpen
    <3>2. IsPrompt(o)
      BY <3>1 DEF TurnInv, KindsOfStages, KindAt, IsPrompt, Running
    <3>3. hook[h].at = "open" => IsPrompt(h)
      BY DEF TurnInv, KindsOfStages, KindAt, IsPrompt, Running
    <3> QED
      BY <3>1, <3>2, <3>3, <2>2 DEF TurnInv, OnePrompt
  <2> QED
    BY <2>1, <2>2
<1> QED
  BY <1>2, <1>3, <1>4, <1>5, <1>6 DEF TurnInv

(* A hook that goes on after an update of the dict that opens no turn.     *)
LEMMA Updating ==
  ASSUME TurnInv, NEW h \in Hooks, hook[h].at \in Updates \ {"open"}, NEW d \in DataType,
         d.trace \in {data.trace, NoHook},
         Update(h, d), UNCHANGED spans, before' \in [Hooks -> Owner]
  PROVE  TurnInv'
<1> DEFINE at == hook[h].at
           s == AfterUpdate(ev[h], at)
<1>1. at \in Stages /\ hook[h] \in LocalType /\ KindAt(ev[h], at) /\ Running(h)
  BY DEF TurnInv, ClaudeTypeOK, LocalType, KindsOfStages, Running, Updates
<1>2. s \in Stages \ {"new", "ack", "count"} /\ (s = "open" => at = "count") /\ KindAt(ev[h], s)
  BY <1>1, NextStages
<1>3. Continue(h, s, hook[h])
  BY DEF Update, Goto
<1>4. "prompt" \in mode.serial /\ s = "open" => data'.trace = NoHook
  BY <1>2 DEF TurnInv, NoneOpen, Update
<1> HIDE DEF s, at
<1> QED
  BY <1>1, <1>2, <1>3, <1>4, GoesOn DEF Update

(* A hook that goes on after it has read something.                        *)
LEMMA Reading ==
  ASSUME TurnInv, NEW h \in Hooks, NEW s \in Stages \ {"new", "ack", "open"},
         NEW l \in LocalType, Running(h), Continue(h, s, l),
         UNCHANGED <<mode, data, log, ev, before>>, spans \subseteq spans',
         KindAt(ev[h], s), s = "count" => data.trace = NoHook
  PROVE  TurnInv'
BY GoesOn DEF TurnInv, ClaudeTypeOK

-----------------------------------------------------------------------------
(* The steps *)

LEMMA InitInv ==
  ASSUME Init
  PROVE  TurnInv
<1>1. Idle("new") \in LocalType /\ Idle("new").at = "new"
  BY IdleType DEF Stages
<1>2. data \in DataType
  BY DEF Init, NoData, DataType, Owner, Ids, Obs, NoObs
<1>3. ClaudeTypeOK
  BY <1>1, <1>2 DEF Init, ClaudeTypeOK, Kinds, Owner
<1>4. \A h \in Hooks : hook[h].at = "new"
  BY <1>1 DEF Init
<1> QED
  BY <1>3, <1>4 DEF TurnInv, SentBeforeAck, KindsOfStages, KindAt, OnePrompt, IsPrompt, Running,
                   NoneOpen

LEMMA StartStep ==
  ASSUME TurnInv, NEW h \in Hooks, NEW k \in Kinds, NEW i \in Items \cup {NoItem}, Start(h, k, i)
  PROVE  TurnInv'
<1> DEFINE s == First(ev'[h])
<1>1. ev' \in [Hooks -> [kind : Kinds, item : Items \cup {NoItem}]] /\ ev'[h].kind = k
      /\ \A o \in Hooks : o # h => ev'[o] = ev[o]
  BY DEF TurnInv, ClaudeTypeOK, Start
<1>2. s \in Stages \ {"new", "ack", "count", "open"} /\ KindAt(ev'[h], s)
  BY NextStages DEF Stages
<1>3. Continue(h, s, Idle("new")) /\ Idle("new") \in LocalType
  BY IdleType DEF Start, Stages
<1> HIDE DEF s
<1>4. /\ hook' \in [Hooks -> LocalType]
      /\ \A o \in Hooks : o # h => hook'[o] = hook[o]
      /\ hook'[h].at = s
  BY <1>2, <1>3, ContinueType DEF TurnInv, ClaudeTypeOK
<1>5. ClaudeTypeOK'
  BY <1>1, <1>4 DEF TurnInv, ClaudeTypeOK, Start, DataType, LocalType, history
<1>6. SentBeforeAck'
  BY <1>2, <1>4 DEF TurnInv, SentBeforeAck, Start, history, IsSentIn, Matched, ItemsIn, IsAnswer
<1>7. KindsOfStages'
  BY <1>1, <1>2, <1>4 DEF TurnInv, KindsOfStages, KindAt
<1>8. OnePrompt'
  <2>1. \A o \in Hooks : o # h => ev'[o] = ev[o] /\ hook'[o] = hook[o]
    BY <1>1, <1>4
  <2>2. "prompt" \in mode.serial /\ k = "prompt" => \A o \in Hooks : ~IsPrompt(o)
    BY DEF Start, IsPrompt
  <2> QED
    BY <2>1, <2>2, <1>1 DEF TurnInv, OnePrompt, IsPrompt, Running, Start
<1>9. NoneOpen'
  BY <1>2, <1>4 DEF TurnInv, NoneOpen, Start
<1> QED
  BY <1>5, <1>6, <1>7, <1>8, <1>9 DEF TurnInv

(* The transcript only grows: what has been read of it stays what it is.   *)
LEMMA WriteStep ==
  ASSUME TurnInv, NEW i \in Items \cup {NoItem}, Write(i)
  PROVE  TurnInv'
<1>1. log \in Seq(Items \cup {NoItem}) /\ log' = Append(log, i)
  BY DEF TurnInv, ClaudeTypeOK, Write
<1>2. /\ log' \in Seq(Items \cup {NoItem}) /\ Len(log') = Len(log) + 1 /\ Len(log) \in Nat
      /\ DOMAIN log = 1..Len(log) /\ DOMAIN log' = 1..Len(log')
      /\ \A m \in DOMAIN log : log'[m] = log[m]
  BY <1>1
<1>3. ClaudeTypeOK'
  <2>1. data' \in DataType'
    BY <1>2 DEF TurnInv, ClaudeTypeOK, Write, DataType
  <2>2. LocalType \subseteq LocalType'
    BY <1>2 DEF LocalType
  <2>3. hook' \in [Hooks -> LocalType']
    BY <2>2 DEF TurnInv, ClaudeTypeOK, Write
  <2> QED
    BY <2>1, <2>3, <1>2 DEF TurnInv, ClaudeTypeOK, Write, history
<1>4. \A m \in DOMAIN log : IsAnswer(m)' <=> IsAnswer(m)
  BY <1>2 DEF IsAnswer
<1>5. SentBeforeAck'
  <2> SUFFICES ASSUME NEW h \in Hooks, hook'[h].at = "ack"
               PROVE  IsSentIn(hook[h], spans)'
    BY DEF SentBeforeAck
  <2>1. hook' = hook /\ spans' = spans /\ hook[h].lines \subseteq DOMAIN log
    BY DEF Write, history, TurnInv, ClaudeTypeOK, LocalType
  <2>2. ItemsIn(hook[h].lines)' = ItemsIn(hook[h].lines)
    BY <2>1, <1>2, <1>4 DEF ItemsIn
  <2>3. Matched(hook[h])' = Matched(hook[h])
    BY <2>1, <2>2 DEF Matched
  <2>4. IsSentIn(hook[h], spans)
    BY <2>1 DEF TurnInv, SentBeforeAck
  <2> QED
    BY <2>1, <2>3, <2>4 DEF IsSentIn
<1> QED
  BY <1>3, <1>5 DEF TurnInv, Write, KindsOfStages, OnePrompt, IsPrompt, Running, NoneOpen

(* What the fields of the dict and of the local variables are.             *)
LEMMA Fields ==
  ASSUME TurnInv, NEW h \in Hooks
  PROVE  /\ hook[h] \in LocalType /\ data \in DataType /\ hook[h].at \in Stages
         /\ KindAt(ev[h], hook[h].at) /\ before \in [Hooks -> Owner]
         /\ hook[h].at \notin {"new", "done"} => Running(h)
BY DEF TurnInv, ClaudeTypeOK, LocalType, KindsOfStages, Running

(* A step that reads nothing but where it is.                              *)
LEMMA Branching ==
  ASSUME TurnInv, NEW h \in Hooks, hook[h].at \notin {"new", "done"},
         NEW s \in Stages \ {"new", "ack", "open"}, Goto(h, s),
         UNCHANGED <<mode, data, log, ev, history>>,
         KindAt(ev[h], s), s = "count" => data.trace = NoHook
  PROVE  TurnInv'
BY Fields, Reading DEF Goto, history

LEMMA SessionSteps ==
  ASSUME TurnInv, NEW h \in Hooks,
         Ensure(h) \/ SetSession(h) \/ SetCount(h) \/ Pending(h) \/ Recheck(h) \/ Lookup(h)
  PROVE  TurnInv'
<1>1. CASE Ensure(h)
  <2>1. Ensured(ev[h]) \in {"done", "pending"}
    BY NextStages DEF Stages
  <2>2. KindAt(ev[h], "setSession") /\ KindAt(ev[h], Ensured(ev[h]))
    BY <1>1, Fields DEF Ensure, Ensured, KindAt
  <2> QED
    BY <1>1, <2>1, <2>2, Branching DEF Ensure, Stages, Updates
<1>2. CASE SetSession(h)
  <2>1. [data EXCEPT !.session = TRUE] \in DataType
        /\ [data EXCEPT !.session = TRUE].trace = data.trace
    BY Fields DEF DataType
  <2> QED
    BY <1>2, <2>1, Fields, Updating DEF SetSession, Updates, history
<1>3. CASE SetCount(h)
  <2>1. [data EXCEPT !.count = 0] \in DataType /\ [data EXCEPT !.count = 0].trace = data.trace
    BY Fields DEF DataType
  <2> QED
    BY <1>3, <2>1, Fields, Updating DEF SetCount, Updates, history
<1>4. CASE Pending(h)
  <2>1. KindAt(ev[h], "count") /\ KindAt(ev[h], "trace")
    BY <1>4, Fields DEF Pending, KindAt
  <2> QED
    BY <1>4, <2>1, Branching DEF Pending, Stages, Updates
<1>5. CASE Recheck(h)
  <2>1. KindAt(ev[h], "count") /\ KindAt(ev[h], "done")
    BY <1>5, Fields DEF Recheck, KindAt
  <2> QED
    BY <1>5, <2>1, Branching DEF Recheck, Stages, Updates
<1>6. CASE Lookup(h)
  <2>1. \A s \in {"done", "start", "result"} : KindAt(ev[h], s)
    BY DEF KindAt
  <2>2. \E s \in {"done", "start", "result"} : Goto(h, s)
    BY <1>6 DEF Lookup
  <2> QED
    BY <1>6, <2>1, <2>2, Branching DEF Lookup, Stages, Updates
<1> QED
  BY <1>1, <1>2, <1>3, <1>4, <1>5, <1>6

LEMMA PromptSteps ==
  ASSUME TurnInv, NEW h \in Hooks,
         Count(h) \/ Open(h) \/ OpenSpan(h) \/ OpenLine(h) \/ Stash(h)
  PROVE  TurnInv'
<1>1. CASE Count(h)
  <2>1. [data EXCEPT !.count = @ + 1] \in DataType
        /\ [data EXCEPT !.count = @ + 1].trace = data.trace
    BY Fields DEF DataType
  <2> QED
    BY <1>1, <2>1, Fields, Updating DEF Count, Updates, history
<1>2. CASE Open(h)
  <2>1. [data EXCEPT !.trace = h] \in DataType
    BY Fields DEF DataType, Owner
  <2>2. AfterUpdate(ev[h], "open") = "openSpan"
    BY DEF AfterUpdate
  <2>3. KindAt(ev[h], "openSpan")
    BY <1>2, Fields DEF Open, KindAt
  <2> QED
    BY <1>2, <2>1, <2>2, <2>3, Fields, GoesOn DEF Open, Update, Goto, Stages, Updates, history
<1>3. CASE OpenSpan(h)
  <2>1. [data EXCEPT !.span = h] \in DataType /\ [data EXCEPT !.span = h].trace = data.trace
    BY Fields DEF DataType, Owner
  <2> QED
    BY <1>3, <2>1, Fields, Updating DEF OpenSpan, Updates, history
<1>4. CASE OpenLine(h)
  <2>1. Len(log) \in 0..Len(log)
    BY DEF TurnInv, ClaudeTypeOK
  <2>2. [data EXCEPT !.line = Len(log)] \in DataType
        /\ [data EXCEPT !.line = Len(log)].trace = data.trace
    BY <2>1, Fields DEF DataType
  <2> QED
    BY <1>4, <2>2, Fields, Updating DEF OpenLine, Updates, history
<1>5. CASE Stash(h)
  <2>1. [data EXCEPT !.command = h] \in DataType /\ [data EXCEPT !.command = h].trace = data.trace
    BY Fields DEF DataType, Owner
  <2>2. before' \in [Hooks -> Owner]
    BY <1>5, Fields DEF Stash, DataType
  <2> QED
    BY <1>5, <2>1, <2>2, Updating DEF Stash, Updates
<1> QED
  BY <1>1, <1>2, <1>3, <1>4, <1>5

LEMMA ToolSteps ==
  ASSUME TurnInv, NEW h \in Hooks,
         RecordStart(h) \/ RecordResult(h) \/ RecordAgent(h) \/ SendNote(h) \/ Remove(h)
  PROVE  TurnInv'
<1>1. CASE RecordStart(h)
  <2>1. [data EXCEPT !.buffer[ev[h].item].start = h] \in DataType
        /\ [data EXCEPT !.buffer[ev[h].item].start = h].trace = data.trace
    BY Fields DEF DataType, Owner, Obs
  <2> QED
    BY <1>1, <2>1, Fields, Updating DEF RecordStart, Updates, history
<1>2. CASE RecordResult(h)
  <2>1. [data EXCEPT !.buffer[ev[h].item].result = h] \in DataType
        /\ [data EXCEPT !.buffer[ev[h].item].result = h].trace = data.trace
    BY Fields DEF DataType, Owner, Obs
  <2> QED
    BY <1>2, <2>1, Fields, Updating DEF RecordResult, Updates, history
<1>3. CASE RecordAgent(h)
  <2> DEFINE d == [data EXCEPT !.buffer[ev[h].item] = [start |-> NoHook, result |-> h]]
  <2>1. d \in DataType /\ d.trace = data.trace
    BY Fields DEF DataType, Owner, Obs
  <2>2. Update(h, d) /\ UNCHANGED history /\ hook[h].at = "descriptor"
    BY <1>3 DEF RecordAgent
  <2> HIDE DEF d
  <2> QED
    BY <2>1, <2>2, Fields, Updating DEF Updates, history
<1>4. CASE SendNote(h)
  <2>1. spans \subseteq spans'
    BY <1>4 DEF SendNote, Sent
  <2>2. KindAt(ev[h], "done")
    BY DEF KindAt
  <2> QED
    BY <1>4, <2>1, <2>2, Fields, Reading DEF SendNote, Goto, Stages
<1>5. CASE Remove(h)
  <2>1. NoData \in DataType /\ NoData.trace = NoHook
    BY DEF TurnInv, ClaudeTypeOK, NoData, DataType, Owner, Ids, Obs, NoObs
  <2>2. data' \in DataType /\ data'.trace \in {data.trace, NoHook}
    BY <1>5, <2>1, Fields DEF Remove
  <2>3. KindAt(ev[h], "done")
    BY DEF KindAt
  <2> QED
    BY <1>5, <2>2, <2>3, Fields, GoesOn DEF Remove, Goto, Stages, history
<1> QED
  BY <1>1, <1>2, <1>3, <1>4, <1>5

LEMMA ReadSteps ==
  ASSUME TurnInv, NEW h \in Hooks,
         GetTrace(h) \/ GetSpan(h) \/ GetNumber(h) \/ Parse(h) \/ GetTools(h) \/ GetAgents(h)
           \/ GetCommand(h) \/ GetIds(h)
  PROVE  TurnInv'
<1> DEFINE Quiet == {"descriptor", "span", "number", "note", "send", "parse", "tools", "agents",
                     "command", "ids", "setIds"}
<1>1. \A s \in Quiet : KindAt(ev[h], s)
  BY DEF KindAt
<1>2. Exported(ev[h]) \in {"done", "recheck"} /\ KindAt(ev[h], Exported(ev[h]))
  BY NextStages DEF Stages
<1>3. SUFFICES ASSUME NEW s \in Quiet \cup {Exported(ev[h])}, NEW l \in LocalType,
                      Continue(h, s, l), hook[h].at \notin {"new", "done"},
                      UNCHANGED <<mode, data, log, ev, history>>
               PROVE  TurnInv'
  <2>1. CASE GetTrace(h)
    <3>1. [hook[h] EXCEPT !.trace = data.trace] \in LocalType
      BY Fields DEF LocalType, DataType
    <3>2. Traced(ev[h]) \in Quiet
      BY NextStages DEF Stages
    <3> QED
      BY <2>1, <3>1, <3>2, <1>3 DEF GetTrace
  <2>2. CASE GetSpan(h)
    <3> DEFINE l == [hook[h] EXCEPT !.span = IF data.span = NoHook /\ Spanned(ev[h]) = "number"
                                             THEN h ELSE data.span]
    <3>1. l \in LocalType
      BY Fields DEF LocalType, DataType, Owner
    <3>2. Spanned(ev[h]) \in Quiet
      BY NextStages DEF Stages
    <3>3. Continue(h, Spanned(ev[h]), l)
      BY <2>2 DEF GetSpan
    <3> HIDE DEF l
    <3> QED
      BY <2>2, <3>1, <3>2, <3>3, <1>3 DEF GetSpan
  <2>3. CASE GetNumber(h)
    <3>1. [hook[h] EXCEPT !.number = data.count] \in LocalType
      BY Fields DEF LocalType, DataType
    <3> QED
      BY <2>3, <3>1, <1>3 DEF GetNumber
  <2>4. CASE Parse(h)
    <3>1. From(data.line) \subseteq DOMAIN log /\ IsTree(From(data.line)) \in BOOLEAN
      BY DEF From, IsTree
    <3>2. [hook[h] EXCEPT !.lines = From(data.line), !.tree = IsTree(From(data.line))] \in LocalType
      BY <3>1, Fields DEF LocalType
    <3>3. \A tree : Parsed(ev[h], tree) \in Quiet
      BY NextStages DEF Stages
    <3> QED
      BY <2>4, <3>2, <3>3, <1>3 DEF Parse
  <2>5. \A items : Find(h, items) \in LocalType
    BY Fields DEF Find, LocalType, DataType
  <2>6. CASE GetTools(h)
    BY <2>5, <2>6, <1>3 DEF GetTools
  <2>7. CASE GetAgents(h)
    BY <2>5, <2>7, <1>3 DEF GetAgents
  <2>8. CASE GetCommand(h)
    <3>1. [hook[h] EXCEPT !.command = data.command] \in LocalType
      BY Fields DEF LocalType, DataType
    <3> QED
      BY <2>8, <3>1, <1>3 DEF GetCommand
  <2>9. CASE GetIds(h)
    <3>1. EventsOf(hook[h]) \subseteq Nat \cup Items
      BY Fields DEF EventsOf, ItemsIn, Matched, LocalType
    <3>2. SpanIds(h, hook[h], data.ids) \in Ids
      BY <3>1, Fields DEF SpanIds, Ids, LocalType, DataType, Owner
    <3>3. [hook[h] EXCEPT !.ids = SpanIds(h, hook[h], data.ids)] \in LocalType
      BY <3>2, Fields DEF LocalType
    <3> QED
      BY <2>9, <3>3, <1>3 DEF GetIds
  <2> QED
    BY <2>1, <2>2, <2>3, <2>4, <2>6, <2>7, <2>8, <2>9
<1>4. s \in Stages \ {"new", "ack", "open", "count"} /\ KindAt(ev[h], s)
  BY <1>1, <1>2, <1>3 DEF Stages, Updates
<1> QED
  BY <1>3, <1>4, Fields, Reading DEF history

LEMMA StopSteps ==
  ASSUME TurnInv, NEW h \in Hooks, SetIds(h) \/ SendTurn(h) \/ Ack(h)
  PROVE  TurnInv'
<1>1. CASE SetIds(h)
  <2>1. [data EXCEPT !.ids = hook[h].ids] \in DataType
        /\ [data EXCEPT !.ids = hook[h].ids].trace = data.trace
    BY Fields DEF DataType, LocalType
  <2> QED
    BY <1>1, <2>1, Fields, Updating DEF SetIds, Updates, history
<1>2. CASE SendTurn(h)
  <2> DEFINE ids == IF hook[h].tree THEN hook[h].ids ELSE {<<hook[h].number, hook[h].span>>}
  <2>1. PICK ok \in {TRUE, ~mode.down}, kind \in {"failed", "tree", "root"} :
          /\ Sent(h, kind, ids, {<<i, hook[h].found[i]>> : i \in Matched(hook[h])}, ok)
          /\ Goto(h, IF ok THEN "ack" ELSE Exported(ev[h]))
    BY <1>2 DEF SendTurn
  <2>2. spans \subseteq spans' /\ (ok => IsSentIn(hook[h], spans'))
    <3> DEFINE obs == {<<i, hook[h].found[i]>> : i \in Matched(hook[h])}
               s == [kind |-> kind, by |-> h, trace |-> hook[h].trace, span |-> hook[h].span,
                     number |-> hook[h].number, ids |-> ids, lines |-> hook[h].lines,
                     obs |-> obs, command |-> hook[h].command, ok |-> ok]
    <3>1. spans' = spans \cup {s}
      BY <2>1 DEF Sent
    <3>2. s.kind = kind /\ s.ok = ok /\ s.trace = hook[h].trace /\ s.obs = obs
      OBVIOUS
    <3> HIDE DEF s
    <3>3. IsRoot(s)
      BY <3>2 DEF IsRoot
    <3> QED
      BY <3>1, <3>2, <3>3 DEF IsSentIn
  <2>3. Exported(ev[h]) \in {"done", "recheck"} /\ KindAt(ev[h], Exported(ev[h]))
        /\ KindAt(ev[h], "ack")
    BY NextStages DEF Stages, KindAt
  <2>4. CASE ok
    BY <1>2, <2>1, <2>2, <2>3, <2>4, Fields, GoesOn DEF SendTurn, Goto, Stages, Updates
  <2>5. CASE ~ok
    BY <1>2, <2>1, <2>2, <2>3, <2>5, Fields, GoesOn DEF SendTurn, Goto, Stages
  <2> QED
    BY <2>4, <2>5
<1>3. CASE Ack(h)
  <2>1. Closed(Unchanged(h)) \in DataType /\ Closed(Unchanged(h)).trace = NoHook
    <3>1. 0 \in 0..Len(log) /\ {} \in Ids /\ NoHook \in Owner
      BY DEF TurnInv, ClaudeTypeOK, Ids, Owner
    <3>2. [i \in Items |-> IF i \in Unchanged(h) THEN NoObs ELSE data.buffer[i]] \in [Items -> Obs]
      BY Fields DEF DataType, Obs, NoObs, Owner
    <3> QED
      BY <3>1, <3>2, Fields DEF Closed, DataType
  <2> QED
    BY <1>3, <2>1, Fields, Updating DEF Ack, Updates, history
<1> QED
  BY <1>1, <1>2, <1>3

LEMMA FaultSteps ==
  ASSUME TurnInv, NEW h \in Hooks, DropUpdate(h) \/ Crash(h)
  PROVE  TurnInv'
<1>1. CASE DropUpdate(h)
  <2> DEFINE at == hook[h].at
             s == AfterDrop(ev[h], at)
  <2>1. at \in Updates /\ at \in Stages /\ KindAt(ev[h], at)
    BY <1>1, Fields DEF DropUpdate
  <2>2. s \in Stages \ {"new", "ack", "count"} /\ KindAt(ev[h], s) /\ (s = "open" => at = "count")
    BY <2>1, NextStages DEF KindAt, Stages, Updates
  <2>3. "prompt" \in mode.serial /\ s = "open" => data.trace = NoHook
    BY <2>2 DEF TurnInv, NoneOpen
  <2>4. Continue(h, s, hook[h])
    BY <1>1 DEF DropUpdate, Goto
  <2>5. Running(h)
    BY <2>1 DEF Running, Updates
  <2> HIDE DEF s, at
  <2> QED
    BY <1>1, <2>2, <2>3, <2>4, <2>5, Fields, GoesOn DEF DropUpdate, history
<1>2. CASE Crash(h)
  <2>1. KindAt(ev[h], "done")
    BY DEF KindAt
  <2> QED
    BY <1>2, <2>1, Branching DEF Crash, Running, Stages
<1> QED
  BY <1>1, <1>2

LEMMA StepInv ==
  ASSUME TurnInv, [Next]_vars
  PROVE  TurnInv'
<1>1. CASE \E h \in Hooks, k \in Kinds, i \in Items \cup {NoItem} : Start(h, k, i)
  BY <1>1, StartStep
<1>2. CASE \E i \in Items \cup {NoItem} : Write(i)
  BY <1>2, WriteStep
<1>3. CASE \E h \in Hooks : Step(h)
  BY <1>3, SessionSteps, PromptSteps, ToolSteps, ReadSteps, StopSteps DEF Step
<1>4. CASE \E h \in Hooks : DropUpdate(h) \/ Crash(h)
  BY <1>4, FaultSteps
<1>5. CASE UNCHANGED vars
  <2> USE <1>5 DEF vars, history
  <2>1. ClaudeTypeOK'
    BY DEF TurnInv, ClaudeTypeOK, DataType, LocalType
  <2>2. SentBeforeAck'
    BY DEF TurnInv, SentBeforeAck, IsSentIn, Matched, ItemsIn, IsAnswer
  <2> QED
    BY <2>1, <2>2 DEF TurnInv, KindsOfStages, OnePrompt, IsPrompt, Running, NoneOpen
<1> QED
  BY <1>1, <1>2, <1>3, <1>4, <1>5 DEF Next

(* The inductive invariant: types, and what each stage of a handler may    *)
(* take for granted.                                                       *)
THEOREM TurnInvariant == Spec => []TurnInv
BY InitInv, StepInv, PTL DEF Spec

(* ClaudeTypeOK, for any number of hooks, tools and transcript lines.      *)
THEOREM ClaudeTypeCorrect == Spec => []ClaudeTypeOK
<1>1. TurnInv => ClaudeTypeOK
  BY DEF TurnInv
<1> QED
  BY <1>1, TurnInvariant, PTL

-----------------------------------------------------------------------------
(* What leaves the dict *)

(* The actions that change the dict.                                       *)
LEMMA DataSteps ==
  ASSUME Next
  PROVE  \/ data' = data
         \/ \E h \in Hooks : \/ SetSession(h) \/ SetCount(h) \/ Count(h) \/ Open(h) \/ OpenSpan(h)
                             \/ OpenLine(h) \/ Stash(h) \/ RecordStart(h) \/ RecordResult(h)
                             \/ RecordAgent(h) \/ Remove(h) \/ SetIds(h) \/ Ack(h)
<1> USE DEF Next
<1>1. CASE \E h \in Hooks, k \in Kinds, i \in Items \cup {NoItem} : Start(h, k, i)
  BY <1>1 DEF Start
<1>2. CASE \E i \in Items \cup {NoItem} : Write(i)
  BY <1>2 DEF Write
<1>3. CASE \E h \in Hooks : DropUpdate(h) \/ Crash(h)
  BY <1>3 DEF DropUpdate, Crash
<1>4. CASE \E h \in Hooks : Step(h)
  <2>1. PICK h \in Hooks : Step(h)
    BY <1>4
  <2>2. Ensure(h) \/ Pending(h) \/ Recheck(h) \/ Lookup(h) \/ SendNote(h) => data' = data
    BY DEF Ensure, Pending, Recheck, Lookup, SendNote
  <2>3. GetTrace(h) \/ GetSpan(h) \/ GetNumber(h) \/ Parse(h) \/ GetTools(h) \/ GetAgents(h)
          \/ GetCommand(h) \/ GetIds(h) \/ SendTurn(h) => data' = data
    BY DEF GetTrace, GetSpan, GetNumber, Parse, GetTools, GetAgents, GetCommand, GetIds, SendTurn
  <2> QED
    BY <2>1, <2>2, <2>3 DEF Step
<1> QED
  BY <1>1, <1>2, <1>3, <1>4

(* A step keeps the open turn, or the turn has been delivered.             *)
LEMMA TurnStep ==
  ASSUME TurnInv, [Next]_vars
  PROVE  \/ "prompt" \notin mode.serial
         \/ data.trace \in {NoHook, data'.trace}
         \/ Delivered(data.trace)
         \/ data' = NoData
<1>1. CASE data' = data \/ UNCHANGED vars
  BY <1>1 DEF vars
<1>2. ASSUME NEW h \in Hooks,
             \/ SetSession(h) \/ SetCount(h) \/ Count(h) \/ OpenSpan(h) \/ OpenLine(h) \/ Stash(h)
             \/ RecordStart(h) \/ RecordResult(h) \/ RecordAgent(h) \/ SetIds(h)
      PROVE  data'.trace = data.trace
  BY <1>2, Fields DEF DataType, Update, SetSession, SetCount, Count, OpenSpan, OpenLine, Stash,
                      RecordStart, RecordResult, RecordAgent, SetIds
<1>3. ASSUME NEW h \in Hooks, Open(h)
      PROVE  "prompt" \in mode.serial => data.trace = NoHook
  BY <1>3 DEF Open, TurnInv, NoneOpen
<1>4. ASSUME NEW h \in Hooks, Remove(h)
      PROVE  data' \in {data, NoData}
  BY <1>4 DEF Remove
<1>5. ASSUME NEW h \in Hooks, Ack(h)
      PROVE  data' = data \/ Delivered(data.trace)
  BY <1>5 DEF Ack, Update, TurnInv, SentBeforeAck, IsSentIn, Delivered
<1> QED
  BY <1>1, <1>2, <1>3, <1>4, <1>5, DataSteps

(* An open turn leaves the dict only after a root of it was delivered, or  *)
(* with its session, whatever fails and whatever overlaps with the prompts *)
(* (_handle_user_prompt_submit, _acknowledge_exported_turn).               *)
THEOREM TurnsAreKept == Spec => TurnKeptUntilSent
<1>1. TurnInv /\ [Next]_vars =>
        [\/ "prompt" \notin mode.serial
         \/ data.trace \in {NoHook, data'.trace}
         \/ Delivered(data.trace)
         \/ data' = NoData]_vars
  BY TurnStep
<1> QED
  BY <1>1, TurnInvariant, PTL DEF Spec, TurnKeptUntilSent

(* A step keeps what is buffered, or it has been delivered as it is.       *)
LEMMA ObservationStep ==
  ASSUME TurnInv, [Next]_vars, NEW i \in Items
  PROVE  \/ data.buffer[i] = NoObs
         \/ data'.buffer[i] # NoObs
         \/ \E s \in spans : s.ok /\ <<i, data.buffer[i]>> \in s.obs
         \/ data' = NoData
<1>1. CASE data' = data \/ UNCHANGED vars
  BY <1>1 DEF vars
<1>2. ASSUME NEW h \in Hooks,
             \/ SetSession(h) \/ SetCount(h) \/ Count(h) \/ Open(h) \/ OpenSpan(h) \/ OpenLine(h)
             \/ Stash(h) \/ SetIds(h)
      PROVE  data'.buffer = data.buffer
  BY <1>2, Fields DEF DataType, Update, SetSession, SetCount, Count, Open, OpenSpan, OpenLine, Stash,
                      SetIds
<1>3. ASSUME NEW h \in Hooks, RecordStart(h) \/ RecordResult(h) \/ RecordAgent(h)
      PROVE  data'.buffer[i] = data.buffer[i] \/ data'.buffer[i] # NoObs
  <2>1. h # NoHook
    BY ClaudeAssumption
  <2>2. CASE RecordStart(h)
    BY <2>1, <2>2, Fields DEF DataType, Obs, NoObs, Update, RecordStart
  <2>3. CASE RecordResult(h)
    BY <2>1, <2>3, Fields DEF DataType, Obs, NoObs, Update, RecordResult
  <2>4. CASE RecordAgent(h)
    BY <2>1, <2>4, Fields DEF DataType, Obs, NoObs, Update, RecordAgent
  <2> QED
    BY <1>3, <2>2, <2>3, <2>4
<1>4. ASSUME NEW h \in Hooks, Remove(h)
      PROVE  data' \in {data, NoData}
  BY <1>4 DEF Remove
<1>5. ASSUME NEW h \in Hooks, Ack(h)
      PROVE  \/ data'.buffer[i] = data.buffer[i]
             \/ \E s \in spans : s.ok /\ <<i, data.buffer[i]>> \in s.obs
  <2>1. PICK s \in spans : s.ok /\ s.obs = {<<k, hook[h].found[k]>> : k \in Matched(hook[h])}
    BY <1>5 DEF Ack, TurnInv, SentBeforeAck, IsSentIn
  <2>2. CASE i \in Unchanged(h)
    <3>1. i \in Matched(hook[h]) /\ data.buffer[i] = hook[h].found[i]
      BY <2>2 DEF Unchanged
    <3> QED
      BY <2>1, <3>1
  <2>3. CASE i \notin Unchanged(h)
    <3>1. Closed(Unchanged(h)).buffer[i] = data.buffer[i]
      BY <2>3, Fields DEF Closed, DataType
    <3> QED
      BY <1>5, <3>1 DEF Ack, Update
  <2> QED
    BY <2>2, <2>3
<1> QED
  BY <1>1, <1>2, <1>3, <1>4, <1>5, DataSteps

(* An observation leaves the buffer only after exactly that observation    *)
(* was delivered, or with its session, whatever overlaps and whatever      *)
(* fails (_acknowledge_exported_turn, ToolBuffer).                         *)
THEOREM ObservationsAreKept == Spec => ObservationKeptUntilSent
<1>1. TurnInv /\ [Next]_vars =>
        [\A i \in Items :
           \/ data.buffer[i] = NoObs
           \/ data'.buffer[i] # NoObs
           \/ \E s \in spans : s.ok /\ <<i, data.buffer[i]>> \in s.obs
           \/ data' = NoData]_vars
  BY ObservationStep
<1> QED
  BY <1>1, TurnInvariant, PTL DEF Spec, ObservationKeptUntilSent
-----------------------------------------------------------------------------
(* While Claude Code waits for its hooks *)

(* What follows is about environments where Claude Code waits for the      *)
(* hooks of these events: at most one of them runs, and what it has read   *)
(* of the dict stays true until it goes on, since the hooks of tools and   *)
(* notes, the bystanders, write nothing but the buffer.                    *)
Waited == {"session", "expand", "prompt", "stop", "failure", "end"}

Waits(h) == ev[h].kind \in Waited /\ Running(h)

OneWaits == Serial => \A h, o \in Hooks : Waits(h) /\ Waits(o) => h = o

Exports == {"number", "parse", "tools", "agents", "command", "ids", "setIds", "send", "ack"}
Opens == {"openSpan", "openLine"}
Early == {"ensure", "setSession", "setCount", "pending", "trace", "span"}

(* The kinds of events whose handlers come to the other stages.            *)
KindOf(e, at) ==
  /\ at \in Exports => e.kind \in {"prompt", "stop", "failure"}
  /\ at = "stash" => e.kind = "expand"
  /\ at = "remove" => e.kind = "end"
  /\ at \in {"trace", "span"} => e.kind \notin {"session", "expand", "end"}
  /\ at = "descriptor" => e.kind = "agent"
  /\ at \in {"lookup", "start", "result", "note"} => e.kind \notin Waited

StagesOfKinds == \A h \in Hooks : KindOf(ev[h], hook[h].at)

KindsOccur == \A h \in Hooks : Running(h) => ev[h].kind \in mode.kinds

(* A turn that is known anywhere has been opened by its hook, a command    *)
(* been put in the dict: neither hook will do so again.                    *)
TracesOpened ==
  \A t \in Hooks :
    \/ data.trace = t
    \/ \E o \in Hooks : hook[o].trace = t
    \/ \E s \in spans : s.trace = t
    => hook[t].at \in Opens \cup {"done"}

CommandsStashed ==
  \A c \in Hooks :
    \/ data.command = c
    \/ \E o \in Hooks : hook[o].command = c
    \/ \E s \in spans : s.command = c
    => hook[c].at = "done"

BystandersCarryNothing ==
  \A h \in Hooks : ev[h].kind \notin Waited => hook[h].lines = {} /\ hook[h].command = NoHook

(* One span id per event.                                                  *)
OneIdEach(ids) == \A p, q \in ids : p[1] = q[1] => p = q

NoTurnYet == data.trace = NoHook /\ \A s \in spans : ~IsRoot(s)

(* What a hook that is waited for may take for granted: the turn it        *)
(* exports is the open one, the ids it will store extend those stored.     *)
HoldsTurn(h) ==
  /\ hook[h].at \in Exports \cup {"span"} => hook[h].trace = data.trace /\ data.trace # NoHook
  /\ hook[h].at = "setIds" => data.ids \subseteq hook[h].ids /\ OneIdEach(hook[h].ids)
  /\ ~mode.faults /\ hook[h].at = "send" /\ hook[h].tree /\ ev[h].kind # "failure" =>
       hook[h].ids = data.ids

(* The same where no hook dies and no update is lost.                      *)
KeepsOrder(h) ==
  /\ \/ hook[h].at \in {"setCount", "pending", "recheck", "count", "open", "span"} \cup Opens \cup Exports
     \/ hook[h].at = "trace" /\ ev[h].kind = "prompt"
     => data.session
  /\ hook[h].at \in Opens => data.trace = h
  /\ hook[h].at \in Early \cup Exports =>
       /\ \A m \in hook[h].lines : m > data.line
       /\ hook[h].command \in {NoHook, data.command}
  /\ hook[h].at \in Exports \ {"number"} => hook[h].number = data.count
  /\ hook[h].at = "recheck" /\ ~mode.down => data.trace = NoHook
  /\ "end" \notin mode.kinds =>
       /\ hook[h].at \in {"setSession", "setCount"} => NoTurnYet
       /\ hook[h].at = "open" => \A s \in spans : IsRoot(s) => s.number < data.count

(* The trees sent of the open turn have ids that are stored.               *)
IdsStored ==
  /\ data.trace = NoHook => data.ids = {}
  /\ OneIdEach(data.ids)
  /\ ~mode.faults => \A s \in spans : s.kind = "tree" =>
       s.trace # NoHook /\ (s.trace = data.trace => s.ids \subseteq data.ids)

(* What was sent of earlier turns lies before the open one.                *)
TurnsInOrder ==
  /\ data.trace # NoHook => data.session
  /\ \A s \in spans : s.lines \subseteq DOMAIN log
  /\ data.trace # NoHook /\ (\A h \in Hooks : hook[h].at \notin Opens) =>
       \A s \in spans : s.trace # data.trace => \A m \in s.lines : m <= data.line
  /\ \A s \in spans :
       s.ok /\ s.command # NoHook /\ s.command = data.command =>
         \E h \in Hooks : hook[h].at = "ack"
  /\ \A s \in spans : IsRoot(s) => s.trace # NoHook /\ s.number \in Nat
  /\ "end" \notin mode.kinds =>
       /\ ~data.session => NoTurnYet
       /\ \A s \in spans : IsRoot(s) =>
            s.number <= data.count /\ (data.trace \notin {NoHook, s.trace} => s.number < data.count)

AnyInv ==
  StagesOfKinds /\ KindsOccur /\ TracesOpened /\ CommandsStashed /\ BystandersCarryNothing /\ OneWaits

SerialInv ==
  /\ AnyInv
  /\ Serial => IdsStored /\ \A h \in Hooks : Waits(h) => HoldsTurn(h)
  /\ Orderly => TurnsInOrder /\ \A h \in Hooks : Waits(h) => KeepsOrder(h)
  /\ StableIds /\ TurnsShareNothing

LEMMA NextKinds ==
  ASSUME NEW e, NEW at, KindOf(e, at)
  PROVE  /\ KindOf(e, First(e))
         /\ KindOf(e, Exported(e))
         /\ at = "trace" => KindOf(e, Traced(e))
         /\ at = "span" => KindOf(e, Spanned(e))
         /\ KindOf(e, AfterUpdate(e, at)) /\ KindOf(e, AfterDrop(e, at))
         /\ \A s \in {"done", "pending", "recheck", "count"} : KindOf(e, s)
<1>1. KindOf(e, First(e))
  BY DEF First, KindOf, Exports, Waited
<1>2. Exported(e) \in {"done", "recheck"} /\ KindOf(e, Exported(e))
  BY DEF Exported, KindOf, Exports
<1>3. at = "trace" => KindOf(e, Traced(e))
  BY DEF Traced, KindOf, Exports
<1>4. at = "span" => KindOf(e, Spanned(e))
  BY DEF Spanned, KindOf, Exports, Waited
<1>5. Ensured(e) \in {"done", "pending"}
  BY DEF Ensured
<1>6. /\ AfterUpdate(e, at) \in {"setCount", "done", "pending", "open", "openSpan", "openLine",
                                 "recheck", "send", "result"}
      /\ AfterUpdate(e, at) = "send" => at = "setIds"
      /\ AfterUpdate(e, at) = "result" => at = "start"
  BY <1>2, <1>5 DEF AfterUpdate
<1>7. KindOf(e, AfterUpdate(e, at))
  BY <1>6 DEF KindOf, Exports
<1>8. KindOf(e, AfterDrop(e, at))
  BY <1>7 DEF AfterDrop, KindOf, Exports
<1> QED
  BY <1>1, <1>2, <1>3, <1>4, <1>7, <1>8 DEF KindOf, Exports

-----------------------------------------------------------------------------
(* A step of one hook, and the others *)

(* Nothing of the dict changes but the buffer.                             *)
BufferOnly ==
  /\ data'.session = data.session /\ data'.count = data.count /\ data'.trace = data.trace
  /\ data'.span = data.span /\ data'.line = data.line /\ data'.command = data.command
  /\ data'.ids = data.ids

(* Where hook h comes to s, with l, the parts of the invariant that hold   *)
(* in any environment are kept.                                            *)
LEMMA AnyKept ==
  ASSUME TurnInv, SerialInv, NEW h \in Hooks, NEW s \in Stages \ {"new"}, NEW l \in LocalType,
         Running(h), Continue(h, s, l), mode' = mode, ev' = ev,
         KindOf(ev[h], s),
         hook[h].at \in Opens => s \in Opens \cup {"done"},
         ev[h].kind \notin Waited => l.lines = {} /\ l.command = NoHook,
         l.trace \in {NoHook, hook[h].trace, data.trace},
         l.command \in {NoHook, hook[h].command, data.command},
         data'.trace \in {NoHook, data.trace} \/ (data'.trace = h /\ s = "openSpan"),
         data'.command \in {NoHook, data.command} \/ (data'.command = h /\ s = "done"),
         \A x \in spans' : x \in spans \/ (x.trace = hook[h].trace /\ x.command = hook[h].command)
  PROVE  AnyInv'
<1>1. /\ hook' \in [Hooks -> LocalType]
      /\ \A o \in Hooks : o # h => hook'[o] = hook[o]
      /\ s # "done" => hook'[h] = [l EXCEPT !.at = s]
      /\ hook'[h].at = s
  BY ContinueType DEF TurnInv, ClaudeTypeOK
<1>2. s = "done" => hook'[h] = Idle("done")
  BY DEF Continue, TurnInv, ClaudeTypeOK
<1>3. /\ hook'[h].trace \in {NoHook, l.trace} /\ hook'[h].command \in {NoHook, l.command}
      /\ hook'[h].lines \in {{}, l.lines}
  <2>1. CASE s = "done"
    BY <1>2, <2>1 DEF Idle
  <2>2. CASE s # "done"
    BY <1>1, <2>2 DEF LocalType
  <2> QED
    BY <2>1, <2>2
<1>4. NoHook \notin Hooks
  BY ClaudeAssumption
<1>5. StagesOfKinds'
  BY <1>1 DEF SerialInv, AnyInv, StagesOfKinds
<1>6. TracesOpened'
  <2> SUFFICES ASSUME NEW t \in Hooks,
                      \/ data'.trace = t
                      \/ \E o \in Hooks : hook'[o].trace = t
                      \/ \E x \in spans' : x.trace = t
               PROVE  hook'[t].at \in Opens \cup {"done"}
    BY DEF TracesOpened
  <2>1. \/ data.trace = t
        \/ \E o \in Hooks : hook[o].trace = t
        \/ \E x \in spans : x.trace = t
        \/ (t = h /\ s = "openSpan")
    BY <1>1, <1>3, <1>4
  <2>2. hook[t].at \in Opens \cup {"done"} \/ (t = h /\ s = "openSpan")
    BY <2>1 DEF SerialInv, AnyInv, TracesOpened
  <2> QED
    BY <2>2, <1>1 DEF Running, Opens
<1>7. CommandsStashed'
  <2> SUFFICES ASSUME NEW c \in Hooks,
                      \/ data'.command = c
                      \/ \E o \in Hooks : hook'[o].command = c
                      \/ \E x \in spans' : x.command = c
               PROVE  hook'[c].at = "done"
    BY DEF CommandsStashed
  <2>1. \/ data.command = c
        \/ \E o \in Hooks : hook[o].command = c
        \/ \E x \in spans : x.command = c
        \/ (c = h /\ s = "done")
    BY <1>1, <1>3, <1>4
  <2>2. hook[c].at = "done" \/ (c = h /\ s = "done")
    BY <2>1 DEF SerialInv, AnyInv, CommandsStashed
  <2> QED
    BY <2>2, <1>1 DEF Running
<1>8. BystandersCarryNothing'
  BY <1>1, <1>3 DEF SerialInv, AnyInv, BystandersCarryNothing
<1>9. OneWaits'
  BY <1>1 DEF SerialInv, AnyInv, OneWaits, Waits, Running, Serial
<1>10. KindsOccur'
  BY <1>1 DEF SerialInv, AnyInv, KindsOccur, Running
<1> QED
  BY <1>5, <1>6, <1>7, <1>8, <1>9, <1>10 DEF AnyInv

(* A bystander changes nothing that the others rely on.                    *)
LEMMA BystanderMoves ==
  ASSUME TurnInv, SerialInv, NEW h \in Hooks, NEW s \in Stages \ {"new"}, NEW l \in LocalType,
         Running(h), ev[h].kind \notin Waited, Continue(h, s, l), UNCHANGED <<mode, log, ev>>,
         KindOf(ev[h], s), s \notin Opens,
         l.lines = {}, l.command = NoHook, l.trace \in {NoHook, hook[h].trace, data.trace},
         BufferOnly, spans \subseteq spans',
         \A x \in spans' \ spans :
           x.kind = "note" /\ x.lines = {} /\ x.command = NoHook /\ x.trace = hook[h].trace
  PROVE  SerialInv'
<1>1. /\ \A o \in Hooks : o # h => hook'[o] = hook[o]
      /\ hook'[h].at = s
  BY ContinueType DEF TurnInv, ClaudeTypeOK
<1>2. hook[h].command = NoHook /\ hook[h].at \notin Opens \cup {"ack"} /\ s # "ack"
  BY DEF SerialInv, AnyInv, BystandersCarryNothing, TurnInv, KindsOfStages, KindAt, Opens,
         StagesOfKinds, KindOf, Exports, Waited
<1>3. \A x \in spans' : IsRoot(x) => x \in spans
  BY DEF IsRoot
<1>4. AnyInv'
  <2>1. hook[h].at \in Opens => s \in Opens \cup {"done"}
    BY <1>2
  <2>2. data'.trace = data.trace /\ data'.command = data.command
    BY DEF BufferOnly
  <2>3. l.command \in {NoHook, hook[h].command, data.command}
    OBVIOUS
  <2>4. \A x \in spans' : x \in spans \/ (x.trace = hook[h].trace /\ x.command = hook[h].command)
    BY <1>2
  <2> QED
    BY <2>1, <2>2, <2>3, <2>4, AnyKept
<1>5. \A o \in Hooks : Waits(o)' => o # h /\ Waits(o) /\ hook'[o] = hook[o]
  BY <1>1 DEF Waits, Running
<1>6. Serial' = Serial /\ Orderly' = Orderly
  BY DEF Serial, Orderly
<1>7. \A o \in Hooks : Waits(o)' /\ HoldsTurn(o) => HoldsTurn(o)'
  BY <1>5 DEF BufferOnly, HoldsTurn
<1>8. ASSUME NEW o \in Hooks, Waits(o)', KeepsOrder(o)
      PROVE  KeepsOrder(o)'
  <2>1. NoTurnYet => NoTurnYet'
    BY <1>3 DEF NoTurnYet, BufferOnly
  <2> QED
    BY <2>1, <1>3, <1>5, <1>8 DEF BufferOnly, KeepsOrder
<1>9. IdsStored => IdsStored'
  BY DEF IdsStored, BufferOnly
<1>10. ASSUME TurnsInOrder
       PROVE  TurnsInOrder'
  <2>1. \A o \in Hooks : (hook'[o].at \in Opens <=> hook[o].at \in Opens)
                         /\ (hook[o].at = "ack" => hook'[o].at = "ack")
    BY <1>1, <1>2, AnyKept DEF Opens
  <2>2. \A x \in spans' : x.lines \subseteq DOMAIN log
    BY <1>10 DEF TurnsInOrder
  <2>3. NoTurnYet => NoTurnYet'
    BY <1>3 DEF NoTurnYet, BufferOnly
  <2>4. data.trace # NoHook /\ (\A o \in Hooks : hook[o].at \notin Opens) =>
          \A x \in spans' : x.trace # data.trace => \A m \in x.lines : m <= data.line
    BY <1>10 DEF TurnsInOrder
  <2>5. \A x \in spans' : x.ok /\ x.command # NoHook /\ x.command = data.command =>
          \E o \in Hooks : hook'[o].at = "ack"
    BY <2>1, <1>10 DEF TurnsInOrder
  <2>6. data'.trace # NoHook => data'.session
    BY <1>10 DEF TurnsInOrder, BufferOnly
  <2>7. \A x \in spans' : IsRoot(x) => x.trace # NoHook /\ x.number \in Nat
    BY <1>3, <1>10 DEF TurnsInOrder
  <2>8. "end" \notin mode'.kinds =>
          /\ ~data'.session => NoTurnYet'
          /\ \A x \in spans' : IsRoot(x) =>
               x.number <= data'.count
               /\ (data'.trace \notin {NoHook, x.trace} => x.number < data'.count)
    BY <2>3, <1>3, <1>10 DEF TurnsInOrder, BufferOnly
  <2> QED
    BY <2>1, <2>2, <2>4, <2>5, <2>6, <2>7, <2>8 DEF TurnsInOrder, BufferOnly
<1>11. StableIds'
  BY <1>6 DEF SerialInv, StableIds
<1>12. TurnsShareNothing'
  <2> SUFFICES ASSUME Orderly, NEW x \in spans', NEW y \in spans', x.trace # y.trace
               PROVE  /\ x.ok /\ y.ok => x.lines \cap y.lines = {}
                      /\ x.ok /\ y.ok /\ x.command = y.command => x.command = NoHook
                      /\ IsRoot(x) /\ IsRoot(y) /\ x.number = y.number => "end" \in mode.kinds
    BY <1>6 DEF TurnsShareNothing
  <2>1. CASE x \in spans /\ y \in spans
    BY <2>1 DEF SerialInv, TurnsShareNothing
  <2>2. CASE x \notin spans \/ y \notin spans
    BY <2>2, <1>3
  <2> QED
    BY <2>1, <2>2
<1> QED
  BY <1>4, <1>5, <1>6, <1>7, <1>8, <1>9, <1>10, <1>11, <1>12 DEF SerialInv, AnyInv

(* While a hook that is waited for takes a step, no other such hook runs:  *)
(* what holds of it holds of all of them.                                  *)
LEMMA WaitedMoves ==
  ASSUME TurnInv, SerialInv, NEW h \in Hooks, NEW s \in Stages \ {"new"}, NEW l \in LocalType,
         Waits(h), Continue(h, s, l), mode' = mode, ev' = ev,
         AnyInv',
         Serial => IdsStored' /\ HoldsTurn(h)',
         Orderly => TurnsInOrder' /\ KeepsOrder(h)',
         StableIds', TurnsShareNothing'
  PROVE  SerialInv'
<1>1. \A o \in Hooks : o # h => hook'[o] = hook[o]
  BY ContinueType DEF TurnInv, ClaudeTypeOK
<1>2. Serial' = Serial /\ Orderly' = Orderly
  BY DEF Serial, Orderly
<1>3. \A o \in Hooks : Serial /\ Waits(o)' => o = h
  BY <1>1 DEF SerialInv, AnyInv, OneWaits, Waits, Running
<1> QED
  BY <1>2, <1>3 DEF SerialInv, Orderly

(* A hook that is waited for reads something, or does not come to its      *)
(* update: the dict and what was sent are as before.                       *)
LEMMA WaitedReads ==
  ASSUME TurnInv, SerialInv, NEW h \in Hooks, NEW s \in Stages \ {"new"}, NEW l \in LocalType,
         Waits(h), Continue(h, s, l), UNCHANGED <<mode, data, log, ev, spans>>,
         KindOf(ev[h], s),
         hook[h].at \in Opens => s \in Opens \cup {"done"},
         l.trace \in {NoHook, hook[h].trace, data.trace},
         l.command \in {NoHook, hook[h].command, data.command},
         Serial => HoldsTurn(h)',
         Orderly => hook[h].at \notin Opens \cup {"ack"} /\ s \notin Opens /\ KeepsOrder(h)'
  PROVE  SerialInv'
<1>1. /\ \A o \in Hooks : o # h => hook'[o] = hook[o]
      /\ hook'[h].at = s
  BY ContinueType DEF TurnInv, ClaudeTypeOK
<1>2. AnyInv'
  <2>1. Running(h) /\ ev[h].kind \in Waited
    BY DEF Waits
  <2>2. data'.trace \in {NoHook, data.trace} /\ data'.command \in {NoHook, data.command}
    OBVIOUS
  <2>3. \A x \in spans' : x \in spans \/ (x.trace = hook[h].trace /\ x.command = hook[h].command)
    OBVIOUS
  <2> QED
    BY <2>1, <2>2, <2>3, AnyKept
<1>3. Serial => IdsStored'
  BY DEF SerialInv, IdsStored
<1>4. Orderly => TurnsInOrder'
  <2> SUFFICES ASSUME Orderly
               PROVE  TurnsInOrder'
    OBVIOUS
  <2>1. \A o \in Hooks : (hook'[o].at \in Opens <=> hook[o].at \in Opens)
                         /\ (hook[o].at = "ack" => hook'[o].at = "ack")
    BY <1>1 DEF Opens
  <2>2. TurnsInOrder
    BY DEF SerialInv
  <2>3. NoTurnYet' = NoTurnYet
    BY DEF NoTurnYet
  <2> QED
    BY <2>1, <2>2, <2>3 DEF TurnsInOrder
<1>5. StableIds' /\ TurnsShareNothing'
  BY DEF SerialInv, StableIds, TurnsShareNothing, Serial, Orderly
<1> QED
  BY <1>2, <1>3, <1>4, <1>5, WaitedMoves

(* Where a hook has come to, and with what.                                *)
LEMMA Moved ==
  ASSUME TurnInv, NEW h \in Hooks, NEW s \in Stages \ {"new"}, NEW l \in LocalType,
         Continue(h, s, l)
  PROVE  /\ hook'[h].at = s
         /\ \A o \in Hooks : o # h => hook'[o] = hook[o]
         /\ s # "done" => /\ hook'[h].trace = l.trace /\ hook'[h].lines = l.lines
                          /\ hook'[h].command = l.command /\ hook'[h].number = l.number
                          /\ hook'[h].tree = l.tree /\ hook'[h].ids = l.ids
<1>1. /\ \A o \in Hooks : o # h => hook'[o] = hook[o]
      /\ s # "done" => hook'[h] = [l EXCEPT !.at = s]
      /\ hook'[h].at = s
  BY ContinueType DEF TurnInv, ClaudeTypeOK
<1> QED
  BY <1>1 DEF LocalType

(* A hook that is waited for has changed the dict and sent nothing.        *)
LEMMA WaitedUpdates ==
  ASSUME TurnInv, SerialInv, NEW h \in Hooks, NEW s \in Stages \ {"new"},
         Waits(h), Goto(h, s), UNCHANGED <<mode, log, ev, spans>>,
         KindOf(ev[h], s),
         hook[h].at \in Opens => s \in Opens \cup {"done"},
         data'.trace \in {NoHook, data.trace} \/ (data'.trace = h /\ s = "openSpan"),
         data'.command \in {NoHook, data.command} \/ (data'.command = h /\ s = "done"),
         Serial => IdsStored' /\ HoldsTurn(h)',
         Orderly => TurnsInOrder' /\ KeepsOrder(h)'
  PROVE  SerialInv'
<1>1. Running(h) /\ ev[h].kind \in Waited /\ hook[h] \in LocalType /\ Continue(h, s, hook[h])
  BY Fields DEF Waits, Goto
<1>2. \A x \in spans' : x \in spans \/ (x.trace = hook[h].trace /\ x.command = hook[h].command)
  OBVIOUS
<1>3. AnyInv'
  BY <1>1, <1>2, AnyKept
<1>4. StableIds' /\ TurnsShareNothing'
  BY DEF SerialInv, StableIds, TurnsShareNothing, Serial, Orderly
<1> QED
  BY <1>1, <1>3, <1>4, WaitedMoves

-----------------------------------------------------------------------------
(* The steps, while Claude Code waits *)

LEMMA SerialInit ==
  ASSUME Init
  PROVE  SerialInv
<1>1. TurnInv
  BY InitInv
<1>2. \A h \in Hooks : /\ hook[h].at = "new" /\ hook[h].trace = NoHook /\ hook[h].lines = {}
                       /\ hook[h].command = NoHook /\ ev[h].kind = "note"
  BY DEF Init, Idle
<1>3. data.trace = NoHook /\ data.command = NoHook /\ data.ids = {} /\ spans = {}
  BY DEF Init, NoData
<1>4. NoHook \notin Hooks
  BY ClaudeAssumption
<1>5. AnyInv
  BY <1>2, <1>3, <1>4 DEF AnyInv, StagesOfKinds, KindsOccur, KindOf, Exports, TracesOpened, CommandsStashed,
                          BystandersCarryNothing, OneWaits, Waits, Running
<1>6. IdsStored /\ TurnsInOrder
  BY <1>3 DEF IdsStored, TurnsInOrder, OneIdEach, NoTurnYet
<1>7. \A h \in Hooks : ~Waits(h)
  BY <1>2 DEF Waits, Running
<1> QED
  BY <1>3, <1>5, <1>6, <1>7 DEF SerialInv, AnyInv, StableIds, TurnsShareNothing

LEMMA SerialStart ==
  ASSUME TurnInv, SerialInv, NEW h \in Hooks, NEW k \in Kinds, NEW i \in Items \cup {NoItem},
         Start(h, k, i)
  PROVE  SerialInv'
<1> DEFINE s == First(ev'[h])
<1>1. /\ \A o \in Hooks : o # h => ev'[o] = ev[o]
      /\ ev'[h].kind = k /\ hook[h].at = "new"
      /\ UNCHANGED <<mode, data, log, spans>>
  BY DEF TurnInv, ClaudeTypeOK, Start, history
<1>2. s \in {"ensure", "stash", "done", "start", "trace", "lookup", "remove"} /\ KindOf(ev'[h], s)
      /\ (s = "trace" => k # "prompt")
  <2>1. KindOf(ev'[h], "new")
    BY DEF KindOf, Exports
  <2>2. s \in {"ensure", "stash", "done", "start", "trace", "lookup", "remove"}
        /\ (s = "trace" => k # "prompt")
    BY <1>1 DEF First
  <2> QED
    BY <2>1, <2>2, NextKinds
<1>3. Continue(h, s, Idle("new")) /\ Idle("new") \in LocalType
  BY IdleType DEF Start, Stages
<1>4. /\ Idle("new").trace = NoHook /\ Idle("new").lines = {} /\ Idle("new").command = NoHook
      /\ Idle("done").trace = NoHook /\ Idle("done").lines = {} /\ Idle("done").command = NoHook
  BY DEF Idle
<1>5. /\ \A o \in Hooks : o # h => hook'[o] = hook[o]
      /\ hook'[h].at = s /\ hook'[h].trace = NoHook /\ hook'[h].lines = {}
      /\ hook'[h].command = NoHook
  <2>1. s \in Stages \ {"new"}
    BY <1>2 DEF Stages, Updates
  <2>2. s = "done" => hook'[h] = Idle("done")
    BY <1>3 DEF Continue, TurnInv, ClaudeTypeOK
  <2> HIDE DEF s
  <2> QED
    BY <2>1, <2>2, <1>3, <1>4, Moved
<1>6. s \notin Exports \cup Opens \cup {"span"}
  BY <1>2 DEF Exports, Opens
<1> HIDE DEF s
<1>7. StagesOfKinds' /\ KindsOccur' /\ BystandersCarryNothing'
  BY <1>1, <1>2, <1>5 DEF SerialInv, AnyInv, StagesOfKinds, KindsOccur, Running, Start,
                          BystandersCarryNothing
<1>8. TracesOpened' /\ CommandsStashed'
  <2>1. NoHook \notin Hooks /\ hook[h].at \notin Opens \cup {"done"}
    BY <1>1, ClaudeAssumption DEF Opens
  <2>2. TracesOpened'
    BY <2>1, <1>1, <1>5 DEF SerialInv, AnyInv, TracesOpened
  <2>3. CommandsStashed'
    BY <2>1, <1>1, <1>5 DEF SerialInv, AnyInv, CommandsStashed
  <2> QED
    BY <2>2, <2>3
<1>9. Serial' = Serial /\ Orderly' = Orderly /\ NoTurnYet' = NoTurnYet
  BY <1>1 DEF Serial, Orderly, NoTurnYet
<1>10. OneWaits'
  <2>1. Serial /\ k \in Waited => \A o \in Hooks : ~Waits(o)
    BY DEF Start, Waits, Serial, Waited
  <2> QED
    BY <2>1, <1>1, <1>5, <1>9 DEF SerialInv, AnyInv, OneWaits, Waits, Running
<1>11. HoldsTurn(h)' /\ KeepsOrder(h)'
  BY <1>1, <1>2, <1>5, <1>6 DEF HoldsTurn, KeepsOrder, Exports
<1>12. \A o \in Hooks : Waits(o)' => o = h \/ (Waits(o) /\ hook'[o] = hook[o] /\ ev'[o] = ev[o])
  BY <1>1, <1>5 DEF Waits, Running
<1>13. \A o \in Hooks : Waits(o)' => /\ o = h \/ HoldsTurn(o) => HoldsTurn(o)'
                                     /\ o = h \/ KeepsOrder(o) => KeepsOrder(o)'
  BY <1>1, <1>9, <1>11, <1>12 DEF HoldsTurn, KeepsOrder
<1>14. \A o \in Hooks : (hook'[o].at \in Opens <=> hook[o].at \in Opens)
                        /\ (hook[o].at = "ack" => hook'[o].at = "ack")
  BY <1>1, <1>5, <1>6 DEF Opens
<1>15. TurnsInOrder => TurnsInOrder'
  BY <1>1, <1>9, <1>14 DEF TurnsInOrder
<1>16. (IdsStored => IdsStored') /\ StableIds' /\ TurnsShareNothing'
  BY <1>1, <1>9 DEF SerialInv, IdsStored, StableIds, TurnsShareNothing
<1> QED
  BY <1>7, <1>8, <1>9, <1>10, <1>12, <1>13, <1>15, <1>16 DEF SerialInv, AnyInv

LEMMA SerialWrite ==
  ASSUME TurnInv, SerialInv, NEW i \in Items \cup {NoItem}, Write(i)
  PROVE  SerialInv'
<1>1. UNCHANGED <<mode, data, ev, hook, spans>> /\ DOMAIN log \subseteq DOMAIN log'
  BY DEF TurnInv, ClaudeTypeOK, Write, history
<1>2. Serial' = Serial /\ Orderly' = Orderly /\ NoTurnYet' = NoTurnYet
  BY <1>1 DEF Serial, Orderly, NoTurnYet
<1>3. TurnsInOrder => TurnsInOrder'
  BY <1>1, <1>2 DEF TurnsInOrder
<1>4. AnyInv'
  BY <1>1, <1>2 DEF SerialInv, AnyInv, StagesOfKinds, KindsOccur, TracesOpened, CommandsStashed,
                    BystandersCarryNothing, OneWaits, Waits, Running
<1>5. \A h \in Hooks : /\ Waits(h)' => Waits(h)
                       /\ HoldsTurn(h) => HoldsTurn(h)'
                       /\ KeepsOrder(h) => KeepsOrder(h)'
  BY <1>1, <1>2 DEF Waits, Running, HoldsTurn, KeepsOrder
<1>6. (IdsStored => IdsStored') /\ StableIds' /\ TurnsShareNothing'
  BY <1>1, <1>2 DEF SerialInv, IdsStored, StableIds, TurnsShareNothing
<1> QED
  BY <1>2, <1>3, <1>4, <1>5, <1>6 DEF SerialInv, AnyInv

(* What a hook that is waited for knows of its own turn and of the dict.   *)
LEMMA Knows ==
  ASSUME TurnInv, SerialInv, NEW h \in Hooks
  PROVE  /\ hook[h] \in LocalType /\ data \in DataType /\ ev[h].kind \in Kinds
         /\ KindAt(ev[h], hook[h].at) /\ KindOf(ev[h], hook[h].at)
         /\ hook[h].at \notin {"new", "done"} => Running(h)
         /\ Running(h) /\ ev[h].kind \in Waited => Waits(h)
         /\ Serial => IdsStored
         /\ Serial /\ Waits(h) => HoldsTurn(h)
         /\ Orderly => TurnsInOrder
         /\ Orderly /\ Waits(h) => KeepsOrder(h)
         /\ ev[h].kind \notin Waited => hook[h].lines = {} /\ hook[h].command = NoHook
BY Fields DEF SerialInv, AnyInv, StagesOfKinds, BystandersCarryNothing, Waits, TurnInv, ClaudeTypeOK

LEMMA SerialSessionReads ==
  ASSUME TurnInv, SerialInv, NEW h \in Hooks,
         Ensure(h) \/ Pending(h) \/ Recheck(h) \/ Lookup(h)
  PROVE  SerialInv'
<1>1. CASE Ensure(h)
  <2> DEFINE s == IF data.session THEN Ensured(ev[h]) ELSE "setSession"
  <2>1. /\ hook[h].at = "ensure" /\ Continue(h, s, hook[h])
        /\ UNCHANGED <<mode, data, log, ev, spans>>
    BY <1>1 DEF Ensure, Goto, history
  <2>2. Waits(h) /\ ev[h].kind \in {"session", "prompt"}
    BY <2>1, Knows DEF KindAt, Waited, Waits
  <2>3. /\ s \in {"pending", "done", "setSession"} /\ (s = "pending" => data.session)
        /\ s = "setSession" => ~data.session
    BY Knows DEF Ensured, DataType
  <2>4. KindOf(ev[h], s) /\ s \in Stages \ {"new"}
    BY <2>3 DEF KindOf, Exports, Stages, Updates
  <2> HIDE DEF s
  <2>5. hook'[h].at = s /\ (s # "done" => hook'[h].lines = hook[h].lines
                                           /\ hook'[h].command = hook[h].command)
    BY <2>1, <2>4, Knows, Moved
  <2>6. HoldsTurn(h)'
    BY <2>3, <2>5 DEF HoldsTurn, Exports
  <2>7. Orderly => KeepsOrder(h)'
    BY <2>1, <2>2, <2>3, <2>5, Knows DEF KeepsOrder, TurnsInOrder, Exports, Opens, Early, NoTurnYet
  <2> QED
    BY <2>1, <2>2, <2>3, <2>4, <2>6, <2>7, Knows, WaitedReads DEF Opens
<1>2. CASE Pending(h)
  <2> DEFINE s == IF data.trace = NoHook THEN "count" ELSE "trace"
  <2>1. /\ hook[h].at = "pending" /\ Continue(h, s, hook[h])
        /\ UNCHANGED <<mode, data, log, ev, spans>>
    BY <1>2 DEF Pending, Goto, history
  <2>2. Waits(h) /\ ev[h].kind = "prompt"
    BY <2>1, Knows DEF KindAt, Waited, Waits
  <2>3. s \in {"count", "trace"}
    OBVIOUS
  <2>4. KindOf(ev[h], s) /\ s \in Stages \ {"new"}
    BY <2>2, <2>3 DEF KindOf, Exports, Stages, Updates
  <2> HIDE DEF s
  <2>5. hook'[h].at = s /\ hook'[h].lines = hook[h].lines /\ hook'[h].command = hook[h].command
    BY <2>1, <2>3, <2>4, Knows, Moved
  <2>6. HoldsTurn(h)'
    BY <2>3, <2>5 DEF HoldsTurn, Exports
  <2>7. Orderly => KeepsOrder(h)'
    BY <2>1, <2>2, <2>3, <2>5, Knows DEF KeepsOrder, Exports, Opens, Early
  <2> QED
    BY <2>1, <2>2, <2>3, <2>4, <2>6, <2>7, Knows, WaitedReads DEF Opens
<1>3. CASE Recheck(h)
  <2> DEFINE s == IF data.trace = NoHook THEN "count" ELSE "done"
  <2>1. /\ hook[h].at = "recheck" /\ Continue(h, s, hook[h])
        /\ UNCHANGED <<mode, data, log, ev, spans>>
    BY <1>3 DEF Recheck, Goto, history
  <2>2. Waits(h) /\ ev[h].kind = "prompt"
    BY <2>1, Knows DEF KindAt, Waited, Waits
  <2>3. s \in {"count", "done"}
    OBVIOUS
  <2>4. KindOf(ev[h], s) /\ s \in Stages \ {"new"}
    BY <2>2, <2>3 DEF KindOf, Exports, Stages, Updates
  <2> HIDE DEF s
  <2>5. hook'[h].at = s
    BY <2>1, <2>3, <2>4, Knows, Moved
  <2>6. HoldsTurn(h)'
    BY <2>3, <2>5 DEF HoldsTurn, Exports
  <2>7. Orderly => KeepsOrder(h)'
    BY <2>1, <2>2, <2>3, <2>5, Knows DEF KeepsOrder, Exports, Opens, Early
  <2> QED
    BY <2>1, <2>2, <2>3, <2>4, <2>6, <2>7, Knows, WaitedReads DEF Opens
<1>4. CASE Lookup(h)
  <2>1. PICK s \in {"done", "start", "result"} : Continue(h, s, hook[h])
    BY <1>4 DEF Lookup, Goto
  <2>2. hook[h].at = "lookup" /\ UNCHANGED <<mode, data, log, ev, spans>>
    BY <1>4 DEF Lookup, history
  <2>3. Running(h) /\ ev[h].kind \notin Waited
    BY <2>2, Knows DEF KindOf
  <2>4. KindOf(ev[h], s) /\ s \in Stages \ {"new"} /\ s \notin Opens
    BY <2>3 DEF KindOf, Exports, Stages, Updates, Opens
  <2> QED
    BY <2>1, <2>2, <2>3, <2>4, Knows, BystanderMoves DEF BufferOnly
<1> QED
  BY <1>1, <1>2, <1>3, <1>4

LEMMA SerialTurnReads ==
  ASSUME TurnInv, SerialInv, NEW h \in Hooks, GetTrace(h) \/ GetSpan(h) \/ GetNumber(h)
  PROVE  SerialInv'
<1>1. CASE GetTrace(h)
  <2> DEFINE turn == data.trace # NoHook \/ ev[h].kind = "post"
             session == data.session \/ ev[h].kind \in {"note", "agent"}
             s == IF turn /\ session THEN Traced(ev[h]) ELSE Exported(ev[h])
             l == [hook[h] EXCEPT !.trace = data.trace]
  <2>1. /\ hook[h].at = "trace" /\ Continue(h, s, l)
        /\ UNCHANGED <<mode, data, log, ev, spans>>
    BY <1>1 DEF GetTrace, history
  <2>2. /\ s \in {"descriptor", "span", "recheck", "done"}
        /\ s = "recheck" => ev[h].kind = "prompt" /\ ~(turn /\ session)
        /\ s = "descriptor" => ev[h].kind = "agent"
        /\ s = "span" => turn /\ session
    BY DEF Traced, Exported
  <2>3. /\ l \in LocalType /\ l.trace = data.trace /\ l.lines = hook[h].lines
        /\ l.command = hook[h].command
    BY Knows DEF LocalType, DataType
  <2>4. KindOf(ev[h], s) /\ s \in Stages \ {"new"} /\ s \notin Opens \cup Exports
    BY <2>1, <2>2, Knows DEF KindOf, Exports, Stages, Updates, Opens
  <2>5. CASE ev[h].kind \notin Waited
    <3> HIDE DEF s, l
    <3> QED
      BY <2>1, <2>3, <2>4, <2>5, Knows, BystanderMoves DEF BufferOnly
  <2>6. CASE ev[h].kind \in Waited
    <3>1. Waits(h) /\ ev[h].kind \in {"prompt", "stop", "failure"}
      BY <2>1, <2>6, Knows DEF KindOf, Waited
    <3>2. s \in {"span", "recheck", "done"} /\ (s = "span" => data.trace # NoHook /\ data.session)
          /\ (s = "recheck" => data.trace = NoHook \/ ~data.session)
      BY <2>2, <3>1
    <3> HIDE DEF s, l
    <3>3. hook'[h].at = s /\ (s # "done" => /\ hook'[h].lines = hook[h].lines
                                            /\ hook'[h].command = hook[h].command
                                            /\ hook'[h].trace = data.trace)
      BY <2>1, <2>3, <2>4, Moved
    <3>4. HoldsTurn(h)'
      BY <2>1, <2>4, <3>2, <3>3 DEF HoldsTurn, Exports
    <3>5. Orderly => KeepsOrder(h)'
      BY <2>1, <2>2, <2>4, <3>1, <3>2, <3>3, Knows DEF KeepsOrder, Exports, Opens, Early
    <3> QED
      BY <2>1, <2>3, <2>4, <3>1, <3>4, <3>5, WaitedReads DEF Opens
  <2> QED
    BY <2>5, <2>6
<1>2. CASE GetSpan(h)
  <2> DEFINE s == Spanned(ev[h])
  <2>1. PICK v \in Owner :
          /\ Continue(h, s, [hook[h] EXCEPT !.span = v])
          /\ hook[h].at = "span" /\ UNCHANGED <<mode, data, log, ev, spans>>
    BY <1>2, Knows DEF GetSpan, history, DataType, Owner
  <2> DEFINE l == [hook[h] EXCEPT !.span = v]
  <2>2. /\ l \in LocalType /\ l.trace = hook[h].trace /\ l.lines = hook[h].lines
        /\ l.command = hook[h].command
    BY Knows DEF LocalType
  <2>3. KindOf(ev[h], s) /\ s \in {"number", "note"} /\ s \in Stages \ {"new"} /\ s \notin Opens
    BY <2>1, Knows, NextKinds DEF Spanned, Stages, Opens
  <2>4. Continue(h, s, l)
    BY <2>1
  <2> HIDE DEF s, l
  <2>5. CASE ev[h].kind \notin Waited
    BY <2>1, <2>2, <2>3, <2>4, <2>5, Knows, BystanderMoves DEF BufferOnly
  <2>6. CASE ev[h].kind \in Waited
    <3>1. Waits(h)
      BY <2>1, <2>6, Knows
    <3>2. /\ hook'[h].at = s /\ hook'[h].lines = hook[h].lines
          /\ hook'[h].command = hook[h].command /\ hook'[h].trace = hook[h].trace
      BY <2>2, <2>3, <2>4, Moved
    <3>3. Serial => HoldsTurn(h)'
      BY <2>1, <2>3, <3>1, <3>2, Knows DEF HoldsTurn
    <3>4. Orderly => KeepsOrder(h)'
      BY <2>1, <2>3, <3>1, <3>2, Knows DEF KeepsOrder, Exports, Opens, Early
    <3> QED
      BY <2>1, <2>2, <2>3, <2>4, <3>1, <3>3, <3>4, WaitedReads DEF Opens
  <2> QED
    BY <2>5, <2>6
<1>3. CASE GetNumber(h)
  <2> DEFINE s == IF ev[h].kind = "failure" THEN "send" ELSE "parse"
             l == [hook[h] EXCEPT !.number = data.count]
  <2>1. /\ hook[h].at = "number" /\ Continue(h, s, l)
        /\ UNCHANGED <<mode, data, log, ev, spans>>
    BY <1>3 DEF GetNumber, history
  <2>2. /\ l \in LocalType /\ l.trace = hook[h].trace /\ l.lines = hook[h].lines
        /\ l.command = hook[h].command /\ l.number = data.count
    BY Knows DEF LocalType, DataType
  <2>3. ev[h].kind \in {"prompt", "stop", "failure"} /\ Waits(h)
    BY <2>1, Knows DEF KindOf, Exports, Waited
  <2>4. KindOf(ev[h], s) /\ s \in Stages \ {"new"} /\ s \in {"send", "parse"}
        /\ (s = "send" => ev[h].kind = "failure")
    BY <2>3 DEF KindOf, Exports, Stages
  <2> HIDE DEF s, l
  <2>5. /\ hook'[h].at = s /\ hook'[h].lines = hook[h].lines /\ hook'[h].number = data.count
        /\ hook'[h].command = hook[h].command /\ hook'[h].trace = hook[h].trace
    BY <2>1, <2>2, <2>4, Moved
  <2>6. Serial => HoldsTurn(h)'
    BY <2>1, <2>3, <2>4, <2>5, Knows DEF HoldsTurn, Exports
  <2>7. Orderly => KeepsOrder(h)'
    BY <2>1, <2>3, <2>4, <2>5, Knows DEF KeepsOrder, Exports, Opens, Early
  <2> QED
    BY <2>1, <2>2, <2>3, <2>4, <2>6, <2>7, WaitedReads DEF Opens
<1> QED
  BY <1>1, <1>2, <1>3

(* What is read of the transcript lies after the line of the open turn,    *)
(* and the ids are those of an earlier attempt and new ones.               *)
LEMMA SerialTreeReads ==
  ASSUME TurnInv, SerialInv, NEW h \in Hooks,
         Parse(h) \/ GetTools(h) \/ GetAgents(h) \/ GetCommand(h) \/ GetIds(h)
  PROVE  SerialInv'
<1>1. SUFFICES ASSUME NEW s \in {"tools", "agents", "command", "ids", "setIds", "send"},
                      NEW l \in LocalType, Continue(h, s, l),
                      UNCHANGED <<mode, data, log, ev, spans>>,
                      hook[h].at \in Exports \ {"number", "setIds", "send", "ack"},
                      l.trace = hook[h].trace, l.number = hook[h].number,
                      l.command \in {hook[h].command, data.command},
                      l.lines \in {hook[h].lines, From(data.line)},
                      s = "setIds" => l.ids = SpanIds(h, l, data.ids),
                      s = "send" => ~l.tree
               PROVE  SerialInv'
  <2>1. hook[h] \in LocalType /\ data \in DataType
    BY Knows
  <2>2. CASE Parse(h)
    <3> DEFINE lines == From(data.line)
               l == [hook[h] EXCEPT !.lines = lines, !.tree = IsTree(lines)]
    <3>1. lines \subseteq DOMAIN log /\ IsTree(lines) \in BOOLEAN
      BY DEF From, IsTree
    <3>2. /\ l \in LocalType /\ l.lines = lines /\ l.trace = hook[h].trace
          /\ l.number = hook[h].number /\ l.command = hook[h].command
      BY <2>1, <3>1 DEF LocalType
    <3>3. Continue(h, Parsed(ev[h], IsTree(lines)), l) /\ hook[h].at = "parse"
          /\ UNCHANGED <<mode, data, log, ev, spans>>
      BY <2>2 DEF Parse, history
    <3>4. Parsed(ev[h], IsTree(lines)) \in {"tools", "command"}
      BY DEF Parsed
    <3> HIDE DEF l
    <3> QED
      BY <3>2, <3>3, <3>4, <1>1 DEF Exports
  <2>3. \A items : /\ Find(h, items) \in LocalType /\ Find(h, items).trace = hook[h].trace
                   /\ Find(h, items).number = hook[h].number
                   /\ Find(h, items).lines = hook[h].lines
                   /\ Find(h, items).command = hook[h].command
    BY <2>1 DEF Find, LocalType, DataType
  <2>4. CASE GetTools(h)
    BY <2>3, <2>4, <1>1 DEF GetTools, history, Exports
  <2>5. CASE GetAgents(h)
    BY <2>3, <2>5, <1>1 DEF GetAgents, history, Exports
  <2>6. CASE GetCommand(h)
    <3> DEFINE l == [hook[h] EXCEPT !.command = data.command]
               s == IF hook[h].tree THEN "ids" ELSE "send"
    <3>1. /\ l \in LocalType /\ l.lines = hook[h].lines /\ l.trace = hook[h].trace
          /\ l.number = hook[h].number /\ l.command = data.command /\ l.tree = hook[h].tree
      BY <2>1 DEF LocalType, DataType
    <3>2. Continue(h, s, l) /\ hook[h].at = "command" /\ UNCHANGED <<mode, data, log, ev, spans>>
      BY <2>6 DEF GetCommand, history
    <3>3. s \in {"ids", "send"} /\ (s = "send" => ~hook[h].tree)
      OBVIOUS
    <3> HIDE DEF l, s
    <3> QED
      BY <3>1, <3>2, <3>3, <1>1 DEF Exports
  <2>7. CASE GetIds(h)
    <3> DEFINE ids == SpanIds(h, hook[h], data.ids)
               l == [hook[h] EXCEPT !.ids = ids]
    <3>1. EventsOf(hook[h]) \subseteq Nat \cup Items
      BY <2>1 DEF EventsOf, ItemsIn, Matched, LocalType
    <3>2. ids \in Ids
      BY <2>1, <3>1 DEF SpanIds, Ids, LocalType, DataType, Owner
    <3> HIDE DEF ids
    <3>3. /\ l \in LocalType /\ l.lines = hook[h].lines /\ l.trace = hook[h].trace
          /\ l.number = hook[h].number /\ l.command = hook[h].command /\ l.ids = ids
          /\ l.found = hook[h].found /\ l.span = hook[h].span
      BY <2>1, <3>2 DEF LocalType
    <3>4. Continue(h, "setIds", l) /\ hook[h].at = "ids" /\ UNCHANGED <<mode, data, log, ev, spans>>
      BY <2>7 DEF GetIds, history, ids
    <3> HIDE DEF l
    <3>5. ids = SpanIds(h, l, data.ids)
      BY <3>3 DEF ids, SpanIds, EventsOf, Matched
    <3> QED
      BY <3>3, <3>4, <3>5, <1>1 DEF Exports
  <2> QED
    BY <2>2, <2>4, <2>5, <2>6, <2>7
<1>2. ev[h].kind \in {"prompt", "stop", "failure"} /\ Waits(h)
  BY <1>1, Knows DEF KindOf, Exports, Waited
<1>3. KindOf(ev[h], s) /\ s \in Stages \ {"new"} /\ s \in Exports \ {"number", "ack"} /\ s \notin Opens
  BY <1>1, <1>2 DEF KindOf, Exports, Stages, Updates, Opens
<1>4. /\ hook'[h].at = s /\ hook'[h].lines = l.lines /\ hook'[h].number = hook[h].number
      /\ hook'[h].command = l.command /\ hook'[h].trace = hook[h].trace
      /\ hook'[h].tree = l.tree /\ hook'[h].ids = l.ids
  BY <1>1, <1>3, Moved
<1>5. Serial /\ s = "setIds" => data.ids \subseteq l.ids /\ OneIdEach(l.ids)
  BY <1>1, Knows DEF SpanIds, OneIdEach, IdsStored
<1>6. Serial => HoldsTurn(h)'
  <2>1. Serial => hook[h].trace = data.trace /\ data.trace # NoHook
    BY <1>1, <1>2, Knows DEF HoldsTurn
  <2> QED
    BY <2>1, <1>1, <1>4, <1>5 DEF HoldsTurn
<1>7. \A m \in From(data.line) : m > data.line
  BY DEF From
<1>8. Orderly => KeepsOrder(h)'
  BY <1>1, <1>2, <1>3, <1>4, <1>7, Knows DEF KeepsOrder, Exports, Opens
<1>9. hook[h].at \notin Opens \cup {"ack"}
  BY <1>1 DEF Exports, Opens
<1> QED
  BY <1>1, <1>2, <1>3, <1>6, <1>8, <1>9, WaitedReads

LEMMA SerialPromptUpdates ==
  ASSUME TurnInv, SerialInv, NEW h \in Hooks,
         SetSession(h) \/ SetCount(h) \/ Count(h) \/ Open(h) \/ OpenSpan(h) \/ OpenLine(h) \/ Stash(h)
  PROVE  SerialInv'
<1> DEFINE at == hook[h].at
           s == AfterUpdate(ev[h], at)
<1>1. /\ at \in {"setSession", "setCount", "count", "open", "openSpan", "openLine", "stash"}
      /\ Goto(h, s) /\ UNCHANGED <<mode, log, ev, spans>>
  BY DEF SetSession, SetCount, Count, Open, OpenSpan, OpenLine, Stash, Update, history
<1>2. Waits(h) /\ (at # "stash" => ev[h].kind \in {"session", "prompt"})
      /\ (at \notin {"setSession", "setCount", "stash"} => ev[h].kind = "prompt")
  BY <1>1, Knows DEF KindAt, KindOf, Waited, Opens
<1>3. /\ at = "setSession" => s = "setCount"
      /\ at = "setCount" => s \in {"pending", "done"}
      /\ at = "count" => s = "open"
      /\ at = "open" => s = "openSpan"
      /\ at = "openSpan" => s = "openLine"
      /\ at \in {"openLine", "stash"} => s = "done"
  BY DEF AfterUpdate, Ensured
<1>4. KindOf(ev[h], s) /\ s \in Stages \ {"new"} /\ s \notin Exports \cup {"trace", "span", "recheck"}
  BY <1>1, <1>3 DEF KindOf, Exports, Stages, Updates
<1>5. hook[h] \in LocalType /\ data \in DataType /\ Continue(h, s, hook[h])
  BY <1>1, Knows DEF Goto
<1>6. (at \in Opens => s \in Opens \cup {"done"}) /\ at # "ack" /\ s # "ack"
  BY <1>1, <1>3 DEF Opens
<1> HIDE DEF s, at
<1>7. /\ hook'[h].at = s
      /\ \A o \in Hooks : o # h => hook'[o] = hook[o]
      /\ s # "done" => hook'[h].lines = hook[h].lines /\ hook'[h].command = hook[h].command
  BY <1>4, <1>5, Moved
<1>8. HoldsTurn(h)'
  BY <1>4, <1>7 DEF HoldsTurn, Exports
<1>9. Serial => IdsStored /\ (at = "open" => data.trace = NoHook)
  BY Knows DEF TurnInv, NoneOpen, Serial, at
<1>10. Orderly => /\ Serial /\ TurnsInOrder /\ KeepsOrder(h)
                  /\ \A o \in Hooks : o # h => hook[o].at \notin Opens
                  /\ \A o \in Hooks : hook[o].at = "ack" <=> hook'[o].at = "ack"
  <2>1. \A o \in Hooks : hook[o].at \in Opens => Waits(o)
    BY Knows DEF Opens, KindAt, Waited
  <2>2. Orderly => Serial
    BY DEF Orderly
  <2> QED
    BY <1>2, <1>6, <1>7, <2>1, <2>2, Knows DEF SerialInv, AnyInv, OneWaits, at
<1>11. \A x \in spans : x.trace # h \/ hook[h].at \in Opens \cup {"done"}
  BY DEF SerialInv, AnyInv, TracesOpened
<1>12. \A x \in spans : x.command # h \/ hook[h].at = "done"
  BY DEF SerialInv, AnyInv, CommandsStashed
<1>13. Len(log) \in Nat /\ DOMAIN log = 1..Len(log) /\ h # NoHook
  BY ClaudeAssumption DEF TurnInv, ClaudeTypeOK
<1> SUFFICES /\ data'.trace = data.trace \/ (data'.trace = h /\ s = "openSpan")
             /\ data'.command = data.command \/ (data'.command = h /\ s = "done")
             /\ Serial => IdsStored'
             /\ Orderly => TurnsInOrder' /\ KeepsOrder(h)'
  BY <1>1, <1>2, <1>4, <1>6, <1>8, WaitedUpdates DEF at
<1>14. CASE SetSession(h)
  <2>1. at = "setSession" /\ data' = [data EXCEPT !.session = TRUE]
    BY <1>14 DEF SetSession, Update, at
  <2>2. /\ data'.session = TRUE /\ data'.trace = data.trace /\ data'.line = data.line
        /\ data'.command = data.command /\ data'.ids = data.ids /\ data'.count = data.count
    BY <2>1, <1>5 DEF DataType
  <2>3. Serial => IdsStored'
    BY <2>2, <1>1, <1>9 DEF IdsStored
  <2>4. Orderly => TurnsInOrder'
    BY <2>1, <2>2, <1>1, <1>3, <1>7, <1>10 DEF TurnsInOrder, NoTurnYet, Opens, at
  <2>5. Orderly => KeepsOrder(h)'
    BY <2>1, <2>2, <1>1, <1>3, <1>7, <1>10 DEF KeepsOrder, NoTurnYet, Exports, Opens, Early, at
  <2> QED
    BY <2>2, <2>3, <2>4, <2>5
<1>15. CASE SetCount(h)
  <2>1. at = "setCount" /\ data' = [data EXCEPT !.count = 0]
    BY <1>15 DEF SetCount, Update, at
  <2>2. /\ data'.session = data.session /\ data'.trace = data.trace /\ data'.line = data.line
        /\ data'.command = data.command /\ data'.ids = data.ids /\ data'.count = 0
    BY <2>1, <1>5 DEF DataType
  <2>3. Serial => IdsStored'
    BY <2>2, <1>1, <1>9 DEF IdsStored
  <2>4. Orderly => TurnsInOrder'
    BY <2>1, <2>2, <1>1, <1>3, <1>7, <1>10 DEF TurnsInOrder, KeepsOrder, NoTurnYet, Opens, at
  <2>5. Orderly => KeepsOrder(h)'
    BY <2>1, <2>2, <1>1, <1>3, <1>7, <1>10 DEF KeepsOrder, Exports, Opens, Early, at
  <2> QED
    BY <2>2, <2>3, <2>4, <2>5
<1>16. CASE Count(h)
  <2>1. at = "count" /\ data' = [data EXCEPT !.count = @ + 1]
    BY <1>16 DEF Count, Update, at
  <2>2. /\ data'.session = data.session /\ data'.trace = data.trace /\ data'.line = data.line
        /\ data'.command = data.command /\ data'.ids = data.ids
        /\ data'.count = data.count + 1 /\ data.count \in Nat
    BY <2>1, <1>5 DEF DataType
  <2>3. Serial => IdsStored'
    BY <2>2, <1>1, <1>9 DEF IdsStored
  <2>4. Orderly => TurnsInOrder'
    BY <2>1, <2>2, <1>1, <1>3, <1>7, <1>10 DEF TurnsInOrder, NoTurnYet, KeepsOrder, Opens, at
  <2>5. Orderly => KeepsOrder(h)'
    BY <2>1, <2>2, <1>1, <1>3, <1>7, <1>10 DEF KeepsOrder, TurnsInOrder, Exports, Opens, Early, at
  <2> QED
    BY <2>2, <2>3, <2>4, <2>5
<1>17. CASE Open(h)
  <2>1. at = "open" /\ data' = [data EXCEPT !.trace = h]
    BY <1>17 DEF Open, Update, at
  <2>2. /\ data'.session = data.session /\ data'.trace = h /\ data'.line = data.line
        /\ data'.command = data.command /\ data'.ids = data.ids /\ data'.count = data.count
    BY <2>1, <1>5 DEF DataType
  <2>3. \A x \in spans : x.trace # h
    BY <2>1, <1>11 DEF Opens, at
  <2>4. Serial => IdsStored'
    BY <2>1, <2>2, <2>3, <1>1, <1>9, <1>13 DEF IdsStored
  <2>5. Orderly => TurnsInOrder'
    BY <2>1, <2>2, <2>3, <1>1, <1>3, <1>7, <1>10 DEF TurnsInOrder, KeepsOrder, Opens, at
  <2>6. Orderly => KeepsOrder(h)'
    BY <2>1, <2>2, <1>1, <1>3, <1>7, <1>10 DEF KeepsOrder, Exports, Opens, Early, at
  <2> QED
    BY <2>1, <2>2, <2>4, <2>5, <2>6, <1>3
<1>18. CASE OpenSpan(h)
  <2>1. at = "openSpan" /\ data' = [data EXCEPT !.span = h]
    BY <1>18 DEF OpenSpan, Update, at
  <2>2. /\ data'.session = data.session /\ data'.trace = data.trace /\ data'.line = data.line
        /\ data'.command = data.command /\ data'.ids = data.ids /\ data'.count = data.count
    BY <2>1, <1>5 DEF DataType
  <2>3. Serial => IdsStored'
    BY <2>2, <1>1, <1>9 DEF IdsStored
  <2>4. Orderly => TurnsInOrder'
    BY <2>1, <2>2, <1>1, <1>3, <1>7, <1>10 DEF TurnsInOrder, NoTurnYet, KeepsOrder, Opens, at
  <2>5. Orderly => KeepsOrder(h)'
    BY <2>1, <2>2, <1>1, <1>3, <1>7, <1>10 DEF KeepsOrder, Exports, Opens, Early, at
  <2> QED
    BY <2>2, <2>3, <2>4, <2>5
<1>19. CASE OpenLine(h)
  <2>1. at = "openLine" /\ data' = [data EXCEPT !.line = Len(log)]
    BY <1>19 DEF OpenLine, Update, at
  <2>2. /\ data'.session = data.session /\ data'.trace = data.trace /\ data'.line = Len(log)
        /\ data'.command = data.command /\ data'.ids = data.ids /\ data'.count = data.count
    BY <2>1, <1>5 DEF DataType
  <2>3. Serial => IdsStored'
    BY <2>2, <1>1, <1>9 DEF IdsStored
  <2>4. Orderly => TurnsInOrder'
    BY <2>1, <2>2, <1>1, <1>3, <1>7, <1>10, <1>13 DEF TurnsInOrder, NoTurnYet, KeepsOrder, Opens, at
  <2>5. Orderly => KeepsOrder(h)'
    BY <2>1, <2>2, <1>1, <1>3, <1>7, <1>10 DEF KeepsOrder, Exports, Opens, Early, at
  <2> QED
    BY <2>2, <2>3, <2>4, <2>5
<1>20. CASE Stash(h)
  <2>1. at = "stash" /\ data' = [data EXCEPT !.command = h]
    BY <1>20 DEF Stash, Update, at
  <2>2. /\ data'.session = data.session /\ data'.trace = data.trace /\ data'.line = data.line
        /\ data'.command = h /\ data'.ids = data.ids /\ data'.count = data.count
    BY <2>1, <1>5 DEF DataType
  <2>3. \A x \in spans : x.command # h
    BY <2>1, <1>12 DEF at
  <2>4. Serial => IdsStored'
    BY <2>2, <1>1, <1>9 DEF IdsStored
  <2>5. Orderly => TurnsInOrder'
    BY <2>1, <2>2, <2>3, <1>1, <1>3, <1>7, <1>10 DEF TurnsInOrder, NoTurnYet, KeepsOrder, Opens, at
  <2>6. Orderly => KeepsOrder(h)'
    BY <2>1, <2>2, <1>1, <1>3, <1>7, <1>10 DEF KeepsOrder, Exports, Opens, Early, at
  <2> QED
    BY <2>1, <2>2, <2>4, <2>5, <2>6, <1>3
<1> QED
  BY <1>14, <1>15, <1>16, <1>17, <1>18, <1>19, <1>20

LEMMA SerialBystanders ==
  ASSUME TurnInv, SerialInv, NEW h \in Hooks,
         RecordStart(h) \/ RecordResult(h) \/ RecordAgent(h) \/ SendNote(h)
  PROVE  SerialInv'
<1>1. ev[h].kind \notin Waited /\ Running(h) /\ hook[h].at \notin Opens
  BY Knows DEF RecordStart, RecordResult, RecordAgent, SendNote, KindOf, Waited, Opens
<1>2. PICK s \in {"result", "done"} : Continue(h, s, hook[h]) /\ KindOf(ev[h], s)
  <2>1. KindOf(ev[h], "result") /\ KindOf(ev[h], "done")
    BY <1>1 DEF KindOf, Exports
  <2>2. hook[h].at \in {"start", "result", "descriptor"} =>
          AfterUpdate(ev[h], hook[h].at) \in {"result", "done"}
    BY DEF AfterUpdate
  <2> QED
    BY <2>1, <2>2 DEF RecordStart, RecordResult, RecordAgent, SendNote, Update, Goto
<1>3. UNCHANGED <<mode, log, ev>> /\ BufferOnly
  BY Knows DEF RecordStart, RecordResult, RecordAgent, SendNote, Update, BufferOnly, DataType
<1>4. spans \subseteq spans' /\ \A x \in spans' \ spans :
        x.kind = "note" /\ x.lines = {} /\ x.command = NoHook /\ x.trace = hook[h].trace
  <2>1. hook[h].lines = {} /\ hook[h].command = NoHook
    BY <1>1, Knows
  <2> QED
    BY <2>1 DEF RecordStart, RecordResult, RecordAgent, SendNote, history, Sent
<1>5. s \in Stages \ {"new"} /\ s \notin Opens
  BY DEF Stages, Updates, Opens
<1> QED
  BY <1>1, <1>2, <1>3, <1>4, <1>5, Knows, BystanderMoves

(* The turn leaves the dict: with its session, or once it is exported.     *)
LEMMA SerialCloses ==
  ASSUME TurnInv, SerialInv, NEW h \in Hooks, Remove(h) \/ Ack(h)
  PROVE  SerialInv'
<1>1. PICK s \in {"done", "recheck"} : Goto(h, s) /\ (s = "recheck" => hook[h].at = "ack")
                                      /\ KindOf(ev[h], s)
  BY NextKinds, Knows DEF Remove, Ack, Update, AfterUpdate, Exported
<1>2. /\ hook[h].at \in {"remove", "ack"} /\ Waits(h)
      /\ UNCHANGED <<mode, log, ev, spans>>
  BY Knows DEF Remove, Ack, Update, history, KindOf, Exports, Waited
<1>3. s \in Stages \ {"new"} /\ s \notin Exports \cup Early \cup Opens
      /\ hook[h].at \notin Opens /\ Continue(h, s, hook[h]) /\ hook[h] \in LocalType
  BY <1>1, <1>2, Knows DEF Stages, Updates, Exports, Early, Opens, Goto
<1>4. hook'[h].at = s /\ \A o \in Hooks : o # h => hook'[o] = hook[o]
  BY <1>3, Moved
<1>5. data' = data \/ /\ data'.trace = NoHook /\ data'.command = NoHook /\ data'.ids = {}
                      /\ data'.session \in {data.session, FALSE}
                      /\ data'.session = data.session \/ hook[h].at = "remove"
                      /\ data'.count = data.count \/ hook[h].at = "remove"
  <2>1. NoData.trace = NoHook /\ NoData.command = NoHook /\ NoData.ids = {} /\ NoData.session = FALSE
    BY DEF NoData
  <2>2. LET d == Closed(Unchanged(h)) IN
        /\ d.trace = NoHook /\ d.command = NoHook /\ d.ids = {}
        /\ d.session = data.session /\ d.count = data.count
    BY Knows DEF Closed, DataType
  <2>3. CASE Remove(h)
    BY <2>1, <2>3 DEF Remove
  <2>4. CASE Ack(h)
    BY <2>2, <2>4 DEF Ack, Update
  <2> QED
    BY <2>3, <2>4
<1>6. Serial /\ hook[h].at = "ack" => data'.trace = NoHook /\ data'.command = NoHook /\ data'.ids = {}
  <2>1. Serial /\ hook[h].at = "ack" => hook[h].trace = data.trace
    BY <1>2, Knows DEF HoldsTurn, Exports
  <2>2. hook[h].at = "ack" => Ack(h)
    BY DEF Remove
  <2>3. LET d == Closed(Unchanged(h)) IN d.trace = NoHook /\ d.command = NoHook /\ d.ids = {}
    BY Knows DEF Closed, DataType
  <2> QED
    BY <2>1, <2>2, <2>3 DEF Ack, Update
<1>7. Serial => IdsStored'
  BY <1>2, <1>5, Knows DEF IdsStored, OneIdEach
<1>8. HoldsTurn(h)'
  BY <1>3, <1>4 DEF HoldsTurn, Exports
<1>9. ASSUME Orderly
      PROVE  TurnsInOrder' /\ KeepsOrder(h)'
  <2>1. Serial /\ TurnsInOrder /\ KeepsOrder(h)
    BY <1>9, <1>2, Knows DEF Orderly
  <2>2. hook[h].at = "remove" => "end" \in mode.kinds
    BY <1>2, Knows DEF SerialInv, AnyInv, KindsOccur, KindOf, Waits
  <2>3. \A o \in Hooks : hook'[o].at \in Opens <=> hook[o].at \in Opens
    BY <1>3, <1>4
  <2>4. hook[h].at = "remove" => \A o \in Hooks : hook[o].at = "ack" => hook'[o].at = "ack"
    BY <1>4
  <2>5. TurnsInOrder'
    BY <2>1, <2>2, <2>3, <2>4, <1>2, <1>5, <1>6 DEF TurnsInOrder, NoTurnYet
  <2>6. s = "recheck" => data'.trace = NoHook /\ data'.session
    BY <2>1, <1>1, <1>5, <1>6 DEF KeepsOrder, Exports
  <2>7. KeepsOrder(h)'
    BY <2>6, <1>3, <1>4 DEF KeepsOrder, Exports, Early, Opens
  <2> QED
    BY <2>5, <2>7
<1> QED
  BY <1>1, <1>2, <1>3, <1>5, <1>7, <1>8, <1>9, WaitedUpdates

(* The ids of the turn that is open are stored before its tree is sent.    *)
LEMMA SerialIds ==
  ASSUME TurnInv, SerialInv, NEW h \in Hooks, SetIds(h)
  PROVE  SerialInv'
<1>1. /\ hook[h].at = "setIds" /\ Goto(h, "send") /\ UNCHANGED <<mode, log, ev, spans>>
      /\ data' = [data EXCEPT !.ids = hook[h].ids]
  BY DEF SetIds, Update, AfterUpdate, history
<1>2. ev[h].kind \in {"prompt", "stop", "failure"} /\ Waits(h) /\ KindOf(ev[h], "send")
  BY <1>1, Knows DEF KindOf, Exports, Waited
<1>3. "send" \in Stages \ {"new"} /\ Continue(h, "send", hook[h]) /\ hook[h] \in LocalType
  BY <1>1, Knows DEF Stages, Goto
<1>4. /\ hook'[h].at = "send" /\ hook'[h].trace = hook[h].trace /\ hook'[h].lines = hook[h].lines
      /\ hook'[h].command = hook[h].command /\ hook'[h].number = hook[h].number
      /\ hook'[h].ids = hook[h].ids
      /\ \A o \in Hooks : o # h => hook'[o] = hook[o]
  BY <1>3, Moved
<1>5. /\ data'.session = data.session /\ data'.trace = data.trace /\ data'.line = data.line
      /\ data'.command = data.command /\ data'.ids = hook[h].ids /\ data'.count = data.count
  BY <1>1, Knows DEF DataType
<1>6. Serial => /\ hook[h].trace = data.trace /\ data.trace # NoHook
                /\ data.ids \subseteq hook[h].ids /\ OneIdEach(hook[h].ids)
  BY <1>1, <1>2, Knows DEF HoldsTurn, Exports
<1>7. Serial => IdsStored' /\ HoldsTurn(h)'
  BY <1>1, <1>4, <1>5, <1>6, Knows DEF IdsStored, HoldsTurn
<1>8. Orderly => TurnsInOrder'
  BY <1>1, <1>4, <1>5, Knows DEF TurnsInOrder, NoTurnYet, Opens
<1>9. Orderly => KeepsOrder(h)'
  BY <1>1, <1>2, <1>4, <1>5, Knows DEF KeepsOrder, Exports, Opens, Early
<1> QED
  BY <1>1, <1>2, <1>3, <1>5, <1>7, <1>8, <1>9, WaitedUpdates DEF Opens

(* A turn is sent: what was sent of the others lies before it.             *)
LEMMA SerialSend ==
  ASSUME TurnInv, SerialInv, NEW h \in Hooks, SendTurn(h)
  PROVE  SerialInv'
<1> DEFINE l == hook[h]
<1> DEFINE kind == CASE ev[h].kind = "failure" -> "failed"
                     [] ev[h].kind # "failure" /\ l.tree -> "tree"
                     [] OTHER -> "root"
           ids == IF l.tree THEN l.ids ELSE {<<l.number, l.span>>}
           obs == {<<i, l.found[i]>> : i \in Matched(l)}
<1>0. PICK ok \in {TRUE, ~mode.down} :
        /\ Sent(h, kind, ids, obs, ok)
        /\ Goto(h, IF ok THEN "ack" ELSE Exported(ev[h]))
  BY DEF SendTurn
<1> DEFINE x == [kind |-> kind, by |-> h, trace |-> l.trace, span |-> l.span,
                 number |-> l.number, ids |-> ids, lines |-> l.lines, obs |-> obs,
                 command |-> l.command, ok |-> ok]
           s == IF ok THEN "ack" ELSE Exported(ev[h])
<1>1. /\ spans' = spans \cup {x}
      /\ x.kind = "tree" <=> ev[h].kind # "failure" /\ l.tree
      /\ x.kind = "tree" => x.ids = l.ids
      /\ x.trace = l.trace /\ x.number = l.number /\ x.lines = l.lines
      /\ x.command = l.command /\ x.ok = ok
  <2>1. /\ kind = "tree" <=> ev[h].kind # "failure" /\ l.tree
        /\ kind = "tree" => ids = l.ids
    BY Knows DEF LocalType
  <2>2. spans' = spans \cup {x}
    BY <1>0 DEF Sent
  <2>3. /\ x.kind = kind /\ x.ids = ids /\ x.trace = l.trace /\ x.number = l.number
        /\ x.lines = l.lines /\ x.command = l.command /\ x.ok = ok
    OBVIOUS
  <2> HIDE DEF kind, ids, x
  <2> QED
    BY <2>1, <2>2, <2>3
<1> HIDE DEF x
<1>2. l.at = "send" /\ UNCHANGED <<mode, data, log, ev>>
  BY DEF SendTurn
<1>3. ev[h].kind \in {"prompt", "stop", "failure"} /\ Waits(h) /\ l \in LocalType
  BY <1>2, Knows DEF KindOf, Exports, Waited
<1>4. /\ s \in {"ack", "done", "recheck"} /\ s \in Stages \ {"new"} /\ KindOf(ev[h], s)
      /\ (s = "ack" => ok) /\ (s = "recheck" => mode.down) /\ (ok => s = "ack")
      /\ Continue(h, s, l)
  <2>1. Exported(ev[h]) \in {"done", "recheck"}
    BY DEF Exported
  <2>2. KindOf(ev[h], "done") /\ KindOf(ev[h], "recheck") /\ KindOf(ev[h], "ack")
    BY <1>3 DEF KindOf, Exports
  <2> QED
    BY <2>1, <2>2, <1>0 DEF Stages, Updates, Goto
<1> HIDE DEF s
<1>5. /\ hook'[h].at = s
      /\ \A o \in Hooks : o # h => hook'[o] = hook[o]
      /\ s = "ack" => /\ hook'[h].trace = l.trace /\ hook'[h].lines = l.lines
                      /\ hook'[h].command = l.command /\ hook'[h].number = l.number
  BY <1>3, <1>4, Moved
<1>6. AnyInv'
  <2>1. Running(h) /\ ev[h].kind \in Waited
    BY <1>3 DEF Waits
  <2>2. l.at \notin Opens
    BY <1>2 DEF Opens
  <2>3. \A y \in spans' : y \in spans \/ (y.trace = l.trace /\ y.command = l.command)
    BY <1>1
  <2> QED
    BY <2>1, <2>2, <2>3, <1>2, <1>3, <1>4, AnyKept
<1>7. Serial => /\ IdsStored /\ l.trace = data.trace /\ data.trace # NoHook
                /\ ~mode.faults /\ x.kind = "tree" => x.ids = data.ids
  BY <1>1, <1>2, <1>3, Knows DEF HoldsTurn, Exports
<1>8. Orderly => /\ Serial /\ TurnsInOrder /\ data.session
                 /\ \A m \in l.lines : m > data.line
                 /\ l.command \in {NoHook, data.command} /\ l.number = data.count
  BY <1>2, <1>3, Knows DEF KeepsOrder, Exports, Orderly
<1>9. Serial => IdsStored' /\ HoldsTurn(h)'
  BY <1>1, <1>2, <1>4, <1>5, <1>7 DEF IdsStored, HoldsTurn, Exports
<1>10. ASSUME Orderly
       PROVE  TurnsInOrder'
  <2>1. \A o \in Hooks : (hook'[o].at \in Opens <=> hook[o].at \in Opens)
                         /\ (hook[o].at = "ack" => hook'[o].at = "ack")
    BY <1>2, <1>4, <1>5 DEF Opens
  <2>2. x.lines \subseteq DOMAIN log /\ x.number \in Nat /\ data.count \in Nat
    BY <1>1, <1>3, Knows DEF LocalType, DataType
  <2>3. x.ok => \E o \in Hooks : hook'[o].at = "ack"
    BY <1>1, <1>4, <1>5
  <2> QED
    BY <2>1, <2>2, <2>3, <1>1, <1>2, <1>7, <1>8, <1>10 DEF TurnsInOrder
<1>11. Orderly => KeepsOrder(h)'
  BY <1>2, <1>4, <1>5, <1>8 DEF KeepsOrder, Exports, Opens, Early
<1>12. Serial' = Serial /\ Orderly' = Orderly /\ mode' = mode
  BY <1>2 DEF Serial, Orderly
<1>13. StableIds'
  <2> SUFFICES ASSUME Serial, ~mode.faults, NEW y \in spans', NEW z \in spans',
                      y.kind = "tree", z.kind = "tree", y.trace = z.trace,
                      NEW p \in y.ids, NEW q \in z.ids, p[1] = q[1]
               PROVE  p = q
    BY <1>12 DEF StableIds
  <2>1. CASE y \in spans /\ z \in spans
    BY <2>1 DEF SerialInv, StableIds
  <2>2. CASE y = x \/ z = x
    <3>1. y.trace = data.trace
      BY <2>2, <1>1, <1>7
    <3>2. y.ids \subseteq data.ids /\ z.ids \subseteq data.ids
      BY <3>1, <1>1, <1>7 DEF IdsStored
    <3> QED
      BY <3>2, <1>7 DEF IdsStored, OneIdEach
  <2> QED
    BY <2>1, <2>2, <1>1
<1>14. TurnsShareNothing'
  <2> SUFFICES ASSUME Orderly
               PROVE  TurnsShareNothing'
    BY <1>12 DEF TurnsShareNothing
  <2>1. \A o \in Hooks : hook[o].at \in Opens \cup {"ack"} => Waits(o) /\ o # h
    BY <1>2, Knows DEF Opens, KindAt, KindOf, Exports, Waited
  <2>2. \A o \in Hooks : hook[o].at \notin Opens \cup {"ack"}
    BY <2>1, <1>3, <1>8 DEF SerialInv, AnyInv, OneWaits
  <2>3. ASSUME NEW y \in spans, y.trace # x.trace
        PROVE  /\ x.ok /\ y.ok => x.lines \cap y.lines = {}
               /\ x.ok /\ y.ok /\ x.command = y.command => x.command = NoHook
               /\ IsRoot(y) /\ x.number = y.number => "end" \in mode.kinds
    <3>1. \A m \in y.lines : m <= data.line /\ m \in Nat
      BY <2>2, <2>3, <1>1, <1>7, <1>8 DEF TurnsInOrder, TurnInv, ClaudeTypeOK
    <3>2. data.line \in Nat /\ \A m \in x.lines : m > data.line
      BY <1>1, <1>8, Knows DEF DataType, TurnInv, ClaudeTypeOK
    <3>3. x.lines \cap y.lines = {}
      BY <3>1, <3>2
    <3>4. y.ok /\ y.command # NoHook => y.command # data.command
      BY <2>2, <1>8 DEF TurnsInOrder
    <3>5. IsRoot(y) /\ "end" \notin mode.kinds => y.number < data.count /\ y.number \in Nat
      BY <2>3, <1>1, <1>7, <1>8 DEF TurnsInOrder
    <3>6. data.count \in Nat
      BY Knows DEF DataType
    <3> QED
      BY <3>3, <3>4, <3>5, <3>6, <1>1, <1>8
  <2> SUFFICES ASSUME NEW y \in spans', NEW z \in spans', y.trace # z.trace
               PROVE  /\ y.ok /\ z.ok => y.lines \cap z.lines = {}
                      /\ y.ok /\ z.ok /\ y.command = z.command => y.command = NoHook
                      /\ IsRoot(y) /\ IsRoot(z) /\ y.number = z.number => "end" \in mode.kinds
    BY <1>12 DEF TurnsShareNothing
  <2>4. CASE y \in spans /\ z \in spans
    BY <2>4 DEF SerialInv, TurnsShareNothing
  <2>5. CASE y = x /\ z \in spans
    BY <2>3, <2>5
  <2>6. CASE z = x /\ y \in spans
    BY <2>3, <2>6
  <2> QED
    BY <2>4, <2>5, <2>6, <1>1
<1> QED
  BY <1>2, <1>3, <1>4, <1>6, <1>9, <1>10, <1>11, <1>13, <1>14, WaitedMoves

LEMMA SerialFaults ==
  ASSUME TurnInv, SerialInv, NEW h \in Hooks, DropUpdate(h) \/ Crash(h)
  PROVE  SerialInv'
<1>1. PICK s \in Stages \ {"new"} :
        /\ Continue(h, s, hook[h]) /\ KindOf(ev[h], s)
        /\ hook[h].at \in Opens => s \in Opens \cup {"done"}
        /\ s \in Opens => hook[h].at \in {"open", "openSpan"}
        /\ s \notin Exports \/ (s = "send" /\ hook[h].at = "setIds" /\ mode.faults)
        /\ s = "span" => ev[h].kind = "agent"
  <2>1. CASE DropUpdate(h)
    <3> DEFINE s == AfterDrop(ev[h], hook[h].at)
    <3>1. Continue(h, s, hook[h]) /\ mode.faults /\ KindOf(ev[h], hook[h].at)
          /\ hook[h].at \in Updates
      BY <2>1, Knows DEF DropUpdate, Goto
    <3>2. Ensured(ev[h]) \in {"done", "pending"} /\ Exported(ev[h]) \in {"done", "recheck"}
      BY DEF Ensured, Exported
    <3>3. AfterUpdate(ev[h], hook[h].at) \in
            {"setCount", "done", "pending", "open", "openSpan", "openLine", "recheck", "send", "result"}
          /\ (AfterUpdate(ev[h], hook[h].at) = "send" => hook[h].at = "setIds")
          /\ (AfterUpdate(ev[h], hook[h].at) = "openSpan" => hook[h].at = "open")
          /\ (AfterUpdate(ev[h], hook[h].at) = "openLine" => hook[h].at = "openSpan")
          /\ (hook[h].at \in Opens => AfterUpdate(ev[h], hook[h].at) \in Opens \cup {"done"})
      BY <3>2 DEF AfterUpdate, Opens
    <3>4. /\ s \in {"done", "span", AfterUpdate(ev[h], hook[h].at)}
          /\ s = "span" => hook[h].at = "descriptor" \/ s = AfterUpdate(ev[h], hook[h].at)
          /\ hook[h].at \in Opens => s = AfterUpdate(ev[h], hook[h].at)
      BY DEF AfterDrop, Opens
    <3>5. KindOf(ev[h], s)
      BY <3>1, NextKinds
    <3>6. s \in Stages \ {"new"}
      BY <3>3, <3>4 DEF Stages, Updates
    <3> HIDE DEF s
    <3> QED
      BY <3>1, <3>3, <3>4, <3>5, <3>6 DEF Opens, Exports, KindOf
  <2>2. CASE Crash(h)
    BY <2>2 DEF Crash, Goto, Stages, KindOf, Exports, Opens
  <2> QED
    BY <2>1, <2>2
<1>2. UNCHANGED <<mode, data, log, ev, spans>> /\ Running(h) /\ ~Orderly
  BY DEF DropUpdate, Crash, history, Running, Updates, Orderly
<1>3. CASE ev[h].kind \in Waited
  <2>1. Waits(h) /\ hook[h] \in LocalType
    BY <1>2, <1>3, Knows
  <2>2. hook'[h].at = s /\ (s # "done" => hook'[h].trace = hook[h].trace)
    BY <1>1, <2>1, Moved
  <2>3. Serial => HoldsTurn(h)'
    BY <2>1, <2>2, <1>1, <1>2, <1>3, Knows DEF HoldsTurn, Exports, Waited
  <2> QED
    BY <2>1, <2>3, <1>1, <1>2, WaitedReads
<1>4. CASE ev[h].kind \notin Waited
  <2>1. hook[h] \in LocalType /\ hook[h].lines = {} /\ hook[h].command = NoHook
    BY <1>4, Knows
  <2>2. s \notin Opens
    BY <1>1, <1>4, Knows DEF KindAt, Waited
  <2>3. BufferOnly /\ spans' = spans
    BY <1>2 DEF BufferOnly
  <2> QED
    BY <2>1, <2>2, <2>3, <1>1, <1>2, <1>4, BystanderMoves
<1> QED
  BY <1>3, <1>4

LEMMA SerialStepInv ==
  ASSUME TurnInv, SerialInv, [Next]_vars
  PROVE  SerialInv'
<1>1. CASE \E h \in Hooks, k \in Kinds, i \in Items \cup {NoItem} : Start(h, k, i)
  BY <1>1, SerialStart
<1>2. CASE \E i \in Items \cup {NoItem} : Write(i)
  BY <1>2, SerialWrite
<1>3. CASE \E h \in Hooks : Step(h)
  BY <1>3, SerialSessionReads, SerialTurnReads, SerialTreeReads, SerialPromptUpdates,
     SerialBystanders, SerialCloses, SerialIds, SerialSend DEF Step
<1>4. CASE \E h \in Hooks : DropUpdate(h) \/ Crash(h)
  BY <1>4, SerialFaults
<1>5. CASE UNCHANGED vars
  <2>1. UNCHANGED <<mode, data, log, ev, hook, spans>>
    BY <1>5 DEF vars, history
  <2>2. /\ AnyInv => AnyInv'
        /\ IdsStored => IdsStored'
        /\ TurnsInOrder => TurnsInOrder'
    BY <2>1 DEF AnyInv, StagesOfKinds, KindsOccur, TracesOpened, CommandsStashed,
                BystandersCarryNothing, OneWaits, Waits, Running, Serial, IdsStored, TurnsInOrder,
                NoTurnYet
  <2>3. \A h \in Hooks : Waits(h)' = Waits(h) /\ HoldsTurn(h)' = HoldsTurn(h)
                         /\ KeepsOrder(h)' = KeepsOrder(h)
    BY <2>1 DEF Waits, Running, HoldsTurn, KeepsOrder, NoTurnYet
  <2>4. StableIds' /\ TurnsShareNothing' /\ Serial' = Serial /\ Orderly' = Orderly
    BY <2>1 DEF SerialInv, StableIds, TurnsShareNothing, Serial, Orderly
  <2> QED
    BY <2>2, <2>3, <2>4 DEF SerialInv
<1> QED
  BY <1>1, <1>2, <1>3, <1>4, <1>5 DEF Next

(* What holds while Claude Code waits for the hooks of prompts and stops:  *)
(* at most one of them runs, what it has read is still so, and what was    *)
(* sent of earlier turns lies before the open one.                         *)
THEOREM SerialInvariant == Spec => []SerialInv
<1>1. Init => SerialInv
  BY SerialInit
<1>2. TurnInv /\ SerialInv /\ [Next]_vars => SerialInv'
  BY SerialStepInv
<1> QED
  BY <1>1, <1>2, TurnInvariant, PTL DEF Spec

(* Every attempt to export the tree of a turn uses the same span ids       *)
(* (high_fidelity_span_ids), also across crashes and failed exports.       *)
THEOREM IdsAreStable == Spec => []StableIds
<1>1. SerialInv => StableIds
  BY DEF SerialInv
<1> QED
  BY <1>1, SerialInvariant, PTL

(* Two turns of a session share no transcript line, no number and no       *)
(* command, however the hooks of tools and subagents overlap with them     *)
(* and however exports fail (trace_start_line, trace_count,                *)
(* _acknowledge_exported_turn).                                            *)
THEOREM TurnsAreApart == Spec => []TurnsShareNothing
<1>1. SerialInv => TurnsShareNothing
  BY DEF SerialInv
<1> QED
  BY <1>1, SerialInvariant, PTL

-----------------------------------------------------------------------------
(* How a stop ends *)

(* A hook moves nobody but itself.                                         *)
LEMMA MovesItself ==
  ASSUME NEW o \in Hooks, Step(o), NEW h \in Hooks \ {o}, TurnInv
  PROVE  hook'[h] = hook[h]
<1>1. \A s, l : Continue(o, s, l) => hook'[h] = hook[h]
  BY DEF Continue, TurnInv, ClaudeTypeOK
<1>2. \A s : Goto(o, s) => hook'[h] = hook[h]
  BY <1>1 DEF Goto
<1>3. \A d : Update(o, d) => hook'[h] = hook[h]
  BY <1>2 DEF Update
<1>4. CASE Ensure(o) \/ Pending(o) \/ Recheck(o) \/ Lookup(o) \/ SendNote(o) \/ Remove(o) \/ SendTurn(o)
  BY <1>2, <1>4 DEF Ensure, Pending, Recheck, Lookup, SendNote, Remove, SendTurn
<1>5. CASE \/ GetTrace(o) \/ GetSpan(o) \/ GetNumber(o) \/ Parse(o) \/ GetTools(o) \/ GetAgents(o)
           \/ GetCommand(o) \/ GetIds(o)
  BY <1>1, <1>5 DEF GetTrace, GetSpan, GetNumber, Parse, GetTools, GetAgents, GetCommand, GetIds
<1>6. CASE \/ SetSession(o) \/ SetCount(o) \/ Count(o) \/ Open(o) \/ OpenSpan(o) \/ OpenLine(o)
           \/ Stash(o) \/ RecordStart(o) \/ RecordResult(o) \/ RecordAgent(o) \/ SetIds(o) \/ Ack(o)
  BY <1>3, <1>6 DEF SetSession, SetCount, Count, Open, OpenSpan, OpenLine, Stash, RecordStart,
                    RecordResult, RecordAgent, SetIds, Ack
<1> QED
  BY <1>4, <1>5, <1>6 DEF Step

(* The steps by which the hook of a prompt or of a stop may come to its end. *)
LEMMA LastSteps ==
  ASSUME TurnInv, SerialInv, NEW h \in Hooks, Step(h), hook'[h].at = "done",
         ev[h].kind \in {"prompt", "stop", "failure"}
  PROVE  OpenLine(h) \/ Recheck(h) \/ GetTrace(h) \/ SendTurn(h) \/ Ack(h)
<1> SUFFICES ASSUME ~(OpenLine(h) \/ Recheck(h) \/ GetTrace(h) \/ SendTurn(h) \/ Ack(h))
             PROVE  \E s, l : Continue(h, s, l) /\ s # "done" /\ DOMAIN l = DOMAIN hook[h]
  BY Knows DEF Continue, TurnInv, ClaudeTypeOK, LocalType
<1>1. /\ hook[h] \in LocalType /\ KindAt(ev[h], hook[h].at) /\ KindOf(ev[h], hook[h].at)
      /\ ev[h].kind \in Waited
  BY Knows DEF Waited
<1>2. CASE Ensure(h) \/ Pending(h)
  <2>1. PICK s \in {"pending", "setSession", "count", "trace"} : Goto(h, s)
    BY <1>1, <1>2 DEF Ensure, Pending, Ensured, KindAt
  <2> QED
    BY <2>1 DEF Goto
<1>3. CASE SetSession(h) \/ SetCount(h) \/ Count(h) \/ Open(h) \/ OpenSpan(h) \/ SetIds(h)
  <2>1. /\ hook[h].at \in {"setSession", "setCount", "count", "open", "openSpan", "setIds"}
        /\ Goto(h, AfterUpdate(ev[h], hook[h].at))
    BY <1>3 DEF SetSession, SetCount, Count, Open, OpenSpan, SetIds, Update
  <2>2. AfterUpdate(ev[h], hook[h].at) \in {"setCount", "pending", "open", "openSpan", "openLine", "send"}
    BY <2>1, <1>1 DEF AfterUpdate, Ensured, KindAt
  <2> QED
    BY <2>1, <2>2 DEF Goto
<1>4. ~(\/ Stash(h) \/ Lookup(h) \/ RecordStart(h) \/ RecordResult(h) \/ RecordAgent(h)
        \/ SendNote(h) \/ Remove(h))
  BY <1>1 DEF KindOf, Stash, Lookup, RecordStart, RecordResult, RecordAgent, SendNote, Remove
<1>5. CASE \/ GetSpan(h) \/ GetNumber(h) \/ Parse(h) \/ GetTools(h) \/ GetAgents(h)
           \/ GetCommand(h) \/ GetIds(h)
  <2>1. \A items : DOMAIN Find(h, items) = DOMAIN hook[h]
    BY DEF Find
  <2>2. Spanned(ev[h]) # "done" /\ \A tree : Parsed(ev[h], tree) # "done"
    BY DEF Spanned, Parsed
  <2>3. \A v : /\ DOMAIN [hook[h] EXCEPT !.span = v] = DOMAIN hook[h]
               /\ DOMAIN [hook[h] EXCEPT !.number = v] = DOMAIN hook[h]
               /\ DOMAIN [hook[h] EXCEPT !.command = v] = DOMAIN hook[h]
               /\ DOMAIN [hook[h] EXCEPT !.ids = v] = DOMAIN hook[h]
    OBVIOUS
  <2>4. CASE GetSpan(h)
    BY <2>2, <2>3, <2>4 DEF GetSpan
  <2>5. CASE GetNumber(h)
    BY <2>3, <2>5 DEF GetNumber
  <2>6. CASE Parse(h)
    <3> DEFINE lines == From(data.line)
               l == [hook[h] EXCEPT !.lines = lines, !.tree = IsTree(lines)]
    <3>1. Continue(h, Parsed(ev[h], IsTree(lines)), l) /\ DOMAIN l = DOMAIN hook[h]
      BY <2>6 DEF Parse
    <3> HIDE DEF l
    <3> QED
      BY <3>1, <2>2
  <2>7. CASE GetTools(h) \/ GetAgents(h)
    BY <2>1, <2>7 DEF GetTools, GetAgents
  <2>8. CASE GetCommand(h) \/ GetIds(h)
    BY <2>3, <2>8 DEF GetCommand, GetIds
  <2> QED
    BY <1>5, <2>4, <2>5, <2>6, <2>7, <2>8
<1> QED
  BY <1>2, <1>3, <1>4, <1>5 DEF Step

LEMMA StopStep ==
  ASSUME TurnInv, SerialInv, [Next]_vars, NEW h \in Hooks,
         Orderly, ~mode.down, Running(h), hook'[h].at = "done"
  PROVE  /\ ev[h].kind \in {"stop", "failure"} => data'.trace = NoHook
         /\ ev[h].kind = "prompt" => data'.trace = h
<1>1. Step(h)
  <2>1. hook'[h] # hook[h]
    BY DEF Running
  <2>2. \A k, i : ~Start(h, k, i)
    BY DEF Start, Running
  <2>3. ASSUME NEW o \in Hooks \ {h}, NEW k, NEW i, Start(o, k, i)
        PROVE  hook'[h] = hook[h]
    BY <2>3 DEF Start, Continue, TurnInv, ClaudeTypeOK
  <2>4. ASSUME NEW i, Write(i)
        PROVE  hook'[h] = hook[h]
    BY <2>4 DEF Write
  <2>5. \A o \in Hooks : ~DropUpdate(o) /\ ~Crash(o)
    BY DEF DropUpdate, Crash, Orderly
  <2> QED
    BY <2>1, <2>2, <2>3, <2>4, <2>5, MovesItself DEF Next, vars
<1> SUFFICES ASSUME ev[h].kind \in {"prompt", "stop", "failure"}
             PROVE  /\ ev[h].kind \in {"stop", "failure"} => data'.trace = NoHook
                    /\ ev[h].kind = "prompt" => data'.trace = h
  OBVIOUS
<1>2. /\ Waits(h) /\ HoldsTurn(h) /\ KeepsOrder(h) /\ TurnsInOrder
      /\ KindAt(ev[h], hook[h].at) /\ data \in DataType /\ hook[h] \in LocalType
  BY Knows DEF Waited, Orderly
<1>3. \A s : Goto(h, s) => s = "done"
  BY <1>2 DEF Goto, Continue, TurnInv, ClaudeTypeOK, LocalType
<1>4. CASE OpenLine(h)
  <2>1. data.trace = h /\ data'.trace = data.trace /\ ev[h].kind = "prompt"
    BY <1>2, <1>4 DEF OpenLine, Update, KeepsOrder, Opens, KindAt, DataType
  <2> QED
    BY <2>1
<1>5. ~Recheck(h)
  <2>1. hook[h].at = "recheck" => data.trace = NoHook
    BY <1>2 DEF KeepsOrder
  <2> QED
    BY <2>1, <1>3 DEF Recheck
<1>6. CASE GetTrace(h)
  <2>1. ev[h].kind # "prompt" /\ ~(data.trace # NoHook /\ data.session) /\ UNCHANGED data
    <3> DEFINE turn == data.trace # NoHook \/ ev[h].kind = "post"
               session == data.session \/ ev[h].kind \in {"note", "agent"}
               s == IF turn /\ session THEN Traced(ev[h]) ELSE Exported(ev[h])
               l == [hook[h] EXCEPT !.trace = data.trace]
    <3>1. Continue(h, s, l) /\ UNCHANGED data
      BY <1>6 DEF GetTrace
    <3>2. DOMAIN l = DOMAIN hook[h]
      OBVIOUS
    <3>3. s = "done"
      BY <3>1, <3>2, <1>2 DEF Continue, TurnInv, ClaudeTypeOK, LocalType
    <3> QED
      BY <3>1, <3>3 DEF Traced, Exported
  <2> QED
    BY <2>1, <1>2 DEF TurnsInOrder
<1>7. ~SendTurn(h)
  <2>1. SendTurn(h) => Goto(h, "ack")
    BY DEF SendTurn
  <2> QED
    BY <2>1, <1>3
<1>8. CASE Ack(h)
  <2>1. hook[h].at = "ack" /\ Goto(h, Exported(ev[h]))
        /\ data' = IF data.trace = hook[h].trace THEN Closed(Unchanged(h)) ELSE data
    BY <1>8 DEF Ack, Update, AfterUpdate
  <2>2. data.trace = hook[h].trace /\ Closed(Unchanged(h)).trace = NoHook
    BY <2>1, <1>2 DEF HoldsTurn, Exports, Closed, DataType
  <2>3. ev[h].kind # "prompt"
    BY <2>1, <1>3 DEF Exported
  <2> QED
    BY <2>1, <2>2, <2>3
<1> QED
  BY <1>1, <1>4, <1>5, <1>6, <1>7, <1>8, LastSteps

(* If no export fails and no update is lost, a stop leaves no turn open,   *)
(* and a prompt only its own, whatever the hooks of tools do meanwhile     *)
(* (_handle_stop, _handle_stop_failure, _handle_user_prompt_submit).       *)
THEOREM StopsClose == Spec => StopCloses
<1>1. TurnInv /\ SerialInv /\ [Next]_vars =>
        [\A h \in Hooks :
           Orderly /\ ~mode.down /\ Running(h) /\ hook'[h].at = "done" =>
             /\ ev[h].kind \in {"stop", "failure"} => data'.trace = NoHook
             /\ ev[h].kind = "prompt" => data'.trace = h]_vars
  BY StopStep
<1> QED
  BY <1>1, TurnInvariant, SerialInvariant, PTL DEF Spec, StopCloses
=============================================================================
