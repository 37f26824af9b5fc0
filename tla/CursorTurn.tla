----------------------------- MODULE CursorTurn -----------------------------
(***************************************************************************)
(* The hooks of one Cursor conversation (tracing/cursor/hooks).  Every     *)
(* event is a process of its own; the processes share, on disk, the        *)
(* conversation's active turn, the list of generations that reached their  *)
(* end ("terminal markers"), the root of each generation and the stacks    *)
(* that carry data from one event to a later one.  A step is one operation *)
(* of adapter.py, which holds a FileLock for its duration, or the sending  *)
(* of one span; between two steps any other hook may run.                  *)
(*                                                                         *)
(* A prompt does not send its root span: the turn stays on disk until its  *)
(* stop, the next prompt or the end of the session claims and sends it.    *)
(* The root span id of a turn is the name of the hook of its prompt.       *)
(***************************************************************************)
EXTENDS Sequences, Integers, Positions

CONSTANTS
  Hooks,    (* hook processes; each one handles one event                *)
  NoHook,   (* no parent span                                            *)
  Gens,     (* generation ids                                            *)
  NoGen,    (* an event without generation_id (some CLI events)          *)
  Texts,    (* thoughts                                                  *)
  NoText,   (* an event without one; for a stop, one without token data  *)
  NoTurn,   (* no active turn                                            *)
  Cap,      (* MAX_GENERATION_ALIASES, MAX_RESPONSE_FRAGMENTS, ...       *)
  Modes     (* environments a behaviour may have; see ModeType           *)

Kinds == {"prompt", "response", "thought", "tool", "before", "after",
          "stop", "sessionStart", "sessionEnd"}

(* kinds:   the events that occur                                          *)
(* serial:  Cursor starts an event of these kinds only when no other hook  *)
(*          of these kinds is running; if prompts are among them, also no  *)
(*          event of a generation before the hook of its prompt answered   *)
(* fresh:   a prompt has a generation id no event had before               *)
(* crashes: a hook may die, or abort on an exception of a stack operation  *)
(* faults:  a disk operation may fail and return its failure value         *)
ModeType ==
  [kinds : SUBSET Kinds, serial : SUBSET Kinds, fresh : BOOLEAN, crashes : BOOLEAN, faults : BOOLEAN]

ASSUME CursorAssumption ==
  /\ NoHook \notin Hooks
  /\ NoGen \notin Gens
  /\ NoText \notin Texts
  /\ Cap \in [{"aliases", "responses", "thoughts", "markers"} -> Nat \ {0}]
  /\ Modes \subseteq ModeType

AnyGen == Gens \cup {NoGen}

Turn == [root : Hooks, gen : AnyGen, aliases : Seq(Gens),
         responses : Seq(Hooks), thoughts : Seq(Texts)]

(* NoTurn must differ from every turn; a turn has a field it lacks.        *)
ASSUME NoTurnAssumption == NoTurn \notin Turn

VARIABLES
  mode,
  active,   (* active_<conversation>.json                                *)
  markers,  (* terminal_<conversation>                                   *)
  nogen,    (* terminal_nogen_<conversation> exists                      *)
  roots,    (* per generation, root_<generation>                         *)
  stacks,   (* per stack name and generation, <name>_<gen>.stack.json    *)
  ev,       (* per hook, the event it handles                            *)
  hook,     (* per hook, how far it has come and its local variables     *)
  used,     (* history: generations that events have carried             *)
  spans     (* history: the spans sent                                   *)

disk == <<active, markers, nogen, roots, stacks>>
history == <<used, spans>>
vars == <<mode, disk, ev, hook, history>>

(* Prompts and session ends come one after the other and nothing fails;    *)
(* stops may still be late, duplicated or overlap with everything.         *)
Steady ==
  {"prompt", "sessionEnd"} \subseteq mode.serial /\ mode.fresh /\ ~mode.crashes /\ ~mode.faults

(* A stop, too, is finished before the next one, or a prompt, begins.      *)
Orderly == Steady /\ "stop" \in mode.serial

-----------------------------------------------------------------------------
(* Turns and events *)

(* s[-n:] *)
Capped(s, n) == SubSeq(s, IF Len(s) > n THEN Len(s) - n + 1 ELSE 1, Len(s))

Ids(t) == ({t.gen} \ {NoGen}) \cup Elems(t.aliases)

IdList(t) == (IF t.gen = NoGen THEN <<>> ELSE <<t.gen>>) \o t.aliases

Matches(t, g) == g = NoGen \/ g \in Ids(t)

(* The ids a stop reports for its turn: the turn's own and the event's.    *)
StopIds(t, g) ==
  CASE t = NoTurn -> IF g = NoGen THEN <<>> ELSE <<g>>
    [] t # NoTurn /\ Matches(t, g) -> IdList(t)
    [] OTHER -> Append(IdList(t), g)

IsMarked(g) == g \in Elems(markers)

Unmarked(ids) == ElementsAt(ids, {i \in DOMAIN ids : ~IsMarked(ids[i])})

Mark(ids) == markers' = Capped(markers \o Unmarked(ids), Cap.markers)

Entry == [by : Hooks, turn : Hooks \cup {NoHook}, trace : AnyGen]

StackNames == {"orphan_llm", "shell"}

(* A hook before its event, and one that has returned or died.             *)
Idle(at) == [at |-> at, seen |-> NoTurn, parent |-> NoHook, mine |-> NoTurn, taken |-> <<>>]

Running(h) == hook[h].at \notin {"new", "done"}

(* Hook h goes on at s with the local variables l.                         *)
Continue(h, s, l) ==
  hook' = [hook EXCEPT ![h] = IF s = "done" THEN Idle("done") ELSE [l EXCEPT !.at = s]]

Goto(h, s) == Continue(h, s, hook[h])

NewTurn(h) ==
  [root |-> h, gen |-> ev[h].gen, aliases |-> <<>>, responses |-> <<>>, thoughts |-> <<>>]

(* Mutant of TraceOf: a rotated generation id gets a trace of its own.     *)
EventTrace(h) == ev[h].gen

(* What _resolve_turn returns: parent span, trace and canonical generation *)
(* of the event.  A trace id is a hash of the generation, or of the        *)
(* conversation when there is none.                                        *)
ParentOf(h) == IF hook[h].seen = NoTurn THEN hook[h].parent ELSE hook[h].seen.root
TraceOf(h) == IF hook[h].seen = NoTurn THEN ev[h].gen ELSE hook[h].seen.gen

StackOf(h) ==
  IF ev[h].kind \in {"response", "stop"} THEN <<"orphan_llm", ev[h].gen>> ELSE <<"shell", TraceOf(h)>>

(* A span: its name, the hook that sent it, the turn it is the root of or  *)
(* whose root is its parent, its trace, the hooks whose data it carries    *)
(* and the generations whose end it reports.                               *)
Sent(h, name, turn, trace, from, ends) ==
  spans' = spans \cup {[name |-> name, by |-> h, turn |-> turn, trace |-> trace,
                        from |-> from, ends |-> ends]}

-----------------------------------------------------------------------------
(* Where a handler goes on *)

First(k) ==
  CASE k \in {"prompt", "sessionEnd"} -> "flush"
    [] k = "sessionStart" -> "send"
    [] OTHER -> "get"

(* A response that no active turn took. *)
NotAppended(e) == IF e.gen = NoGen THEN "send" ELSE "late"

(* The event e has been resolved to the turn t, or to none.                *)
Handle(e, t) ==
  LET gen == IF t = NoTurn THEN e.gen ELSE t.gen
  IN CASE e.kind = "response" -> IF t = NoTurn THEN NotAppended(e) ELSE "append"
       [] e.kind = "thought" -> IF t = NoTurn THEN "send" ELSE "hash"
       [] e.kind = "before" -> IF gen = NoGen THEN "done" ELSE "push"
       [] e.kind = "after" -> IF gen = NoGen THEN "send" ELSE "pop"
       [] e.kind = "stop" ->
            IF t # NoTurn /\ e.gen = NoGen /\ Ids(t) # {} THEN "done" ELSE "claim"
       [] OTHER -> "send"

(* A stop without a turn sends an LLM span only for orphans or tokens.     *)
Standalone(e, taken) == IF taken # <<>> \/ e.text # NoText THEN "llm" ELSE "stop"

AfterClaim(e, t) ==
  CASE t # NoTurn -> "clear"
    [] t = NoTurn /\ e.gen # NoGen -> "pop"
    [] OTHER -> Standalone(e, <<>>)

AfterFlush(e) ==
  CASE e.kind = "sessionEnd" -> "end"
    [] e.kind # "sessionEnd" /\ e.gen = NoGen -> "reset"
    [] OTHER -> "saveRoot"

(* A flush marks a turn before it sends it, every other closure after.     *)
Flushes(h) == ev[h].kind # "stop" /\ hook[h].mine.root # h

(* Mutant of AfterMark: marking is taken for the last step of a flush, too. *)
AfterMarkDone(h) == "done"

AfterMark(h) == IF Flushes(h) THEN "root" ELSE "done"

-----------------------------------------------------------------------------
(* Events and the resolution of an event to its turn *)

Init ==
  /\ mode \in Modes
  /\ active = NoTurn
  /\ markers = <<>>
  /\ nogen = FALSE
  /\ roots = [g \in Gens |-> NoHook]
  /\ stacks = [k \in StackNames \X Gens |-> <<>>]
  /\ ev = [h \in Hooks |-> [kind |-> "tool", gen |-> NoGen, text |-> NoText]]
  /\ hook = [h \in Hooks |-> Idle("new")]
  /\ used = {}
  /\ spans = {}

(* Cursor waits for the hook that handles e before it fires the event.     *)
Precedes(e, k, g) ==
  \/ e.kind \in mode.serial /\ k \in mode.serial
  \/ e.kind = "prompt" /\ "prompt" \in mode.serial /\ e.gen = g /\ g # NoGen

(* Cursor starts a hook process: main and _dispatch.                       *)
Start(h, k, g, x) ==
  /\ hook[h].at = "new"
  /\ k \in mode.kinds
  /\ k \in {"thought", "stop"} \/ x = NoText
  /\ k = "thought" => x # NoText
  /\ ~\E o \in Hooks : Running(o) /\ Precedes(ev[o], k, g)
  /\ mode.fresh /\ k = "prompt" => g \notin used
  /\ ev' = [ev EXCEPT ![h] = [kind |-> k, gen |-> g, text |-> x]]
  /\ used' = used \cup ({g} \ {NoGen})
  /\ Goto(h, First(k))
  /\ UNCHANGED <<mode, disk, spans>>

(* active_turn_get, the start of _resolve_turn_readonly.  Every handler    *)
(* but that of a stop also bumps last_activity_ms, left out here.          *)
GetActive(h) ==
  /\ hook[h].at = "get"
  /\ Continue(h,
       IF active = NoTurn THEN "readRoot"
       ELSE IF Matches(active, ev[h].gen) THEN Handle(ev[h], active)
       ELSE "check",
       [hook[h] EXCEPT !.seen = active])
  /\ UNCHANGED <<mode, disk, ev, history>>

(* Mutant of CheckMarked: events of ended generations join the turn.       *)
CheckNothing(h) ==
  /\ hook[h].at = "check"
  /\ Goto(h, IF ev[h].kind = "stop" THEN "done" ELSE "alias")
  /\ UNCHANGED <<mode, disk, ev, history>>

(* The active turn does not know the event's generation.  If that one has  *)
(* ended, the event is late and keeps out of the turn; if not, it is a new *)
(* alias, except that a stop is ignored.                                   *)
CheckMarked(h) ==
  /\ hook[h].at = "check"
  /\ IF IsMarked(ev[h].gen) THEN Continue(h, "readRoot", [hook[h] EXCEPT !.seen = NoTurn])
     ELSE Goto(h, IF ev[h].kind = "stop" THEN "done" ELSE "alias")
  /\ UNCHANGED <<mode, disk, ev, history>>

(* gen_root_span_get: no turn, but maybe a root saved for the generation.  *)
ReadRoot(h) ==
  /\ hook[h].at = "readRoot"
  /\ Continue(h, Handle(ev[h], NoTurn),
       [hook[h] EXCEPT !.parent = IF ev[h].gen = NoGen THEN NoHook ELSE roots[ev[h].gen]])
  /\ UNCHANGED <<mode, disk, ev, history>>

SeenIsActive(h) == active # NoTurn /\ active.root = hook[h].seen.root

(* active_turn_record_alias: only the turn the event was resolved to.      *)
RecordAlias(h) ==
  /\ hook[h].at = "alias"
  /\ LET g == ev[h].gen
         turn == IF g \in Ids(active) THEN active
                 ELSE [active EXCEPT !.aliases = Capped(Append(@, g), Cap.aliases)]
         seen == IF SeenIsActive(h) THEN turn ELSE hook[h].seen
     IN /\ active' = IF SeenIsActive(h) THEN turn ELSE active
        /\ Continue(h, Handle(ev[h], seen), [hook[h] EXCEPT !.seen = seen])
  /\ UNCHANGED <<mode, markers, nogen, roots, stacks, ev, history>>

-----------------------------------------------------------------------------
(* Responses, thoughts, tools *)

(* Mutant of AddResponse: the list is not cut. *)
AddResponseUncut(h) ==
  /\ hook[h].at = "append"
  /\ IF SeenIsActive(h)
     THEN active' = [active EXCEPT !.responses = Append(@, h)] /\ Goto(h, "done")
     ELSE UNCHANGED active /\ Goto(h, NotAppended(ev[h]))
  /\ UNCHANGED <<mode, markers, nogen, roots, stacks, ev, history>>

(* active_turn_add_response *)
AddResponse(h) ==
  /\ hook[h].at = "append"
  /\ IF SeenIsActive(h)
     THEN /\ active' = [active EXCEPT !.responses = Capped(Append(@, h), Cap.responses)]
          /\ Goto(h, "done")
     ELSE /\ UNCHANGED active
          /\ Goto(h, NotAppended(ev[h]))
  /\ UNCHANGED <<mode, markers, nogen, roots, stacks, ev, history>>

CheckLate(h) ==
  /\ hook[h].at = "late"
  /\ Goto(h, IF IsMarked(ev[h].gen) THEN "done" ELSE "push")
  /\ UNCHANGED <<mode, disk, ev, history>>

(* state_push: a response waits for its stop, a command for its output.    *)
Push(h) ==
  /\ hook[h].at = "push"
  /\ stacks' = [stacks EXCEPT ![StackOf(h)] =
                  Append(@, [by |-> h, turn |-> ParentOf(h), trace |-> TraceOf(h)])]
  /\ Goto(h, "done")
  /\ UNCHANGED <<mode, active, markers, nogen, roots, ev, history>>

(* Mutant of Pop: the entry stays on the stack. *)
Peek(h) ==
  /\ hook[h].at = "pop"
  /\ LET s == stacks[StackOf(h)]
         taken == IF s = <<>> THEN <<>> ELSE <<s[Len(s)]>>
     IN Continue(h, IF ev[h].kind = "after" THEN "send" ELSE Standalone(ev[h], taken),
                 [hook[h] EXCEPT !.taken = taken])
  /\ UNCHANGED <<mode, disk, ev, history>>

(* state_pop: afterShellExecution takes the last entry; a stop pops until  *)
(* the stack is empty and has the oldest first in the end.                 *)
Pop(h) ==
  /\ hook[h].at = "pop"
  /\ LET s == stacks[StackOf(h)] IN
       IF s = <<>>
       THEN /\ Goto(h, IF ev[h].kind = "after" THEN "send" ELSE Standalone(ev[h], hook[h].taken))
            /\ UNCHANGED stacks
       ELSE /\ stacks' = [stacks EXCEPT ![StackOf(h)] = SubSeq(s, 1, Len(s) - 1)]
            /\ Continue(h, IF ev[h].kind = "after" THEN "send" ELSE "pop",
                        [hook[h] EXCEPT !.taken = <<s[Len(s)]>> \o @])
  /\ UNCHANGED <<mode, active, markers, nogen, roots, ev, history>>

(* active_turn_add_thought_hash; the salt of the hash is the turn's root.  *)
AddThought(h) ==
  /\ hook[h].at = "hash"
  /\ LET isNew == SeenIsActive(h) /\ ev[h].text \notin Elems(active.thoughts)
     IN /\ active' = IF isNew
                     THEN [active EXCEPT !.thoughts = Capped(Append(@, ev[h].text), Cap.thoughts)]
                     ELSE active
        /\ Goto(h, IF active = NoTurn \/ isNew THEN "send" ELSE "done")
  /\ UNCHANGED <<mode, markers, nogen, roots, stacks, ev, history>>

(* The one span of an event that has nothing to wait for.  Session Start   *)
(* (Cursor CLI only) becomes the root of its generation.                   *)
SendPoint(h) ==
  /\ hook[h].at = "send"
  /\ Sent(h, ev[h].kind, ParentOf(h), TraceOf(h),
          IF ev[h].kind = "response" THEN {h} ELSE {e.by : e \in Elems(hook[h].taken)}, {})
  /\ Goto(h, IF ev[h].kind = "sessionStart" /\ ev[h].gen # NoGen THEN "saveRoot" ELSE "done")
  /\ UNCHANGED <<mode, disk, ev, used>>

-----------------------------------------------------------------------------
(* The stop *)

(* Mutant of Claim: markers are written but not looked at.                 *)
ClaimAgain(h) ==
  /\ hook[h].at = "claim"
  /\ LET ids == StopIds(hook[h].seen, ev[h].gen) IN
       /\ IF ids = <<>> THEN nogen' = TRUE /\ UNCHANGED markers ELSE Mark(ids) /\ UNCHANGED nogen
       /\ Goto(h, AfterClaim(ev[h], hook[h].seen))
  /\ UNCHANGED <<mode, active, roots, stacks, ev, history>>

(* terminal_turn_claim_many, terminal_nogen_claim: the first stop to       *)
(* report an id is the only one.                                           *)
Claim(h) ==
  /\ hook[h].at = "claim"
  /\ LET ids == StopIds(hook[h].seen, ev[h].gen)
         taken == IF ids = <<>> THEN nogen ELSE \E g \in Elems(ids) : IsMarked(g)
     IN IF taken THEN Goto(h, "done") /\ UNCHANGED <<markers, nogen>>
        ELSE /\ IF ids = <<>> THEN nogen' = TRUE /\ UNCHANGED markers
                ELSE Mark(ids) /\ UNCHANGED nogen
             /\ Goto(h, AfterClaim(ev[h], hook[h].seen))
  /\ UNCHANGED <<mode, active, roots, stacks, ev, history>>

(* Mutants of ClearIfMatches: whatever is active gets closed; the turn the *)
(* stop saw is closed though another hook may have taken it.               *)
ClearAny(h) ==
  /\ hook[h].at = "clear"
  /\ active' = NoTurn
  /\ Continue(h, IF active = NoTurn THEN "done" ELSE "root", [hook[h] EXCEPT !.mine = active])
  /\ UNCHANGED <<mode, markers, nogen, roots, stacks, ev, history>>

ClearSeen(h) ==
  /\ hook[h].at = "clear"
  /\ active' = IF SeenIsActive(h) THEN NoTurn ELSE active
  /\ Continue(h, "root", [hook[h] EXCEPT !.mine = hook[h].seen])
  /\ UNCHANGED <<mode, markers, nogen, roots, stacks, ev, history>>

(* active_turn_clear_if_matches: by root, or by the canonical generation   *)
(* of the turn the stop saw.                                               *)
ClearIfMatches(h) ==
  /\ hook[h].at = "clear"
  /\ IF \/ SeenIsActive(h)
        \/ active # NoTurn /\ hook[h].seen.gen \in Ids(active)
     THEN /\ active' = NoTurn
          /\ Continue(h, "root", [hook[h] EXCEPT !.mine = active])
     ELSE UNCHANGED active /\ Goto(h, "done")
  /\ UNCHANGED <<mode, markers, nogen, roots, stacks, ev, history>>

(* _emit_closed_turn sends the root ... *)
SendRoot(h) ==
  /\ hook[h].at = "root"
  /\ Sent(h, "root", hook[h].mine.root, hook[h].mine.gen, {}, Ids(hook[h].mine))
  /\ Goto(h, "llm")
  /\ UNCHANGED <<mode, disk, ev, used>>

(* ... and the turn's one LLM span (a prompt always has a text).  A stop   *)
(* without a turn sends what orphans and token counts it has.              *)
SendLlm(h) ==
  /\ hook[h].at = "llm"
  /\ LET mine == hook[h].mine
         taken == hook[h].taken
     IN CASE mine # NoTurn -> Sent(h, "llm", mine.root, mine.gen, Elems(mine.responses), {})
          [] mine = NoTurn /\ taken # <<>> ->
               Sent(h, "llm", taken[1].turn, taken[1].trace, {e.by : e \in Elems(taken)}, {})
          [] OTHER -> Sent(h, "llm", ParentOf(h), TraceOf(h), {}, {})
  /\ Goto(h, IF ev[h].kind = "stop" THEN "stop" ELSE "clean")
  /\ UNCHANGED <<mode, disk, ev, used>>

(* The Agent Stop span, under the turn that was in fact closed.            *)
SendStop(h) ==
  /\ hook[h].at = "stop"
  /\ LET mine == hook[h].mine
         ends == Elems(StopIds(hook[h].seen, ev[h].gen))
     IN IF mine = NoTurn THEN Sent(h, "stop", ParentOf(h), TraceOf(h), {}, ends)
        ELSE Sent(h, "stop", mine.root, mine.gen, {}, ends)
  /\ Goto(h, "clean")
  /\ UNCHANGED <<mode, disk, ev, used>>

-----------------------------------------------------------------------------
(* Prompt, sessionEnd and the closing of a turn *)

(* Mutant of Flush: the turn is read but not removed.                      *)
FlushCopy(h) ==
  /\ hook[h].at = "flush"
  /\ Continue(h, IF active = NoTurn THEN AfterFlush(ev[h]) ELSE "mark",
              [hook[h] EXCEPT !.mine = active])
  /\ UNCHANGED <<mode, disk, ev, history>>

(* active_turn_clear: whatever turn is pending is closed.                  *)
Flush(h) ==
  /\ hook[h].at = "flush"
  /\ active' = NoTurn
  /\ Continue(h, IF active = NoTurn THEN AfterFlush(ev[h]) ELSE "mark",
              [hook[h] EXCEPT !.mine = active])
  /\ UNCHANGED <<mode, markers, nogen, roots, stacks, ev, history>>

(* terminal_turn_mark_many, before the sending of a flushed turn and after *)
(* that of every other one.                                                *)
MarkClosed(h) ==
  /\ hook[h].at = "mark"
  /\ Mark(IF ev[h].kind = "stop" THEN StopIds(hook[h].mine, ev[h].gen) ELSE IdList(hook[h].mine))
  /\ Goto(h, AfterMark(h))
  /\ UNCHANGED <<mode, active, nogen, roots, stacks, ev, history>>

(* state_cleanup_generation for every id of the turn that was closed, and  *)
(* for the id of a stop or sessionEnd itself.                              *)
CleanUp(h) ==
  /\ hook[h].at = "clean"
  /\ LET mine == hook[h].mine
         gens == (IF mine = NoTurn THEN {} ELSE Ids(mine))
                   \cup (IF ev[h].kind = "stop" \/ mine = NoTurn THEN {ev[h].gen} ELSE {})
     IN /\ roots' = [g \in Gens |-> IF g \in gens THEN NoHook ELSE roots[g]]
        /\ stacks' = [k \in DOMAIN stacks |-> IF k[2] \in gens THEN <<>> ELSE stacks[k]]
        /\ CASE mine = NoTurn -> Goto(h, IF ev[h].kind = "stop" THEN "done" ELSE "wipe")
             [] mine # NoTurn /\ Flushes(h) ->
                  Continue(h, AfterFlush(ev[h]), [hook[h] EXCEPT !.mine = NoTurn])
             [] OTHER -> Goto(h, "mark")
  /\ UNCHANGED <<mode, active, markers, nogen, ev, history>>

(* terminal_nogen_clear: a prompt without generation allows its stop.      *)
ResetNogen(h) ==
  /\ hook[h].at = "reset"
  /\ nogen' = FALSE
  /\ Goto(h, "save")
  /\ UNCHANGED <<mode, active, markers, roots, stacks, ev, history>>

(* gen_root_span_save, by a prompt or a CLI sessionStart.                  *)
SaveRoot(h) ==
  /\ hook[h].at = "saveRoot"
  /\ roots' = [roots EXCEPT ![ev[h].gen] = h]
  /\ Goto(h, IF ev[h].kind = "prompt" THEN "save" ELSE "done")
  /\ UNCHANGED <<mode, active, markers, nogen, stacks, ev, history>>

(* active_turn_save: the turn is pending from here on.                     *)
SaveTurn(h) ==
  /\ hook[h].at = "save"
  /\ active' = NewTurn(h)
  /\ Goto(h, "done")
  /\ UNCHANGED <<mode, markers, nogen, roots, stacks, ev, history>>

(* The Session End span, a root of its own.                                *)
EndSession(h) ==
  /\ hook[h].at = "end"
  /\ Sent(h, "sessionEnd", NoHook, ev[h].gen, {}, {})
  /\ Goto(h, IF ev[h].gen = NoGen THEN "wipe" ELSE "clean")
  /\ UNCHANGED <<mode, disk, ev, used>>

(* conversation_cleanup: an active turn is removed, not sent.              *)
RemoveActive(h) ==
  /\ hook[h].at = "wipe"
  /\ active' = NoTurn
  /\ Goto(h, "done")
  /\ UNCHANGED <<mode, markers, nogen, roots, stacks, ev, history>>

-----------------------------------------------------------------------------
(* Failures *)

(* An operation meets an OSError, or a lock it cannot get, before it has   *)
(* changed anything, and returns its failure value: no turn, no root       *)
(* match, claimed, not marked.  A prompt that cannot save its turn closes  *)
(* it at once.                                                             *)
FailOperation(h) ==
  /\ mode.faults
  /\ LET at == hook[h].at
         e == ev[h]
     IN \/ at = "get" /\ Goto(h, "readRoot")
        \/ at = "check" /\ Goto(h, IF e.kind = "stop" THEN "done" ELSE "alias")
        \/ at = "alias" /\ Goto(h, Handle(e, hook[h].seen))
        \/ at = "append" /\ Goto(h, NotAppended(e))
        \/ at = "late" /\ Goto(h, "push")
        \/ at = "hash" /\ Goto(h, "send")
        \/ at = "claim" /\ Goto(h, AfterClaim(e, hook[h].seen))
        \/ at \in {"clear", "wipe"} /\ Goto(h, "done")
        \/ at = "flush" /\ Goto(h, AfterFlush(e))
        \/ at = "mark" /\ Goto(h, AfterMark(h))
        \/ at = "reset" /\ Goto(h, "save")
        \/ at = "save" /\ Continue(h, "root", [hook[h] EXCEPT !.mine = NewTurn(h)])
  /\ UNCHANGED <<mode, disk, ev, history>>

(* The process is killed, or an exception of state_push, state_pop or a    *)
(* clean-up ends its handler: main catches it and the hook exits.          *)
Crash(h) ==
  /\ mode.crashes
  /\ Running(h)
  /\ Goto(h, "done")
  /\ UNCHANGED <<mode, disk, ev, history>>

Step(h) ==
  \/ GetActive(h) \/ CheckMarked(h) \/ ReadRoot(h) \/ RecordAlias(h)
  \/ AddResponse(h) \/ CheckLate(h) \/ Push(h) \/ Pop(h) \/ AddThought(h) \/ SendPoint(h)
  \/ Claim(h) \/ ClearIfMatches(h) \/ SendRoot(h) \/ SendLlm(h) \/ SendStop(h)
  \/ Flush(h) \/ MarkClosed(h) \/ CleanUp(h) \/ ResetNogen(h) \/ SaveRoot(h) \/ SaveTurn(h)
  \/ EndSession(h) \/ RemoveActive(h)

Next ==
  \E h \in Hooks :
    \/ \E k \in Kinds, g \in AnyGen, x \in Texts \cup {NoText} : Start(h, k, g, x)
    \/ Step(h) \/ FailOperation(h) \/ Crash(h)

Spec == Init /\ [][Next]_vars

(* A hook that has been started keeps running until it returns; Cursor     *)
(* need not start any.                                                     *)
FairSpec == Spec /\ \A h \in Hooks : WF_vars(Step(h))

-----------------------------------------------------------------------------

Stages ==
  {"new", "get", "check", "readRoot", "alias", "append", "late", "push", "pop", "hash", "send",
   "claim", "clear", "root", "llm", "stop", "clean", "mark", "flush", "reset", "saveRoot",
   "save", "end", "wipe", "done"}

HookType ==
  [at : Stages,
   seen : Turn \cup {NoTurn},
   parent : Hooks \cup {NoHook},
   mine : Turn \cup {NoTurn},
   taken : Seq(Entry)]

SpanType ==
  [name : (Kinds \ {"prompt", "before"}) \cup {"root", "llm"}, by : Hooks,
   turn : Hooks \cup {NoHook}, trace : AnyGen, from : SUBSET Hooks, ends : SUBSET Gens]

(* The state is well formed, lists respect their caps, and a handler has   *)
(* resolved or claimed a turn wherever it uses one.                        *)
CursorTypeOK ==
  /\ mode \in Modes
  /\ active \in Turn \cup {NoTurn}
  /\ active # NoTurn => /\ Len(active.aliases) <= Cap.aliases
                        /\ Len(active.responses) <= Cap.responses
                        /\ Len(active.thoughts) <= Cap.thoughts
  /\ markers \in Seq(Gens) /\ Len(markers) <= Cap.markers
  /\ nogen \in BOOLEAN
  /\ roots \in [Gens -> Hooks \cup {NoHook}]
  /\ stacks \in [StackNames \X Gens -> Seq(Entry)]
  /\ ev \in [Hooks -> [kind : Kinds, gen : AnyGen, text : Texts \cup {NoText}]]
  /\ hook \in [Hooks -> HookType]
  /\ \A h \in Hooks :
       /\ hook[h].at \in {"check", "alias", "append", "hash", "clear"} => hook[h].seen # NoTurn
       /\ hook[h].at \in {"root", "mark"} => hook[h].mine # NoTurn
  /\ used \subseteq Gens
  /\ spans \subseteq SpanType

(* README of the Cursor tracing: a pending root is closed once.  However   *)
(* stops, prompts and session ends race, die or fail on a turn, its root   *)
(* span is sent by one hook at most.                                       *)
RootAtMostOnce ==
  \A s, t \in spans : s.name = "root" /\ t.name = "root" /\ s.turn = t.turn => s = t

(* "Thinking, tool, response, and stop spans use the root trace ID and     *)
(* parent span ID" (README): whatever turn, saved root or stack entry a    *)
(* span took its parent from, it took that one's trace as well.            *)
ParentsShareTrace ==
  \A s \in spans : s.turn # NoHook => s.trace = ev[s.turn].gen

(* A response, or the start of a shell command, is data of one span: not   *)
(* of a turn and an orphan, of two turns or of two tool spans.             *)
SourcesUsedOnce ==
  \A s, t \in spans : s.from \cap t.from # {} => s = t

(* Duplicate and late stops are rejected: a generation's end is reported   *)
(* by one Agent Stop span, as long as its marker has not been pushed out   *)
(* and the marker file can be used.                                        *)
StopOncePerGeneration ==
  ~mode.faults =>
    \A s, t \in spans : s.name = "stop" /\ t.name = "stop" /\ s # t => s.ends \cap t.ends = {}

(* active_turn_clear_if_matches: a stop "must clear only the turn it       *)
(* actually resolved to, never whatever turn happens to be active right    *)
(* now", although it looked before it claimed and another turn may have    *)
(* been opened since.                                                      *)
StopsItsOwnTurn ==
  [][\A h \in Hooks :
       /\ Steady
       /\ hook[h].at = "clear" /\ hook'[h].mine # NoTurn
       => hook'[h].mine.root = hook[h].seen.root]_vars

ClosedIdsAreOut ==
  active # NoTurn => \A s \in spans : s.name = "root" => s.ends \cap Ids(active) = {}

(* An event of a turn that has been sent, under any id the turn was known  *)
(* by, never becomes part of a later turn: its id is no alias there.       *)
LateEventsStayOut == Orderly => ClosedIdsAreOut

(* terminal_turn_mark_many promises the same of "a successful stop close"  *)
(* whatever runs beside the stop.                                          *)
LateEventsAlwaysStayOut == Steady => ClosedIdsAreOut

RootSent(t) == \E s \in spans : s.name = "root" /\ s.turn = t

IsOpen(t) == active # NoTurn /\ active.root = t
IsHeld(t) == \E h \in Hooks : hook[h].mine # NoTurn /\ hook[h].mine.root = t
IsOver(t) == ev[t].kind = "prompt" /\ hook[t].at = "done"

Status(t) ==
  CASE RootSent(t) -> "sent"
    [] ~RootSent(t) /\ IsOpen(t) -> "open"
    [] ~RootSent(t) /\ ~IsOpen(t) /\ IsHeld(t) -> "closing"
    [] OTHER -> IF IsOver(t) THEN "lost" ELSE "none"

Delivery ==
  INSTANCE TurnDelivery WITH
    Turns <- Hooks, lossy <- ~Steady, status <- [t \in Hooks |-> Status(t)]

(* The hooks implement TurnDelivery: when prompts do not overlap and       *)
(* nothing fails, one turn is open at a time and none is lost.             *)
ImplementsDelivery == Delivery!Spec

(* A stop under any id of the pending turn, the next prompt or the end of  *)
(* the session gets the turn's root sent.                                  *)
Closes(h, t) ==
  /\ active # NoTurn /\ active.root = t
  /\ \/ hook[h].at = "flush"
     \/ hook[h].at = "get" /\ ev[h].kind = "stop" /\ ev[h].gen \in Ids(active)

ClosedTurnIsSent ==
  \A h, t \in Hooks : Orderly /\ Closes(h, t) ~> RootSent(t)
=============================================================================
