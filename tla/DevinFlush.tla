----------------------------- MODULE DevinFlush -----------------------------
(***************************************************************************)
(* The hooks of Devin (tracing/devin): Stop and SessionEnd flush the most  *)
(* recent session of the directory.  A flush reads the generations of the  *)
(* session from the database of Devin, looks each of them up in a file of  *)
(* those sent before, sends what is new as one trace and then appends it   *)
(* to that file, line by line; there is no lock.  A step is one access of  *)
(* the database or the file, or one generation sent with its tool calls.   *)
(***************************************************************************)
EXTENDS Naturals, Sequences, FiniteSets, Positions

CONSTANTS
  Hooks,      (* hook processes; each one is one flush, and its name stands *)
              (* for the trace id it draws                                  *)
  None,
  MaxCrashes, (* bound on the hooks that die                                *)
  MaxFails,   (* bound on the accesses of file or database that fail       *)
  MaxNodes,   (* bound on the nodes of the database                         *)
  MaxSessions,
  Overlaps    (* whether flushes may overlap, per behaviour                 *)

DevinAssumption ==
  /\ None \notin Hooks /\ Overlaps \subseteq BOOLEAN
  /\ {MaxCrashes, MaxFails, MaxNodes, MaxSessions} \subseteq Nat

VARIABLES
  store,  (* emitted_requests.txt, as a set of lines                       *)
  hooks,  (* per hook, where it is, its local variables                    *)
  world,  (* overlap; crashes; fails; nodes: the assistant nodes of the    *)
          (* database; recent: the most recent session; flushed: what the  *)
          (* flushes that came to their end had read                       *)
  sent    (* history: the spans handed to send_span                        *)

vars == <<store, hooks, world, sent>>

(* steps: what read_steps returned; i: the step the loop is at; new: the   *)
(* steps that were not found in the file.                                  *)
Unborn == [at |-> "new", session |-> 0, steps |-> <<>>, i |-> 1, new |-> <<>>]
Ended == [Unborn EXCEPT !.at = "done"]

Init ==
  /\ store = {}
  /\ hooks = [h \in Hooks |-> Unborn]
  /\ \E o \in Overlaps :
       world = [overlap |-> o, crashes |-> 0, fails |-> 0, nodes |-> <<>>,
                recent |-> 0, flushed |-> {}]
  /\ sent = <<>>

Running(h) == hooks[h].at \notin {"new", "done"}
Local(h) == hooks[h]
Goto(h, s, l) == hooks' = [hooks EXCEPT ![h] = [l EXCEPT !.at = s]]
Keeps == UNCHANGED <<store, world, sent>>

-----------------------------------------------------------------------------
(* Devin: a new generation, or a copy of one under another node, which may *)
(* have the content that the first lacks.                                  *)

NodesOf(s) ==
  ElementsAt(world.nodes, {i \in DOMAIN world.nodes : world.nodes[i].session = s})
Requests(s) == {NodesOf(s)[i].request : i \in DOMAIN NodesOf(s)}

Generate ==
  /\ Len(world.nodes) < MaxNodes
  /\ \E s \in 1..MaxSessions, c \in BOOLEAN :
       \E r \in Requests(s) \cup {Cardinality(Requests(s)) + 1} :
         world' = [world EXCEPT !.recent = s,
                     !.nodes = Append(@, [session |-> s, request |-> r, content |-> c])]
  /\ UNCHANGED <<store, hooks, sent>>

Fire(h) ==
  /\ hooks[h].at = "new"
  /\ world.overlap \/ \A o \in Hooks : ~Running(o)
  /\ Goto(h, "resolve", Unborn)
  /\ Keeps

-----------------------------------------------------------------------------
(* flush_session *)

Resolve(h) ==
  /\ Local(h).at = "resolve"
  /\ Goto(h, IF world.recent = 0 THEN "done" ELSE "read", [Local(h) EXCEPT !.session = world.recent])
  /\ Keeps

(* A mutated form: one step for every node.                                *)
StepsOfNodes(s) ==
  [i \in DOMAIN NodesOf(s) |-> [request |-> NodesOf(s)[i].request, content |-> NodesOf(s)[i].content]]

(* read_steps: one step for every request, in the order of the first       *)
(* nodes, with content if a copy has it.                                   *)
StepsOf(s) ==
  LET nodes == NodesOf(s)
      firsts == ElementsAt(nodes,
        {i \in DOMAIN nodes : \A j \in 1..(i - 1) : nodes[j].request # nodes[i].request})
      content(r) == \E j \in DOMAIN nodes : nodes[j].request = r /\ nodes[j].content IN
  [n \in DOMAIN firsts |->
     [request |-> firsts[n].request, content |-> content(firsts[n].request)]]

(* An error of the database reads as no generations.                       *)
ReadSteps(h) ==
  /\ Local(h).at = "read"
  /\ \/ /\ Goto(h, "check", [Local(h) EXCEPT !.steps = StepsOf(Local(h).session)])
        /\ UNCHANGED world
     \/ /\ world.fails < MaxFails
        /\ Goto(h, "check", Local(h))
        /\ world' = [world EXCEPT !.fails = @ + 1]
  /\ UNCHANGED <<store, sent>>

Key(l, step) == <<l.session, step.request>>

(* A mutated form: what cannot be looked up is taken for sent.             *)
UnreadMeansSent(l, step) == l

(* What cannot be looked up is taken for new.                              *)
UnreadMeansNew(l, step) == [l EXCEPT !.new = Append(@, step)]

(* already_emitted of one step: found in the file, not found, or the file  *)
(* cannot be read.                                                         *)
Check(h) ==
  /\ Local(h).at = "check" /\ Local(h).i <= Len(Local(h).steps)
  /\ LET l == [Local(h) EXCEPT !.i = @ + 1]
         step == Local(h).steps[Local(h).i] IN
     \/ /\ Goto(h, "check", IF Key(l, step) \in store THEN l ELSE [l EXCEPT !.new = Append(@, step)])
        /\ UNCHANGED world
     \/ /\ world.fails < MaxFails
        /\ Goto(h, "check", UnreadMeansNew(l, step))
        /\ world' = [world EXCEPT !.fails = @ + 1]
  /\ UNCHANGED <<store, sent>>

(* A flush has come to its end; the world takes note of what it had read.  *)
Finish(h) ==
  /\ hooks' = [hooks EXCEPT ![h] = Ended]
  /\ world' = [world EXCEPT !.flushed =
       @ \cup {Key(Local(h), Local(h).steps[i]) : i \in DOMAIN Local(h).steps}]

Checked(h) ==
  /\ Local(h).at = "check" /\ Local(h).i > Len(Local(h).steps)
  /\ IF Local(h).new = <<>>
     THEN Finish(h) /\ UNCHANGED <<store, sent>>
     ELSE Goto(h, "sendRoot", [Local(h) EXCEPT !.i = 1]) /\ Keeps

(* emit_interaction *)
SendRoot(h) ==
  /\ Local(h).at = "sendRoot"
  /\ sent' = Append(sent, [what |-> "root", trace |-> h, key |-> <<>>, content |-> FALSE])
  /\ Goto(h, "send", Local(h))
  /\ UNCHANGED <<store, world>>

SendStep(h) ==
  /\ Local(h).at = "send"
  /\ LET l == Local(h) step == l.new[l.i] IN
     /\ sent' = Append(sent, [what |-> "llm", trace |-> h, key |-> Key(l, step), content |-> step.content])
     /\ IF l.i = Len(l.new) THEN Goto(h, "mark", [l EXCEPT !.i = 1])
        ELSE Goto(h, "send", [l EXCEPT !.i = @ + 1])
  /\ UNCHANGED <<store, world>>

(* mark_emitted: a line that cannot be written is left out.                *)
Mark(h) ==
  /\ Local(h).at = "mark" /\ Local(h).i <= Len(Local(h).new)
  /\ Goto(h, "mark", [Local(h) EXCEPT !.i = @ + 1])
  /\ \/ store' = store \cup {Key(Local(h), Local(h).new[Local(h).i])} /\ UNCHANGED world
     \/ world.fails < MaxFails /\ world' = [world EXCEPT !.fails = @ + 1] /\ UNCHANGED store
  /\ UNCHANGED sent

Marked(h) ==
  /\ Local(h).at = "mark" /\ Local(h).i > Len(Local(h).new)
  /\ Finish(h)
  /\ UNCHANGED <<store, sent>>

Crash(h) ==
  /\ Running(h) /\ world.crashes < MaxCrashes
  /\ hooks' = [hooks EXCEPT ![h] = Ended]
  /\ world' = [world EXCEPT !.crashes = @ + 1]
  /\ UNCHANGED <<store, sent>>

Step(h) ==
  \/ Fire(h) \/ Resolve(h) \/ ReadSteps(h) \/ Check(h) \/ Checked(h) \/ SendRoot(h)
  \/ SendStep(h) \/ Mark(h) \/ Marked(h) \/ Crash(h)

Next == Generate \/ \E h \in Hooks : Step(h)

Spec == Init /\ [][Next]_vars

-----------------------------------------------------------------------------
(* Properties *)

SentKeys == {sent[i].key : i \in DOMAIN sent}

(* Whatever overlaps, dies or cannot be read or written, no generation is  *)
(* dropped: what a flush that came to its end had read, and what is in the *)
(* file, has been sent (flush_session, mark_emitted).  While flushes come   *)
(* one after the other and nothing fails, a generation is sent once,       *)
(* however many nodes it has and flushes there are.  In one trace it is    *)
(* there once in any case.                                                 *)
StepsReportedOnce ==
  /\ world.flushed \cup store \subseteq SentKeys
  /\ \A i, j \in DOMAIN sent :
       /\ sent[i].what = "llm" /\ sent[i].key = sent[j].key
       /\ sent[i].trace = sent[j].trace \/ (~world.overlap /\ world.crashes + world.fails = 0)
       => i = j
=============================================================================
