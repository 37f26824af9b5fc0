----------------------------- MODULE EventModel -----------------------------
(***************************************************************************)
(* Graphs of typed events (core/event_model.py) and how the renderer of    *)
(* Claude Code (span_renderer.py) makes a tree of spans of them.  A graph  *)
(* is a sequence of events; an event has an id, the id of its parent, and  *)
(* if it is a tool, the id of its call.  Nothing says that ids are unique, *)
(* that parents are there or that following them comes to an end.          *)
(***************************************************************************)
EXTENDS Sequences, Positions

CONSTANT None  (* no parent, no call                                        *)

IdsOf(events) == {events[i].id : i \in DOMAIN events}
IsFirst(events, i) == \A j \in 1..(i - 1) : events[j].id # events[i].id

(* first_by_id                                                             *)
FirstAt(events, id) == CHOOSE i \in DOMAIN events : events[i].id = id /\ IsFirst(events, i)

(* parent_by_id: of two events with one id the first counts.               *)
ParentById(events) ==
  [id \in {id \in IdsOf(events) : events[FirstAt(events, id)].parent \in IdsOf(events)} |->
     events[FirstAt(events, id)].parent]

(* The ids on the way up from an id; None once it has left the graph.      *)
WayUp(parent, id) ==
  LET up[n \in 0..Cardinality(DOMAIN parent)] ==
        IF n = 0 THEN id
        ELSE IF up[n - 1] \in DOMAIN parent THEN parent[up[n - 1]] ELSE None
  IN up

(* A mutated form: the whole way, with what leads into the cycle.          *)
CycleAndTail(parent, id) ==
  LET up == WayUp(parent, id) IN
  IF \E i, j \in DOMAIN up : i < j /\ up[i] = up[j] /\ up[i] # None
  THEN {up[n] : n \in DOMAIN up} ELSE {}

(* The cycle that the way up from an id runs into: the part of the way     *)
(* from the first id that comes again.                                     *)
CycleFrom(parent, id) ==
  LET up == WayUp(parent, id)
      again == {i \in DOMAIN up : up[i] # None /\ \E j \in DOMAIN up : i < j /\ up[i] = up[j]} IN
  {up[i] : i \in {i \in DOMAIN up : \E a \in again : a <= i}}

Cycles(events) ==
  LET parent == ParentById(events) IN
  {CycleFrom(parent, id) : id \in IdsOf(events)} \ {{}}

-----------------------------------------------------------------------------
(* EventGraph.validate: a finding has a code and the place of the event it *)
(* is about; a cycle is reported for each id on it.                        *)
Finding(code, i) == [code |-> code, at |-> i]

Findings(events) ==
  LET places == DOMAIN events
      before(i) == 1..(i - 1)
      repeated == {i \in places : ~IsFirst(events, i)}
      astray == {i \in places : events[i].parent \notin IdsOf(events) \cup {None}}
      called == {i \in places : events[i].call # None
                                  /\ \E j \in before(i) : events[j].call = events[i].call}
      roots == {i \in places : events[i].parent = None
                                 /\ \E j \in before(i) : events[j].parent = None} IN
  {Finding("duplicate_event_id", i) : i \in repeated}
    \cup {Finding("parent_cycle", FirstAt(events, id)) : id \in UNION Cycles(events)}
    \cup {Finding("missing_parent", i) : i \in astray}
    \cup {Finding("duplicate_tool_call_id", i) : i \in called}
    \cup {Finding("multiple_roots", i) : i \in roots}

-----------------------------------------------------------------------------
(* _safe_parent_event_ids: the first event of every cycle loses its parent *)
(* and so does every event whose parent is not there.                      *)
BreakAt(events) ==
  LET earliest(c) == CHOOSE i \in {FirstAt(events, id) : id \in c} :
                       \A id \in c : i <= FirstAt(events, id)
  IN {earliest(c) : c \in Cycles(events)}

SafeParent(events, i) ==
  IF i \in BreakAt(events) \/ events[i].parent \notin IdsOf(events) THEN None
  ELSE events[i].parent
=============================================================================
