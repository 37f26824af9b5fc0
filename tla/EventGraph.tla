----------------------------- MODULE EventGraph -----------------------------
(***************************************************************************)
(* The life of one EventGraph (core/event_model.py): events are added,     *)
(* others report findings of their own, and it is validated, more than     *)
(* once: a validation takes back what the one before has reported, and     *)
(* nothing else.                                                           *)
(***************************************************************************)
EXTENDS EventModel

CONSTANTS
  Names,     (* the ids of events                                          *)
  Absent,    (* an id that no event has                                    *)
  Calls,     (* the ids of tool calls                                      *)
  MaxEvents, MaxValidations, MaxReports

EventGraphAssumption ==
  /\ Absent \notin Names /\ None \notin Names \cup Calls
  /\ {MaxEvents, MaxValidations, MaxReports} \subseteq Nat

VARIABLE
  graph  (* events; diagnostics: the findings, each with the validation it *)
         (* is from, 0 for a finding of others; runs: the validations;     *)
         (* reports: the findings of others; fresh: no event was added     *)
         (* since the last validation                                      *)

Events == [id : Names, parent : Names \cup {Absent, None}, call : Calls \cup {None}]

Init ==
  graph = [events |-> <<>>, diagnostics |-> {}, runs |-> 0, reports |-> 0, fresh |-> FALSE]

AddEvent ==
  /\ Len(graph.events) < MaxEvents
  /\ \E e \in Events : graph' = [graph EXCEPT !.events = Append(@, e), !.fresh = FALSE]

(* The parser, the overlay of observations or the merge of a subagent      *)
(* appends a finding to the list.                                          *)
Report ==
  /\ graph.reports < MaxReports
  /\ graph' = [graph EXCEPT !.reports = @ + 1,
       !.diagnostics = @ \cup {[what |-> Finding("report", graph.reports + 1), by |-> 0]}]

(* validate: what is retained is told by identity, not by equality.        *)
Validate ==
  /\ graph.runs < MaxValidations
  /\ LET retained == {d \in graph.diagnostics : d.by = 0 \/ d.by # graph.runs}
         new == {[what |-> f, by |-> graph.runs + 1] : f \in Findings(graph.events)} IN
     graph' = [graph EXCEPT !.runs = @ + 1, !.fresh = TRUE, !.diagnostics = retained \cup new]

Next == AddEvent \/ Report \/ Validate

Spec == Init /\ [][Next]_graph

-----------------------------------------------------------------------------
(* Properties *)

Ev == graph.events
At(code) == {d.what.at : d \in {e \in graph.diagnostics : e.what.code = code}}

(* The loops among the events, taken from their parents alone: the least   *)
(* sets of events that one cannot leave upwards.                           *)
Closed(parent, X) ==
  X # {} /\ \A i \in X : \E j \in X : IsFirst(Ev, j) /\ parent[i] = Ev[j].id

Loops(parent) ==
  {X \in SUBSET DOMAIN Ev :
     Closed(parent, X) /\ \A Y \in SUBSET X : Closed(parent, Y) => Y = X}

(* The renderer makes a forest of any graph, and gives up no more edges    *)
(* than that takes: one of each cycle, of its earliest event, and those    *)
(* that lead nowhere.  After a validation the diagnostics say why: each    *)
(* event without its parent is reported as missing_parent or is on a       *)
(* reported cycle, all cycles are reported and nothing else is taken for   *)
(* one.  There is one copy of a finding however often the graph was        *)
(* validated, findings of others stay, and a graph without a finding has   *)
(* one root at most and each id and each call once.                        *)
DiagnosticsSayWhy ==
  LET parent == [i \in DOMAIN Ev |-> Ev[i].parent]
      safe == [i \in DOMAIN Ev |-> SafeParent(Ev, i)]
      loops == Loops(parent)
      lost == {i \in DOMAIN Ev : parent[i] # None /\ safe[i] = None}
      adrift == {i \in lost : parent[i] \notin IdsOf(Ev)} IN
  /\ Loops(safe) = {}
  /\ \A i \in lost \ adrift : \E X \in loops : i \in X /\ \A j \in X : i <= j
  /\ graph.fresh =>
       /\ At("parent_cycle") = UNION loops
       /\ At("missing_parent") = adrift
       /\ \A d \in graph.diagnostics : d.by \in {0, graph.runs}
       /\ (\A d \in graph.diagnostics : d.by = 0) =>
            \A i, j \in DOMAIN Ev : i # j =>
              /\ Ev[i].id # Ev[j].id
              /\ Ev[i].parent # None \/ Ev[j].parent # None
              /\ Ev[i].call # Ev[j].call \/ Ev[i].call = None
  /\ Cardinality({d \in graph.diagnostics : d.by = 0}) = graph.reports
=============================================================================
