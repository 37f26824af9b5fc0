----------------------------- MODULE StateData -----------------------------
(***************************************************************************)
(* The dict that core.common.StateManager keeps in a JSON file, and the    *)
(* three updates of it.  All values are stored as strings; what matters of *)
(* one is whether it reads as a number.                                    *)
(***************************************************************************)
EXTENDS Naturals

CONSTANTS
  Keys,     (* state keys: "trace_count", "current_trace_id", ...        *)
  Words,    (* stored strings that do not read as a number               *)
  Missing,  (* the value of a key that is not in the dict                *)
  Ops       (* the updates callers ask for                               *)

Vals == Nat \cup Words

OpType == [kind : {"set"}, key : Keys, val : Vals]
            \cup [kind : {"delete", "increment"}, key : Keys]

Dicts == [Keys -> Vals \cup {Missing}]

Empty == [k \in Keys |-> Missing]

ASSUME DataAssumption ==
  /\ Missing \notin Vals
  /\ Ops \subseteq OpType

(* A missing or non-numeric value counts as zero.                          *)
Successor(v) == IF v \in Nat THEN v + 1 ELSE 1

Effect(o, d) ==
  [d EXCEPT ![o.key] = CASE o.kind = "set" -> o.val
                         [] o.kind = "delete" -> Missing
                         [] o.kind = "increment" -> Successor(@)]
=============================================================================
