---------------------------- MODULE AtomicState ----------------------------
(***************************************************************************)
(* What StateManager promises its callers: a dict on which every set,      *)
(* delete and increment takes effect at one instant, on what the previous  *)
(* one left.                                                               *)
(***************************************************************************)
EXTENDS StateData

VARIABLE dict

Init == dict \in Dicts

Next == \E o \in Ops : dict' = Effect(o, dict)

Spec == Init /\ [][Next]_dict
=============================================================================
