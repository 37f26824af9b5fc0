--------------------------- MODULE MCStateManager ---------------------------
(* StateManager for TLC: the updates and the lock modes a run checks. *)
EXTENDS StateManager

CONSTANTS Count, Trace, Text

TwoKeys == {Count, Trace}

(* Two updates of one key that do not commute and one of another key.      *)
SomeOps == {[kind |-> "increment", key |-> Count],
            [kind |-> "set", key |-> Count, val |-> Text],
            [kind |-> "delete", key |-> Trace],
            [kind |-> "set", key |-> Trace, val |-> 1]}

SomeWords == {Text}

AllModes == ModeType
StrictMode == {[breaks |-> FALSE, unlinkOpen |-> TRUE, removed |-> FALSE]}
=============================================================================
