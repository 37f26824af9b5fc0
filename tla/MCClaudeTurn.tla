---------------------------- MODULE MCClaudeTurn ----------------------------
(* ClaudeTurn for TLC: environments, bounds and the symmetry of a run. *)
EXTENDS ClaudeTurn, TLC

MainKinds == {"session", "expand", "prompt", "stop", "failure", "end"}

OrderlyMode(kinds) ==
  [kinds |-> kinds, serial |-> MainKinds, log |-> "stable",
   down |-> FALSE, crashes |-> FALSE, faults |-> FALSE]

(* Exports fail while tools run.                                           *)
Retries == [OrderlyMode({"prompt", "post", "stop"}) EXCEPT !.down = TRUE]

(* Everything Claude Code waits for, in any order.                         *)
Commands == OrderlyMode({"session", "expand", "prompt", "stop", "failure"})

(* Hooks die, updates get lost ...                                         *)
Crashes == [OrderlyMode({"prompt", "post", "agent", "stop"}) EXCEPT !.down = TRUE, !.crashes = TRUE]
Faults(kind) ==
  [OrderlyMode({"prompt", kind, "stop"}) EXCEPT !.crashes = kind = "agent", !.faults = TRUE]

(* ... or a stop overlaps with everything.                                 *)
Overlaps == [OrderlyMode({"prompt", "post", "agent", "stop"}) EXCEPT !.serial = {"prompt"}]

(* Transcripts that yield no tree, and none at all.                        *)
Legacy(l) == [OrderlyMode({"prompt", "pre", "post", "agent", "note", "stop"}) EXCEPT !.log = l]

Ends == OrderlyMode({"prompt", "post", "stop", "end"})

AllModes ==
  {Retries, Commands, Crashes, Faults("agent"), Faults("post"), Overlaps,
   Legacy("old"), Legacy("none"), Ends}

CommandModes == {Commands}

(* Four hooks where they follow each other, three where much may fail.     *)
FewHooks ==
  mode \in {Retries, Commands} \/ \E h \in Hooks : hook[h].at = "new"

Symmetry == Permutations(Hooks)
=============================================================================
