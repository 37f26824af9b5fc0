---------------------------- MODULE MCCursorTurn ----------------------------
(* CursorTurn for TLC: environments, caps and the symmetry of a run. *)
EXTENDS CursorTurn, TLC

CONSTANTS AliasCap, ResponseCap, ThoughtCap, MarkerCap

Caps == [aliases |-> AliasCap, responses |-> ResponseCap,
         thoughts |-> ThoughtCap, markers |-> MarkerCap]

OrderlyMode(kinds) ==
  [kinds |-> kinds, serial |-> {"prompt", "stop", "sessionEnd"},
   fresh |-> TRUE, crashes |-> FALSE, faults |-> FALSE]

(* A stop overlaps with everything.                                        *)
SteadyMode(kinds) == [OrderlyMode(kinds) EXCEPT !.serial = {"prompt", "sessionEnd"}]

(* Nothing is ordered, hooks die, files fail, generation ids come back.    *)
FaultyMode(kinds) ==
  [kinds |-> kinds, serial |-> {}, fresh |-> FALSE, crashes |-> TRUE, faults |-> TRUE]

TurnKinds == {"prompt", "tool", "stop"}

StopRaces == {OrderlyMode(TurnKinds), SteadyMode(TurnKinds)}

OrderlyClosings == {OrderlyMode({"prompt", "tool", "stop", "sessionEnd"})}

(* Whatever closes a turn, and whatever joins one, where everything may    *)
(* fail; and closings where nothing fails, but a stop overlaps with all.   *)
DeliveryRaces ==
  {FaultyMode({"prompt", "response", "stop", "sessionEnd"}),
   FaultyMode({"prompt", "thought", "tool", "before", "after", "sessionStart"}),
   SteadyMode({"prompt", "tool", "stop", "sessionEnd"})}

(* Hooks are alike: it is enough to look at those behaviours in which      *)
(* they are started in the order of their numbers.                         *)
StartedInOrder ==
  \A h, o \in Hooks : h < o /\ hook[h].at = "new" => hook[o].at = "new"

Symmetry == Permutations(Hooks) \cup Permutations(Gens)

ThreeHooks == 1..3
FiveHooks == 1..5

(* The five events of the late-event run: two turns, a stop of the first   *)
(* one and an event under a rotated id in each of them.                    *)
LateScript == <<"prompt", "stop", "tool", "prompt", "tool">>
Scripted ==
  \A h \in Hooks : hook[h].at # "new" =>
    ev[h].kind = LateScript[h] /\ (h = 1 => ev[h].gen # NoGen)

StopsOverlap == {SteadyMode(TurnKinds)}
=============================================================================
