---------------------------- MODULE MCHarnesses ----------------------------
(***************************************************************************)
(* Harnesses with values for its constants, and the bounds of each state   *)
(* space.                                                                  *)
(***************************************************************************)
EXTENDS Harnesses, TLC

(* Hooks are numbers, so that they can be taken in their order.            *)
Three == 1..3
Five == 1..5
HooksPerHarness ==
  "opencode" :> Three @@ "gemini" :> Five @@ "omp" :> Five @@ "copilot" :> 1..6
    @@ "kiro" :> 1..6 @@ "antigravity" :> Three @@ "devin" :> Three @@ "codex" :> {1}
RecordsPerHarness == "antigravity" :> 5 @@ "codex" :> 5 @@ "claude" :> 4
Task == {[turn |-> 1, step |-> 1, sub |-> FALSE]}
TwoAgents == <<"a1", "a2">>
FourCommands == 1..4

(* The bound on a state space: a rarer circumstance (a death, an overlap,  *)
(* a sub-agent) is explored with one hook less.                            *)
Spare == \E h \in DOMAIN hooks : hooks[h].at = "new"

Bound ==
  CASE harness = "opencode" ->
         (world.crashes > 0 \/ world.ran # {} \/ \E m \in world.done : m.sub) => Spare
    [] harness = "gemini" ->
         /\ (world.crashes > 0 \/ world.overlap \/ (\E h \in Five : hooks[h].kind = "afterTool")
               \/ \E i \in DOMAIN sent : sent[i].what = "tool") => Spare
         /\ world.overlap => Cardinality({h \in Five : Ge!Running(h)}) < 3
         /\ world.overlap /\ world.crashes > 0 => hooks[4].at = "new"
    [] harness = "omp" -> world.died # {} =>
         \/ Spare
         \/ /\ Cardinality(world.died) = 2 /\ world.race = "none"
            /\ \A h \in Five : hooks[h].tools = 0
    [] harness = "copilot" ->
         (world.died # {} \/ world.named \/ Co!Events("subagentStop") # {}) => Spare
    [] harness = "kiro" ->
         /\ (world.died # {} \/ world.overlap \/ Ki!Events("agentSpawn") # {}) => Spare
         /\ world.overlap => world.died = {} /\ Cardinality(Ki!Events("preTool")) < 3
    [] harness = "antigravity" ->
         world.overlap \/ world.crashes > 0 => Spare /\ Len(world.records) < 4
    [] harness = "devin" ->
         /\ world.crashes + world.fails > 0 \/ world.overlap =>
              Spare /\ Len(world.nodes) < 3
         /\ world.crashes + world.fails < 2
    [] harness = "claude" ->
         /\ Len(sent) < 2 /\ (Len(sent) = world.turns => world.turns < 2)
         /\ Len(sent) > 0 => Len(world.log) < 4
         /\ world.odd => \A a \in DOMAIN world.by : world.by[a] = None
    [] OTHER -> TRUE

(* Of steps that commute, one order is enough: a hook that has begun moves *)
(* on where nothing keeps the order of beginnings; opencode's hooks inside *)
(* the lock run on; what Antigravity and Devin write comes while no hook   *)
(* is running, unless hooks overlap, and what Codex writes before its hook *)
(* begins; a sub-agent of Claude Code runs to its end before the others    *)
(* move; the events of a graph are named in their order.                   *)
AtRest == \A h \in DOMAIN hooks : hooks[h].at \in {"new", "done"}
MovesOn(S) == \A h \in S : hooks[h] # hooks'[h]

(* Hooks are interchangeable until they begin.                             *)
FirstFirst ==
  \A h \in DOMAIN hooks :
    hooks[h].at = "new" /\ hooks'[h].at # "new" => \A g \in 1..(h - 1) : hooks[g].at # "new"

InOrder ==
  CASE harness = "opencode" ->
         Op!Inside # {} =>
           \/ \E h \in Op!Inside : hooks[h] # hooks'[h]
           \/ \E h \in Three : hooks[h].at = "ready" /\ hooks'[h].at = "inside"
           \/ /\ \A h \in Op!Inside : hooks[h].steps = <<>> /\ hooks[h].todo = <<>>
              /\ \E h \in Three : hooks[h].at = "ready" /\ hooks'[h].at = "done"
    [] harness = "gemini" ->
         MovesOn({h \in Five : Ge!Running(h) /\ hooks[h].at = Ge!First(hooks[h].kind)})
    [] harness = "antigravity" ->
         /\ MovesOn({h \in Three : hooks[h].at = "ensure"})
         /\ world'.records # world.records => world.overlap \/ AtRest
    [] harness = "devin" ->
         /\ MovesOn({h \in Three : hooks[h].at = "resolve"})
         /\ world'.nodes # world.nodes => world.overlap \/ AtRest
    [] harness = "codex" ->
         world' # world => AtRest /\ Spare
    [] harness = "claude" ->
         LET awake == {a \in DOMAIN world.by : Tr!Awake(a)}
             inner == {a \in awake : \A b \in awake : world.by[b] \notin Tr!CallsIn(a)} IN
         awake # {} => \E a \in inner :
           \/ a \in world'.stopped
           \/ Len(world.log) < Len(world'.log) /\ world'.log[Len(world'.log)].file = a
           \/ \E b \in DOMAIN world.by : world.by[b] = None /\ world'.by[b] \in Tr!CallsIn(a)
    [] harness = "graph" ->
         \A k \in DOMAIN world'.events :
           world'.events[k].id <= 1 + Cardinality({world'.events[l].id : l \in 1..(k - 1)})
    [] OTHER -> TRUE
=============================================================================
