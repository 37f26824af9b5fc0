----------------------------- MODULE Harnesses -----------------------------
(***************************************************************************)
(* One state space per small harness, side by side: the initial state      *)
(* chooses the harness, every step is its own.  So do the event graph, the *)
(* tree of Claude Code and the setup.  The modules share no state, so what *)
(* holds here holds of each of them as it is; a variable that one does not *)
(* have stays as it is.                                                    *)
(***************************************************************************)
EXTENDS Naturals, Sequences, FiniteSets

CONSTANTS
  None,
  HooksOf,    (* per harness, its hook processes                            *)
  MaxCrashes, MaxDeaths, (* of hooks; of those of omp                       *)
  MaxFails, MaxTurns, MaxSteps, MaxNodes, MaxSessions, MaxCalls,
  MaxRecords, (* per harness that reads records, the bound on them          *)
  MaxMessages, MaxOdd, MaxEvents, MaxValidations, MaxReports,
  TaskCalls, Tasks, Overlaps, Races, Named, MainFile, Agents, Names, Absent, Ids,
  Commands, Lenient, Strict

VARIABLES harness, store, hooks, world, sent

vars == <<harness, store, hooks, world, sent>>

Op == INSTANCE OpencodeReconcile WITH Hooks <- HooksOf["opencode"], Calls <- TaskCalls
Ge == INSTANCE GeminiTurn WITH Hooks <- HooksOf["gemini"]
Om == INSTANCE OmpRun WITH Hooks <- HooksOf["omp"], MaxCrashes <- MaxDeaths
Co == INSTANCE CopilotTurn WITH Hooks <- HooksOf["copilot"]
Ki == INSTANCE KiroTurn WITH Hooks <- HooksOf["kiro"]
An == INSTANCE AntigravityMark WITH
        Hooks <- HooksOf["antigravity"], MaxRecords <- MaxRecords["antigravity"]
De == INSTANCE DevinFlush WITH Hooks <- HooksOf["devin"]
Cx == INSTANCE CodexRollout WITH
        Hooks <- HooksOf["codex"], MaxRecords <- MaxRecords["codex"]
Tr == INSTANCE ClaudeTree WITH MaxRecords <- MaxRecords["claude"], Main <- MainFile
Gr == INSTANCE EventGraph WITH graph <- world, Calls <- Ids
In == INSTANCE Install

ASSUME HarnessesAssumption ==
  /\ Op!OpencodeAssumption /\ Ge!GeminiAssumption /\ Om!OmpAssumption /\ Co!CopilotAssumption
  /\ Ki!KiroAssumption /\ An!AntigravityAssumption /\ De!DevinAssumption
  /\ Cx!CodexAssumption /\ Tr!TreeAssumption /\ Gr!EventGraphAssumption
  /\ In!InstallAssumption

Init ==
  \/ harness = "opencode" /\ Op!Init
  \/ harness = "gemini" /\ Ge!Init
  \/ harness = "omp" /\ Om!Init
  \/ harness = "copilot" /\ Co!Init
  \/ harness = "kiro" /\ Ki!Init
  \/ harness = "antigravity" /\ An!Init
  \/ harness = "devin" /\ De!Init
  \/ harness = "codex" /\ Cx!Init /\ store = {}
  \/ harness = "claude" /\ Tr!Init /\ hooks = <<>>
  \/ harness = "graph" /\ Gr!Init /\ store = {} /\ hooks = <<>> /\ sent = <<>>
  \/ harness = "setup" /\ In!Init /\ sent = <<>>

Next ==
  /\ UNCHANGED harness
  /\ \/ harness = "opencode" /\ Op!Next
     \/ harness = "gemini" /\ Ge!Next
     \/ harness = "omp" /\ Om!Next
     \/ harness = "copilot" /\ Co!Next
     \/ harness = "kiro" /\ Ki!Next
     \/ harness = "antigravity" /\ An!Next
     \/ harness = "devin" /\ De!Next
     \/ harness = "codex" /\ Cx!Next /\ UNCHANGED store
     \/ harness = "claude" /\ Tr!Next /\ UNCHANGED hooks
     \/ harness = "graph" /\ Gr!Next /\ UNCHANGED <<store, hooks, sent>>
     \/ harness = "setup" /\ In!Next /\ UNCHANGED sent

Spec == Init /\ [][Next]_vars

-----------------------------------------------------------------------------
(* The properties, each of one harness; its module says what it means.     *)

OneSpanEach == harness = "opencode" => Op!OneSpanEach
SpansInPlace == harness = "opencode" => Op!SpansInPlace
TextOnceInItsTurn == harness = "gemini" => Ge!TextOnceInItsTurn
TurnsGetRoots == harness = "gemini" => Ge!TurnsGetRoots
RunsReported == harness = "omp" => Om!RunsReported
TurnReported == harness = "copilot" => Co!TurnReported
SlotsHold == harness = "kiro" => Ki!SlotsHold
WatermarkHolds == harness = "antigravity" => An!WatermarkHolds
CallsPaired == harness = "antigravity" => An!CallsPaired
StepsReportedOnce == harness = "devin" => De!StepsReportedOnce
TurnAsRecorded == harness = "codex" => Cx!TurnAsRecorded
TreeAsRecorded == harness = "claude" => Tr!TreeAsRecorded
DiagnosticsSayWhy == harness = "graph" => Gr!DiagnosticsSayWhy
NothingLeftBehind == harness = "setup" => In!NothingLeftBehind
OutputOfOwnTurn == harness = "opencode" => Op!OutputOfOwnTurn
UsageSummedOnce == harness = "codex" => Cx!UsageSummedOnce
=============================================================================
