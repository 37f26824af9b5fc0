\* Three hooks, or four, in nine environments: failing exports, commands, dying
\* hooks, lost updates, overlapping stops, transcripts without a tree, the end
\* of a session; two transcript lines.
SPECIFICATION Spec
CONSTANTS
  Hooks = {h1, h2, h3, h4}
  NoHook = NoHook
  Tools = {t1}
  Agents = {a1}
  NoItem = NoItem
  MaxLines = 2
  Modes <- AllModes
CONSTRAINT FewHooks
SYMMETRY Symmetry
INVARIANTS ClaudeTypeOK StableIds TurnsShareNothing
PROPERTIES TurnKeptUntilSent ObservationKeptUntilSent StopCloses
CHECK_DEADLOCK FALSE
