\* Prompts, commands and stops that all follow each other, and no failure.
SPECIFICATION Spec
CONSTANTS
  Hooks = {h1, h2, h3, h4}
  NoHook = NoHook
  Tools = {t1}
  Agents = {a1}
  NoItem = NoItem
  MaxLines = 2
  Modes <- CommandModes
SYMMETRY Symmetry
INVARIANT CommandOnItsTurn
CHECK_DEADLOCK FALSE
