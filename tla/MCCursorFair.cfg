\* Three hooks, prompts, stops and session ends one after the other, tools at
\* any time.  Liveness, so no SYMMETRY; StartedInOrder fixes the order of the
\* interchangeable hooks instead.
SPECIFICATION FairSpec
CONSTANTS
  Hooks <- ThreeHooks
  NoHook = NoHook
  Gens = {g1, g2}
  NoGen = NoGen
  Texts = {x1}
  NoText = NoText
  NoTurn = NoTurn
  Cap <- Caps
  Modes <- OrderlyClosings
  AliasCap = 1
  ResponseCap = 1
  ThoughtCap = 1
  MarkerCap = 3
CONSTRAINT StartedInOrder
PROPERTY ClosedTurnIsSent
CHECK_DEADLOCK FALSE
