\* Four hooks: prompts, tools and stops of two generations, stops that overlap
\* with everything or wait for each other.
SPECIFICATION Spec
CONSTANTS
  Hooks = {h1, h2, h3, h4}
  NoHook = NoHook
  Gens = {g1, g2}
  NoGen = NoGen
  Texts = {x1}
  NoText = NoText
  NoTurn = NoTurn
  Cap <- Caps
  Modes <- StopRaces
  AliasCap = 1
  ResponseCap = 1
  ThoughtCap = 1
  MarkerCap = 3
SYMMETRY Symmetry
INVARIANTS LateEventsStayOut StopOncePerGeneration
PROPERTY StopsItsOwnTurn
CHECK_DEADLOCK FALSE
