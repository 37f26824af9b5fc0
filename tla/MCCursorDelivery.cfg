\* Three hooks, two generations, caps of one.  Closings, and what joins a turn,
\* each where nothing is ordered, hooks die, files fail and generation ids come
\* back; and, without failures, stops that overlap with everything.
SPECIFICATION Spec
CONSTANTS
  Hooks = {h1, h2, h3}
  NoHook = NoHook
  Gens = {g1, g2}
  NoGen = NoGen
  Texts = {x1}
  NoText = NoText
  NoTurn = NoTurn
  Cap <- Caps
  Modes <- DeliveryRaces
  AliasCap = 1
  ResponseCap = 1
  ThoughtCap = 1
  MarkerCap = 1
SYMMETRY Symmetry
INVARIANTS CursorTypeOK RootAtMostOnce ParentsShareTrace SourcesUsedOnce
PROPERTY ImplementsDelivery
CHECK_DEADLOCK FALSE
