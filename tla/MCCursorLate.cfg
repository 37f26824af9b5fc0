\* Five hooks with a fixed script of events, stops overlap with everything:
\* prompt, its stop, a rotated id, the next prompt, a late event.
SPECIFICATION Spec
CONSTANTS
  Hooks <- FiveHooks
  NoHook = NoHook
  Gens = {g1, g2}
  NoGen = NoGen
  Texts = {x1}
  NoText = NoText
  NoTurn = NoTurn
  Cap <- Caps
  Modes <- StopsOverlap
  AliasCap = 1
  ResponseCap = 1
  ThoughtCap = 1
  MarkerCap = 3
CONSTRAINTS StartedInOrder Scripted
INVARIANT LateEventsAlwaysStayOut
CHECK_DEADLOCK FALSE
