SPECIFICATION FairSpec
CONSTANTS
  Reqs = {r1, r2, r3}
  Engines = {e1, e2}
  Paths = {a, b}
  NoEngine = NoEngine
  Kinds = {"chat", "unload", "embed"}
  Wishes = {"none", "forever"}
  DefaultForever = FALSE
  MayBreak = FALSE
INVARIANTS OneModelOnTheClock
PROPERTIES UnloadFrees EveryRequestEnds IdleModelUnloads ImplementsLeases
CHECK_DEADLOCK FALSE
