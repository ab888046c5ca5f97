SPECIFICATION Spec
CONSTANTS
  Reqs = {r1, r2, r3}
  Engines = {e1, e2, e3}
  Paths = {a, b}
  NoEngine = NoEngine
  Kinds = {"chat", "unload", "close"}
  Wishes = {"none"}
  DefaultForever = FALSE
  MayBreak = TRUE
SYMMETRY Symmetry
VIEW Live
INVARIANTS CountedRight SomeoneMoves
CHECK_DEADLOCK FALSE
