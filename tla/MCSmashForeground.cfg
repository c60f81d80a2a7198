SPECIFICATION Spec
CONSTANTS
  p1 = p1 p2 = p2 p3 = p3
  Pids = {p1, p2, p3}
  NoPid = NoPid NoTimer = NoTimer
  Commands = {"ext", "ext&", "fg"}
  Signals = {}
  MaxJobArg = 1
  Timers = {1}
  Keys = TRUE
  Exits = TRUE
  StrayStops = FALSE
SYMMETRY Symmetric
CHECK_DEADLOCK FALSE
INVARIANTS JobIdsIncrease NoLostChild WaitInterruptible StatusTruthful
PROPERTIES JobIdStable
