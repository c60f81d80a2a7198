SPECIFICATION FairSpec
CONSTANTS
  p1 = p1 p2 = p2 p3 = p3
  Pids = {p1, p2, p3}
  NoPid = NoPid NoTimer = NoTimer
  Commands = {"ext&", "ext"}
  Signals = {}
  MaxJobArg = 0
  Timers = {2}
  Keys = FALSE
  Exits = FALSE
  StrayStops = FALSE
CHECK_DEADLOCK FALSE
INVARIANTS AlarmArmed
PROPERTIES TimeoutsEnforced
