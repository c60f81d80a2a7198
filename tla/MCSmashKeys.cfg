SPECIFICATION Spec
CONSTANTS
  p1 = p1 p2 = p2 p3 = p3
  Pids = {p1, p2, p3}
  NoPid = NoPid NoTimer = NoTimer
  Commands = {"ext", "ext&", "jobs", "fg", "bg", "kill", "quit", "quit kill", "chprompt"}
  Signals = {"SIGSTOP", "SIGCONT", "SIGKILL"}
  MaxJobArg = 3
  Timers = {}
  Keys = TRUE
  Exits = TRUE
  StrayStops = TRUE
SYMMETRY Symmetric
CHECK_DEADLOCK FALSE
INVARIANTS TypeOK NoCrash JobPidsDistinct StaleForegroundHarmless
