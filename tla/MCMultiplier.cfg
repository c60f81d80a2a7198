SPECIFICATION MultSpec
CONSTANTS
  Base = 2
INVARIANTS ProductExact Latency
PROPERTIES RunsEnd
