CONSTANTS
  None = None
  host = host
  Switches = {1, 2, 3, 4}
  Cables <- Ring
  HostPorts <- OneHost
  Fragile = {}
  NoFlood = TRUE
  HoldDown = TRUE
  MaxTimers = 1
  Leaving = {}
  Flaky = {}
  MaxOlder = 0
SPECIFICATION StartupSpec
INVARIANTS NoFloodLoop
PROPERTY EventuallySpans
CHECK_DEADLOCK FALSE
