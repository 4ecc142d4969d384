CONSTANTS
  None = None
  Switches = {1, 2, 3}
  Cables <- Triangle
  HostPorts <- NoHosts
  Fragile = {{1, 2}}
  NoFlood = FALSE
  HoldDown = TRUE
  MaxTimers = 1
  Leaving = {2}
  Flaky = {2}
  MaxOlder = 1
  Asked <- OneAsks
SPECIFICATION L2Spec
INVARIANTS TypeOK CacheFaithful LinksFollow RightPaths FlowsFollow
CHECK_DEADLOCK FALSE
