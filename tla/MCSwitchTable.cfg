SPECIFICATION Spec
CONSTANTS
  Fields <- MCFields
  Values <- MCValues
  Packets <- MCPackets
  FlowMods <- MCFlowMods
  ANY = ANY
  NoPort = NoPort
  CONTROLLER = ctl
  None = None
  in_port = in_port
  dst = dst
  a = a
  b = b
  Ports = {p1, ctl}
  Priorities = {1, 2}
  Matches <- NarrowMatches
  Commands = {"ADD", "MODIFY", "MODIFY_STRICT", "DELETE", "DELETE_STRICT"}
  Priority = {1, 2}
  ActionLists = {{}, {p1}}
  Timeouts <- NoTimeouts
  FlagSets <- CheckFlags
  PacketOuts = {}
  MaxEntries = 3
  MaxBuffers = 0
  Period = 2
  MaxTime = 0
INVARIANT TableSorted
INVARIANT UniqueRules
PROPERTY ImplementsRuleSet
