SPECIFICATION Spec
CONSTANTS
  Fields <- MCFields
  Values <- MCValues
  Packets <- MCPackets
  FlowMods <- MCFlowMods
  ANY = ANY
  NoPort = NoPort
  CONTROLLER = ctl
  None = None
  in_port = in_port
  dst = dst
  a = a
  b = b
  Ports = {p1, ctl}
  Priorities = {1, 2}
  Matches <- TwoMatches
  Commands = {"ADD", "MODIFY", "DELETE"}
  Priority = {1}
  ActionLists = {{p1}, {ctl}}
  Timeouts <- SomeTimeouts
  FlagSets <- AllFlags
  PacketOuts = {{ctl}}
  MaxEntries = 1
  MaxBuffers = 2
  Period = 2
  MaxTime = 4
INVARIANTS TypeOK LifetimeBounded
PROPERTIES NoSilentRemoval BufferedUntilReleased
