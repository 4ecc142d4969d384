CONSTANTS
  Hosts = {h}
  Ips = {i1, i2}
  Switches = {s1, s2}
  Ports = {p1}
  MaxPackets = 1
  ArpAware = 0
  ArpSilent = 1
  PingLim = 2
  None = None
SPECIFICATION FairSpec
INVARIANT Freshest
PROPERTIES OnlySilentLeft AnsweringStays GoneForgotten
CHECK_DEADLOCK FALSE
