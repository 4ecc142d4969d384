CONSTANTS
  Hashes <- OneSide
  Active = {5, 7}
  Answering = {}
  Ephemeral = {1}
  L2Learning = FALSE
  FloodPorts <- MCFloodPorts
  Warm <- Cold
  Late = {1, 5}
  MaxUp = 2
  MaxDown = 1
SPECIFICATION FairSpec
INVARIANTS RightServer ShortestPath PathInstalled
PROPERTY ReachesServerOnceStable
