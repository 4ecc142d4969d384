CONSTANTS
  Hashes <- OneSide
  Active = {5}
  Answering = {1, 2, 3, 4}
  Ephemeral = {1}
  L2Learning = TRUE
  FloodPorts <- MCFloodPorts
  Warm <- MCWarm
  Late = {}
  MaxUp = 1
  MaxDown = 2
SPECIFICATION Spec
INVARIANT AnswersFromOwnServer
