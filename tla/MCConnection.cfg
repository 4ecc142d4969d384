CONSTANTS
  None = None
  Dpids = {5}
  Sessions = {1, 2}
  PortNos = {1}
  States = {1, 2}
  MaxChanges = 2
  MaxEchos = 1
  MaxRefreshes = 1
SPECIFICATION FairSpec
INVARIANTS TypeOK PortsFaithful ClosedForgotten HiddenByOverlapOnly
PROPERTIES DownIsLast DownFollowsLoss
CHECK_DEADLOCK FALSE
