CONSTANTS
  Clients = {c1, c2}
  Leavers = {c2}
  Roamers = {c1}
  Addresses = {a}
  Elsewhere = Elsewhere
  Eager = {c2}
  None = None
  MaxSent <- MCMaxSent
SPECIFICATION FairSpec
INVARIANTS TypeOK NoConflict NoLeak
PROPERTIES BindingStays Ends
CHECK_DEADLOCK FALSE
