SPECIFICATION Spec
CONSTANTS
  Known <- MCKnown
  Cycle = 2
  MinInterval = 1
  MaxChanges = 4
INVARIANT WithinTimeout
PROPERTY EveryPortProbed
