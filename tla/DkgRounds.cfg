CONSTANTS
  Round = 1
  Server = {s1}
  Roller = {s1}
  MaxKey = 2
  Member = {m1}
  Repeats = FALSE
  MaxActions = 2
  MaxInFlight = 1
SPECIFICATION FairSpec
INVARIANTS
  TypeOK
  ContributionsArrive
  LeavesAreRight
PROPERTIES
  EventuallyFinalized
