CONSTANTS
  Round = 2
  Server = {s1}
  Roller = {s1}
  MaxKey = 2
  Member = {m1}
  Repeats = TRUE
  MaxActions = 3
  MaxInFlight = 1
SPECIFICATION Spec
INVARIANTS
  OrderIsKept
