CONSTANTS
  Worker = {w1, w2}
  Committee = {c1, c2}
  MaxActions = 2
  MaxInterrupted = 2
SPECIFICATION FairSpec
INVARIANTS
  KeysAreThere
  EveryGenerateHasItsKey
  ActiveInOrder
PROPERTIES
  EventuallyActive
