CONSTANTS
  Server = {dkg}
  Roller = {dkg}
  MaxActions = 2
SPECIFICATION FairSpec
INVARIANTS
  CommitteesAreOnChain
  ActiveHasCommittee
  UndisturbedSucceeds
PROPERTIES
  EventuallyCreated
