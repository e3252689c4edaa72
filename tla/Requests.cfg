CONSTANTS
  Process = {dkg}
  Here = dkg
  Job = {j1, j2}
  Home <- AllHere
  Before <- OneResolved
  MaxActions = 3
SYMMETRY Jobs
SPECIFICATION Spec
INVARIANTS
  TypeOK
  RequestsAreRight
  RightWhileSteady
PROPERTIES
  StrandedForEver
