CONSTANTS
  ZkApps <- MCZkApps
  Job = {j1, j2}
  MaxActions = 2
SPECIFICATION Spec
SYMMETRY JobSymmetry
INVARIANTS
  TypeOK
  TreesAreRight
  UndisturbedSucceeds
