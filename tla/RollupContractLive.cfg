CONSTANTS
  ZkApps <- MCOneZkApp
  Job = {j1, j2}
  MaxActions = 2
SPECIFICATION FairSpec
PROPERTIES
  EventuallyReduced
