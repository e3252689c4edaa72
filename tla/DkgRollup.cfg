CONSTANTS
  Worker = {w1}
  Committee = {c1, c2}
  First = c1
  History <- TwoKeys
  MaxActions = 7
  MaxInterrupted = 1
SPECIFICATION RollupSpec
INVARIANTS
  DocumentsFollowActions
  PlainBatchProves
PROPERTIES
  StoppedForEver
