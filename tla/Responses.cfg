CONSTANTS
  Job = {j1, j2}
  LastRequest = 1
  Threshold = 1
  EventOrder <- ProcessedFirst
  MaxCounter = 2
  Before <- FirstAnswered
  MaxResponses = 2
SYMMETRY Jobs
SPECIFICATION Spec
INVARIANTS
  TypeOK
  AnsweredInTurn
  CountedRight
PROPERTIES
  TooManyIsForEver
  CounterNeedsRestart
