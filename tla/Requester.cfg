CONSTANTS
  Job = {j1, j2}
  Here = j1
  Before <- TaskWithVote
  MaxActions = 3
  MaxTasks = 2
SPECIFICATION Spec
INVARIANTS
  TypeOK
  ExactWhileSteady
  TreesAreBehind
  VotesHaveTasks
