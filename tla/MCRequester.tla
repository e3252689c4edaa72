---------------------------- MODULE MCRequester ----------------------------
\* Instances of Requester for TLC.
EXTENDS Requester, TLC

\* The contract has a task with a vote when the servers start with an empty database.
TaskWithVote == <<NewTask, 0>>
=============================================================================
