------------------------------ MODULE MCRequests ------------------------------
(* Two overlapping jobs of one process, on a chain that has reduced a      *)
(* request and its resolution from the start.                              *)
EXTENDS Requests, TLC

OneResolved == <<NewRequest, 0>>
AllHere == [j \in Job |-> Here]
Jobs == Permutations(Job)
=============================================================================
