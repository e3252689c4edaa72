------------------------------ MODULE MCResponses ------------------------------
(* Two overlapping jobs, two requests that one member answers.             *)
EXTENDS Responses, TLC

FirstAnswered == <<0>>
ProcessedFirst == <<"processed", "finalized">>
Jobs == Permutations(Job)
=============================================================================
