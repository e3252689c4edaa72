-------------------------- MODULE MCRollupContract --------------------------
\* Instances of RollupContract for TLC.
EXTENDS RollupContract, TLC

\* Two of the four contracts, enough for one to be counted between two others.
MCZkApps == <<"DKG", "ROUND1">>

\* One contract, where two actions already meet.
MCOneZkApp == <<"DKG">>

JobSymmetry == Permutations(Job)
=============================================================================
