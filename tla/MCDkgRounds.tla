---------------------------- MODULE MCDkgRounds ----------------------------
\* Instances of DkgRounds for TLC.
EXTENDS DkgRounds, TLC
=============================================================================
