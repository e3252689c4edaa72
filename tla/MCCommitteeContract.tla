------------------------ MODULE MCCommitteeContract ------------------------
\* An instance of CommitteeContract for TLC.
EXTENDS CommitteeContract, TLC
=============================================================================
