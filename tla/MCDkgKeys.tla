----------------------------- MODULE MCDkgKeys -----------------------------
\* An instance of DkgKeys for TLC.
EXTENDS DkgKeys, TLC
=============================================================================
