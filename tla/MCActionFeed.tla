---------------------------- MODULE MCActionFeed ----------------------------
\* The instance of ActionFeed for TLC.  Activations are not declared symmetric,
\* because the run checks liveness, too.
EXTENDS ActionFeed, TLC
=============================================================================
