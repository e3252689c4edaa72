---------------------------- MODULE MCDkgRollup ----------------------------
\* An instance of DkgRollup for TLC.
EXTENDS DkgRollup, TLC

CONSTANT First

Action(enum, id) == [actionEnum |-> enum, committeeId |-> First, keyId |-> id]

\* The first committee has an active key and one in its second round.
TwoKeys ==
  <<Action("GENERATE_KEY", 0), Action("GENERATE_KEY", 0), Action("FINALIZE_ROUND_1", 0),
    Action("FINALIZE_ROUND_1", 1), Action("FINALIZE_ROUND_2", 0)>>
=============================================================================
