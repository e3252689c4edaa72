------------------------------ MODULE MCPlatform ------------------------------
\* Instances of Platform for TLC.
EXTENDS Platform, TLC

Create == [kind |-> "create", id |-> 0, of |-> 0]

\* A campaign, a project that participates in it, and the end of the campaign.
OneOfEach ==
  [s \in Service |->
     CASE s = "treasury" -> <<[kind |-> "complete", id |-> 0, of |-> 0]>>
       [] s = "funding" -> <<>>
       [] OTHER -> <<Create>>]

CONSTANT Second

\* One pass goes from service to service, the second one is of participations.
AllAndSecond ==
  [p \in Pass |-> IF p = Second THEN {"participation"} ELSE Service]
=============================================================================
