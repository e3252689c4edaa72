---------------------------- MODULE ActionMirror ----------------------------
(***************************************************************************)
(* What the database promises about one contract, whatever the number of   *)
(* server processes that maintain it and whenever they stop: the mirrored  *)
(* actions are a prefix of the actions dispatched on chain, recorded one   *)
(* at a time in chain order and never rewritten, and an action becomes     *)
(* active once, in chain order, and only after the contract reduced it.    *)
(*                                                                         *)
(*   log      the actions dispatched to the contract, oldest first         *)
(*   reduced  how many of them the contract has reduced                    *)
(*   mirror   position in the log |-> the action recorded for it           *)
(*   active   the positions the database calls active                      *)
(***************************************************************************)
EXTENDS Naturals, Sequences

CONSTANT Action

VARIABLES log, reduced, mirror, active

vars == <<log, reduced, mirror, active>>

Init ==
  /\ log = <<>>
  /\ reduced = 0
  /\ mirror = [h \in {} |-> log[h]]
  /\ active = {}

\* The contract accepts one more action of a user.
Dispatch(a) ==
  /\ log' = Append(log, a)
  /\ UNCHANGED <<reduced, mirror, active>>

\* The contract reduces the actions up to position n.
Reduce(n) ==
  /\ n > reduced
  /\ reduced' = n
  /\ UNCHANGED <<log, mirror, active>>

\* The next unrecorded action enters the database.
Record(h) ==
  /\ h \notin DOMAIN mirror
  /\ h > 1 => h - 1 \in DOMAIN mirror
  /\ mirror' = [g \in DOMAIN mirror \cup {h} |-> log[g]]
  /\ UNCHANGED <<log, reduced, active>>

\* The oldest recorded action that is not active yet becomes active.
Activate(h) ==
  /\ h \in DOMAIN mirror
  /\ h \notin active
  /\ h <= reduced
  /\ h > 1 => h - 1 \in active
  /\ active' = active \cup {h}
  /\ UNCHANGED <<log, reduced, mirror>>

Next ==
  \/ \E a \in Action : Dispatch(a)
  \/ \E n \in 1 .. Len(log) : Reduce(n)
  \/ \E h \in 1 .. Len(log) : Record(h) \/ Activate(h)

Spec == Init /\ [][Next]_vars
=============================================================================
