---------------------------- MODULE MCOutboxRelay ----------------------------
(***************************************************************************)
(* Instances of OutboxRelay for TLC.                                       *)
(***************************************************************************)
EXTENDS OutboxRelay, TLC

CONSTANTS s1, w1, w2, r1

\* Two handlers race for one aggregate.
RacingTarget == w1 :> s1 @@ w2 :> s1
=============================================================================
