---------------------------- MODULE MCMessageBus ----------------------------
(***************************************************************************)
(* Instances of MessageBus for TLC: an event with two handlers.            *)
(***************************************************************************)
EXTENDS MessageBus, TLC

CONSTANTS m1, t1, h1, h2

OneTopic == m1 :> t1
TwoHandlers == t1 :> {h1, h2}
=============================================================================
