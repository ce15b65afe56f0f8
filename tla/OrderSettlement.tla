--------------------------- MODULE OrderSettlement ---------------------------
(***************************************************************************)
(* What the allocation process promises its clients, without the bus, the  *)
(* stock or the steps: an order is placed, the warehouse decides about it  *)
(* once, and Sales settles the order the way the warehouse decided.        *)
(* Nothing is ever taken back.                                             *)
(***************************************************************************)
CONSTANT Orders

VARIABLES status,    \* the order as its client sees it
          decision   \* what the warehouse has decided about it

settlementVars == <<status, decision>>

Outcome == {"allocated", "rejected"}

SettlementInit ==
  /\ status = [o \in Orders |-> "none"]
  /\ decision = [o \in Orders |-> "open"]

Place(o) ==
  /\ status[o] = "none"
  /\ status' = [status EXCEPT ![o] = "pending"]
  /\ UNCHANGED decision

Decide(o) ==
  /\ status[o] = "pending"
  /\ decision[o] = "open"
  /\ \E d \in Outcome : decision' = [decision EXCEPT ![o] = d]
  /\ UNCHANGED status

Settle(o) ==
  /\ status[o] = "pending"
  /\ decision[o] \in Outcome
  /\ status' = [status EXCEPT ![o] = decision[o]]
  /\ UNCHANGED decision

SettlementNext == \E o \in Orders : Place(o) \/ Decide(o) \/ Settle(o)

SettlementSpec == SettlementInit /\ [][SettlementNext]_settlementVars
=============================================================================
