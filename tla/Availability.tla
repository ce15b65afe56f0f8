---------------------------- MODULE Availability ----------------------------
(***************************************************************************)
(* The event-sourced Availability aggregate, one per beer                  *)
(* (internal/warehouses/domain/availability.go), as operators on the state *)
(* its stream replays to: stream says whether it exists, quantity is what  *)
(* can still be sold, held the sales orders that hold stock.               *)
(*                                                                         *)
(* An operation that raises one of several events returns                  *)
(* [state, event]; the event's quantity is the new cumulative one, i.e.    *)
(* state.quantity.                                                         *)
(***************************************************************************)
EXTENDS Integers

NewAvailability == [stream |-> "none", quantity |-> 0, held |-> {}]

Known(a) == a.stream = "exists"

\* CreateAvailability and UpdateDueToProductionOrder refuse quantity <= 0.
ValidQuantity(quantity) == quantity > 0

\* Both production paths: a fresh aggregate starts from quantity zero.
UpdateDueToProductionOrder(a, quantity) ==
  [a EXCEPT !.stream = "exists", !.quantity = @ + quantity]

UpdateDueToSalesOrder(a, order, quantity) ==
  IF order \in a.held THEN [state |-> a, event |-> "BeerAvailabilityUpdated"]
  ELSE IF quantity > a.quantity THEN [state |-> a, event |-> "QuantityNotFound"]
  ELSE [state |-> [a EXCEPT !.quantity = @ - quantity, !.held = @ \cup {order}],
        event |-> "BeerAvailabilityUpdated"]

\* The refusal starts the stream of a beer never stocked, with quantity zero.
RefuseUnknownBeer(a) == [a EXCEPT !.stream = "exists"]

\* Mutant: gives the stock back every time it is asked to.
RepeatedCompensation(a, order, quantity) ==
  [a EXCEPT !.quantity = @ + quantity, !.held = @ \ {order}]

CompensateDueToFailedAllocation(a, order, quantity) ==
  IF order \in a.held THEN [a EXCEPT !.quantity = @ + quantity, !.held = @ \ {order}]
  ELSE a
=============================================================================
