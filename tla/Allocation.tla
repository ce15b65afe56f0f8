----------------------------- MODULE Allocation -----------------------------
(***************************************************************************)
(* The order-allocation process: the Sales and Warehouses modules, their   *)
(* command and event handlers, the saga runner with its resumer and its    *)
(* watchdog, and the service bus between them, in durable mode (DB_URL     *)
(* set).                                                                   *)
(*                                                                         *)
(* Handlers.  A handler loads an aggregate, changes it and saves it; Save  *)
(* succeeds only if nobody appended to the stream in between (module       *)
(* EventStore) and is retried otherwise, so load-change-save is one step.  *)
(* The domain events it raises commit with the save (the outbox) and reach *)
(* the bus sooner or later.  Commands and integration events are sent      *)
(* after the save, straight to the broker: a crash or a failed publish     *)
(* between the two loses them, although the save stands.                   *)
(*                                                                         *)
(* The bus.  bus is the set of the messages waiting in handler queues or   *)
(* in the outbox.  Each message has one consumer here (the projections     *)
(* are in their own modules).  Delivery has no order, because outbox rows, *)
(* queues, retries and replicas all reorder, and a message that stays in   *)
(* the bus after its handler ran stands for a second delivery: a crash     *)
(* before the acknowledgement, an outbox batch rolled back after           *)
(* publishing, or a resumed saga that sends it again.  Since delay is      *)
(* unbounded, the moment a loop over several sagas (ResumeInFlight,        *)
(* TimeoutInFlight) sends a message may be taken as the moment it read the *)
(* saga.                                                                   *)
(*                                                                         *)
(* Faults are drawn from the constant set Faults and their number is       *)
(* bounded by MaxFaults.                                                   *)
(***************************************************************************)
EXTENDS OrderAllocationSaga, Availability, FiniteSets, FiniteSetsExt

CONSTANTS Orders,        \* sales order ids
          Beers,         \* beer ids
          Productions,   \* production orders, one request each
          Lines,         \* Lines[o]: the rows of order o
          Output,        \* Output[p]: the beer and quantity production p makes
          Valid,         \* orders with a number and a customer
          StepTimeout,   \* SAGA_STEP_TIMEOUT > 0: the watchdog runs
          Faults,        \* the kinds of fault that may happen
          MaxFaults      \* bound on the number of faults

Line == [beer : Beers, quantity : Int]

FaultKinds == {"redeliver", "interrupt", "park", "restart"}

ASSUME AllocationAssumption ==
  /\ Lines \in [Orders -> Seq(Line)]
  /\ Output \in [Productions -> Line]
  /\ Valid \subseteq Orders
  /\ StepTimeout \in BOOLEAN
  /\ Faults \subseteq FaultKinds
  /\ MaxFaults \in Nat

VARIABLES order,         \* order[o]: allocation status of the SalesOrder stream
          saga,          \* saga[o]: the OrderAllocationSaga stream
          availability,  \* availability[b]: the Availability stream
          applied,       \* applied[p]: how often production p was added to stock
          bus,           \* messages not yet acknowledged
          deadLetters,   \* un-redriven rows of dead_letters
          faults         \* faults so far

vars == <<order, saga, availability, applied, bus, deadLetters, faults>>

OrderStatus == {"none", "pending", "allocated", "rejected"}

-----------------------------------------------------------------------------
(* Messages.  A row command names the row, which fixes its beer and its    *)
(* quantity; a step event carries only the beer and the order.             *)

OrderMessageTypes ==
  {"CreateSalesOrder", "SalesOrderCreated", "sales.sales_order_created",
   "OrderAllocationCompleted", "OrderAllocationRejected",
   "MarkSalesOrderAllocated", "MarkSalesOrderAllocationRejected"}

RowCommandTypes ==
  {"UpdateAvailabilityDueToSalesOrder", "CompensateAvailabilityDueToFailedAllocation"}

StepEventTypes ==
  {"BeerAvailabilityUpdated", "QuantityNotFound", "AvailabilityCompensated"}

OrderMessage(type, o) == [type |-> type, order |-> o]
RowCommand(type, o, i) == [type |-> type, order |-> o, row |-> i]
StepEvent(type, o, b) == [type |-> type, order |-> o, beer |-> b]
ProductionCommand(p) ==
  [type |-> "UpdateAvailabilityDueToProductionOrder", production |-> p]

Messages ==
  [type : OrderMessageTypes, order : Orders]
    \cup (UNION {[type : RowCommandTypes, order : {o}, row : DOMAIN Lines[o]] : o \in Orders})
    \cup [type : StepEventTypes, order : Orders, beer : Beers]
    \cup [type : {"UpdateAvailabilityDueToProductionOrder"}, production : Productions]

-----------------------------------------------------------------------------
(* The bus.                                                                *)

Fault(kind) ==
  /\ kind \in Faults
  /\ faults < MaxFaults
  /\ faults' = faults + 1

\* Messages that leave the process through Send or PublishIntegrationEvent:
\* all of them, or only some when the process or the broker fails meanwhile.
Dispatch(sends) ==
  \/ bus' = bus \cup sends /\ UNCHANGED faults
  \/ \E sent \in SUBSET sends :
       /\ sent # sends
       /\ Fault("interrupt")
       /\ bus' = bus \cup sent

\* A handler of message m returned nil after committing the domain events
\* raised and sending the messages sends.
Handled(m, raised, sends) ==
  /\ m \in bus
  /\ UNCHANGED deadLetters
  /\ \/ /\ bus' = (bus \ {m}) \cup raised \cup sends
        /\ UNCHANGED faults
     \/ /\ Fault("redeliver")
        /\ bus' = bus \cup raised \cup sends
     \/ \E sent \in SUBSET sends :     \* fails after the save: m comes again
          /\ sent # sends
          /\ Fault("interrupt")
          /\ bus' = bus \cup raised \cup sent

\* The handler fails on every attempt: the poison queue parks the message.
Poisoned(m) ==
  /\ m \in bus
  /\ bus' = bus \ {m}
  /\ deadLetters' = deadLetters \cup {m}
  /\ UNCHANGED faults

\* A transient failure that outlasts the retries, before anything is saved.
Park(m) ==
  /\ Fault("park")
  /\ m \in bus
  /\ bus' = bus \ {m}
  /\ deadLetters' = deadLetters \cup {m}
  /\ UNCHANGED <<order, saga, availability, applied>>

\* RedriveDeadLetters: every letter is published, then all are stamped by one
\* commit; an error rolls the stamps back after some were published.
Redrive ==
  /\ deadLetters # {}
  /\ \/ /\ bus' = bus \cup deadLetters
        /\ deadLetters' = {}
        /\ UNCHANGED faults
     \/ \E published \in SUBSET deadLetters :
          /\ Fault("interrupt")
          /\ bus' = bus \cup published
          /\ UNCHANGED deadLetters
  /\ UNCHANGED <<order, saga, availability, applied>>

-----------------------------------------------------------------------------
(* Sales: the facade, the SalesOrder command handlers, the integration     *)
(* publisher and the handlers of the allocation outcome.                   *)

\* A client posts the order.  Its retry with the id it supplied is a second
\* delivery of the same command.
PlaceSalesOrder(o) ==
  /\ order[o] = "none"
  /\ OrderMessage("CreateSalesOrder", o) \notin bus \cup deadLetters
  /\ bus' = bus \cup {OrderMessage("CreateSalesOrder", o)}
  /\ UNCHANGED <<order, saga, availability, applied, deadLetters, faults>>

CreateSalesOrder(o) ==
  LET m == OrderMessage("CreateSalesOrder", o)
  IN  /\ \/ /\ order[o] # "none"
            /\ Handled(m, {}, {})
            /\ UNCHANGED order
         \/ /\ order[o] = "none"
            /\ o \in Valid
            /\ order' = [order EXCEPT ![o] = "pending"]
            /\ Handled(m, {OrderMessage("SalesOrderCreated", o)}, {})
         \/ /\ order[o] = "none"
            /\ o \notin Valid
            /\ Poisoned(m)
            /\ UNCHANGED order
      /\ UNCHANGED <<saga, availability, applied>>

PublishSalesOrderCreated(o) ==
  /\ Handled(OrderMessage("SalesOrderCreated", o), {},
             {OrderMessage("sales.sales_order_created", o)})
  /\ UNCHANGED <<order, saga, availability, applied>>

OnAllocationCompleted(o) ==
  /\ Handled(OrderMessage("OrderAllocationCompleted", o), {},
             {OrderMessage("MarkSalesOrderAllocated", o)})
  /\ UNCHANGED <<order, saga, availability, applied>>

OnAllocationRejected(o) ==
  /\ Handled(OrderMessage("OrderAllocationRejected", o), {},
             {OrderMessage("MarkSalesOrderAllocationRejected", o)})
  /\ UNCHANGED <<order, saga, availability, applied>>

\* Settles o as status.  An unknown order and an order settled the other way
\* are errors; an order already settled this way commits nothing.
MarkSettled(m, o, status) ==
  /\ \/ /\ order[o] = "pending"
        /\ order' = [order EXCEPT ![o] = status]
        /\ Handled(m, {}, {})
     \/ /\ order[o] = status
        /\ Handled(m, {}, {})
        /\ UNCHANGED order
     \/ /\ order[o] \notin {"pending", status}
        /\ Poisoned(m)
        /\ UNCHANGED order
  /\ UNCHANGED <<saga, availability, applied>>

MarkAllocated(o) ==
  MarkSettled(OrderMessage("MarkSalesOrderAllocated", o), o, "allocated")

MarkAllocationRejected(o) ==
  MarkSettled(OrderMessage("MarkSalesOrderAllocationRejected", o), o, "rejected")

-----------------------------------------------------------------------------
(* Warehouses: the Availability command handlers.                          *)

PlaceProductionOrder(p) ==
  /\ applied[p] = 0
  /\ ProductionCommand(p) \notin bus \cup deadLetters
  /\ bus' = bus \cup {ProductionCommand(p)}
  /\ UNCHANGED <<order, saga, availability, applied, deadLetters, faults>>

UpdateAvailabilityDueToProductionOrder(p) ==
  LET m == ProductionCommand(p)
      b == Output[p].beer
      q == Output[p].quantity
  IN  /\ \/ /\ ValidQuantity(q)
            /\ availability' =
                 [availability EXCEPT ![b] = UpdateDueToProductionOrder(@, q)]
            /\ applied' = [applied EXCEPT ![p] = @ + 1]
            /\ Handled(m, {}, {})
         \/ /\ ~ValidQuantity(q)
            /\ Poisoned(m)
            /\ UNCHANGED <<availability, applied>>
      /\ UNCHANGED <<order, saga>>

UpdateAvailabilityDueToSalesOrder(o, i) ==
  LET m == RowCommand("UpdateAvailabilityDueToSalesOrder", o, i)
      b == Lines[o][i].beer
      q == Lines[o][i].quantity
      a == availability[b]
      r == UpdateDueToSalesOrder(a, o, q)
  IN  /\ \/ /\ ~Known(a)
            /\ availability' = [availability EXCEPT ![b] = RefuseUnknownBeer(a)]
            /\ Handled(m, {StepEvent("QuantityNotFound", o, b)}, {})
         \/ /\ Known(a)
            /\ ValidQuantity(q)
            /\ availability' = [availability EXCEPT ![b] = r.state]
            /\ Handled(m, {StepEvent(r.event, o, b)}, {})
         \/ /\ Known(a)
            /\ ~ValidQuantity(q)
            /\ Poisoned(m)
            /\ UNCHANGED availability
      /\ UNCHANGED <<order, saga, applied>>

CompensateAvailability(o, i) ==
  LET m == RowCommand("CompensateAvailabilityDueToFailedAllocation", o, i)
      b == Lines[o][i].beer
      q == Lines[o][i].quantity
      a == availability[b]
  IN  /\ \/ /\ Known(a) /\ ValidQuantity(q)
            /\ availability' =
                 [availability EXCEPT ![b] = CompensateDueToFailedAllocation(a, o, q)]
            /\ Handled(m, {StepEvent("AvailabilityCompensated", o, b)}, {})
         \/ /\ ~(Known(a) /\ ValidQuantity(q))
            /\ Poisoned(m)
            /\ UNCHANGED availability
      /\ UNCHANGED <<order, saga, applied>>

-----------------------------------------------------------------------------
(* Warehouses: the saga runner.                                            *)

\* Mutant: sends the row before the pending one.
NextRowOffByOne(o, s) ==
  {RowCommand("UpdateAvailabilityDueToSalesOrder", o, NextPendingRow(s) - 1)}

sendNextAllocation(o, s) ==
  {RowCommand("UpdateAvailabilityDueToSalesOrder", o, NextPendingRow(s))}

sendCompensations(o, s) ==
  {RowCommand("CompensateAvailabilityDueToFailedAllocation", o, i) : i \in RowsToCompensate(s)}

\* Mutant: every settled saga is announced as completed.
OptimisticOutcome(o, s) == {OrderMessage("OrderAllocationCompleted", o)}

publishOutcome(o, s) ==
  {OrderMessage(IF s.status = "completed" THEN "OrderAllocationCompleted"
                                          ELSE "OrderAllocationRejected", o)}

\* The saga runner saves s as the new state of o's saga, then sends.
SaveThenSend(m, o, s, sends) ==
  /\ saga' = [saga EXCEPT ![o] = s]
  /\ Handled(m, {}, sends)
  /\ UNCHANGED <<order, availability, applied>>

\* Nothing to record: the message is acknowledged.
Ignored(m) ==
  /\ Handled(m, {}, {})
  /\ UNCHANGED <<order, saga, availability, applied>>

OnSalesOrderCreated(o) ==
  LET m == OrderMessage("sales.sales_order_created", o)
      s == StartOrderAllocation(Lines[o])
  IN  \/ saga[o].status # "none" /\ Ignored(m)
      \/ /\ saga[o].status = "none"
         /\ SaveThenSend(m, o, s,
              IF s.status = "completed" THEN publishOutcome(o, s)
                                        ELSE sendNextAllocation(o, s))

OnBeerAvailabilityUpdated(o, b) ==
  LET m == StepEvent("BeerAvailabilityUpdated", o, b)
      s == RecordAllocationSucceeded(saga[o], Lines[o], b)
  IN  \/ s = saga[o] /\ Ignored(m)
      \/ /\ s # saga[o]
         /\ SaveThenSend(m, o, s,
              IF s.status = "completed" THEN publishOutcome(o, s)
                                        ELSE sendNextAllocation(o, s))

\* Mutant: a saga with nothing to undo is rejected without telling Sales.
SilentStepFailedSends(o, s) == sendCompensations(o, s)

\* What a failed step makes the runner send, here and in the watchdog.
StepFailedSends(o, s) ==
  IF s.status = "rejected" THEN publishOutcome(o, s) ELSE sendCompensations(o, s)

OnQuantityNotFound(o, b) ==
  LET m == StepEvent("QuantityNotFound", o, b)
      s == RecordQuantityNotFound(saga[o], Lines[o], b)
  IN  \/ s = saga[o] /\ Ignored(m)
      \/ s # saga[o] /\ SaveThenSend(m, o, s, StepFailedSends(o, s))

OnAvailabilityCompensated(o, b) ==
  LET m == StepEvent("AvailabilityCompensated", o, b)
      s == RecordCompensated(saga[o], Lines[o], b)
  IN  \/ s = saga[o] /\ Ignored(m)
      \/ /\ s # saga[o]
         /\ SaveThenSend(m, o, s,
              IF s.status = "rejected" THEN publishOutcome(o, s) ELSE {})

drive(o, s) ==
  IF s.status = "compensating" THEN sendCompensations(o, s) ELSE sendNextAllocation(o, s)

\* The process restarts (or a replica boots): every saga in flight is driven.
ResumeInFlight ==
  /\ "restart" \in Faults
  /\ LET resumed == {o \in Orders : InFlight(saga[o])}
     IN  /\ resumed # {}
         /\ Dispatch(UNION {drive(o, saga[o]) : o \in resumed})
  /\ UNCHANGED <<order, saga, availability, applied, deadLetters>>

\* Mutant: the watchdog leaves compensating sagas alone.
TimeoutOfRunningOnly(o) ==
  /\ StepTimeout
  /\ saga[o].status = "running"
  /\ LET beer == Lines[o][NextPendingRow(saga[o])].beer
         s == RecordQuantityNotFound(saga[o], Lines[o], beer)
     IN  /\ saga' = [saga EXCEPT ![o] = s]
         /\ Dispatch(StepFailedSends(o, s))
  /\ UNCHANGED <<order, availability, applied, deadLetters>>

\* The watchdog finds that o's saga recorded nothing since the cutoff.
TimeoutInFlight(o) ==
  /\ StepTimeout
  /\ \/ /\ saga[o].status = "compensating"
        /\ Dispatch(sendCompensations(o, saga[o]))
        /\ UNCHANGED saga
     \/ /\ saga[o].status = "running"
        /\ LET beer == Lines[o][NextPendingRow(saga[o])].beer
               s == RecordQuantityNotFound(saga[o], Lines[o], beer)
           IN  /\ saga' = [saga EXCEPT ![o] = s]
               /\ Dispatch(StepFailedSends(o, s))
  /\ UNCHANGED <<order, availability, applied, deadLetters>>

-----------------------------------------------------------------------------
Init ==
  /\ order = [o \in Orders |-> "none"]
  /\ saga = [o \in Orders |-> NoSaga(Lines[o])]
  /\ availability = [b \in Beers |-> NewAvailability]
  /\ applied = [p \in Productions |-> 0]
  /\ bus = {}
  /\ deadLetters = {}
  /\ faults = 0

SalesStep(o) ==
  \/ CreateSalesOrder(o)
  \/ PublishSalesOrderCreated(o)
  \/ OnAllocationCompleted(o)
  \/ OnAllocationRejected(o)
  \/ MarkAllocated(o)
  \/ MarkAllocationRejected(o)

RowStep(o, i) ==
  \/ UpdateAvailabilityDueToSalesOrder(o, i)
  \/ CompensateAvailability(o, i)

SagaStep(o, b) ==
  \/ OnBeerAvailabilityUpdated(o, b)
  \/ OnQuantityNotFound(o, b)
  \/ OnAvailabilityCompensated(o, b)

Next ==
  \/ \E o \in Orders :
       \/ PlaceSalesOrder(o)
       \/ SalesStep(o)
       \/ OnSalesOrderCreated(o)
       \/ \E i \in DOMAIN Lines[o] : RowStep(o, i)
       \/ \E b \in Beers : SagaStep(o, b)
       \/ TimeoutInFlight(o)
  \/ \E p \in Productions :
       PlaceProductionOrder(p) \/ UpdateAvailabilityDueToProductionOrder(p)
  \/ ResumeInFlight
  \/ \E m \in bus : Park(m)
  \/ Redrive

Spec == Init /\ [][Next]_vars

\* Every queue is served: a message that waits is handled eventually.  Nobody
\* is obliged to place an order, to restart the process or to redrive.
Fairness ==
  /\ \A o \in Orders :
       /\ WF_vars(CreateSalesOrder(o))
       /\ WF_vars(PublishSalesOrderCreated(o))
       /\ WF_vars(OnAllocationCompleted(o))
       /\ WF_vars(OnAllocationRejected(o))
       /\ WF_vars(MarkAllocated(o))
       /\ WF_vars(MarkAllocationRejected(o))
       /\ WF_vars(OnSalesOrderCreated(o))
       /\ WF_vars(TimeoutInFlight(o))
       /\ \A i \in DOMAIN Lines[o] :
            /\ WF_vars(UpdateAvailabilityDueToSalesOrder(o, i))
            /\ WF_vars(CompensateAvailability(o, i))
       /\ \A b \in {Lines[o][i].beer : i \in DOMAIN Lines[o]} :
            /\ WF_vars(OnBeerAvailabilityUpdated(o, b))
            /\ WF_vars(OnQuantityNotFound(o, b))
            /\ WF_vars(OnAvailabilityCompensated(o, b))
  /\ \A p \in Productions : WF_vars(UpdateAvailabilityDueToProductionOrder(p))

FairSpec == Spec /\ Fairness

-----------------------------------------------------------------------------
(* Properties.                                                             *)

\* Every variable holds what the tables, queues and streams can hold.
TypeOK ==
  /\ order \in [Orders -> OrderStatus]
  /\ \A o \in Orders : saga[o] \in [status : SagaStatus, rows : [DOMAIN Lines[o] -> SagaRowState]]
  /\ DOMAIN saga = Orders
  /\ availability \in [Beers -> [stream : {"none", "exists"}, quantity : Int, held : SUBSET Orders]]
  /\ applied \in [Productions -> Nat]
  /\ bus \subseteq Messages
  /\ deadLetters \subseteq Messages
  /\ faults \in 0..MaxFaults

\* The comment at NextPendingRow ("a running saga always has one"), on which
\* sendNextAllocation and the watchdog rely without checking, and its
\* counterparts: a compensating saga still waits for a row to be given back
\* (otherwise nothing would ever reject it), a completed saga has all its
\* rows, a rejected one keeps none.
SagaNeverStuck ==
  \A o \in Orders :
    LET s == saga[o]
    IN  /\ s.status = "running" => \E i \in DOMAIN s.rows : s.rows[i] = "pending"
        /\ s.status = "compensating" => RowsToCompensate(s) # {}
        /\ s.status = "completed" => allRowsIn(s, "allocated")
        /\ s.status = "rejected" => \A i \in DOMAIN s.rows : s.rows[i] # "allocated"

\* A message states a fact that holds whenever it is handled, however late it
\* comes: a compensation is never on its way to an order that may still
\* complete, an allocated step still holds its stock or is being undone, an
\* outcome is the one the saga reached, and a saga is only started for an
\* order that exists.
Justified(m) ==
  /\ m.type = "CompensateAvailabilityDueToFailedAllocation" =>
       saga[m.order].status \in {"compensating", "rejected"}
  /\ m.type = "BeerAvailabilityUpdated" =>
       \/ m.order \in availability[m.beer].held
       \/ saga[m.order].status \in {"compensating", "rejected"}
  /\ m.type \in {"OrderAllocationCompleted", "MarkSalesOrderAllocated"} =>
       saga[m.order].status = "completed"
  /\ m.type \in {"OrderAllocationRejected", "MarkSalesOrderAllocationRejected"} =>
       saga[m.order].status = "rejected"
  /\ m.type \in {"SalesOrderCreated", "sales.sales_order_created"} =>
       order[m.order] # "none"

MessagesJustified == \A m \in bus \cup deadLetters : Justified(m)

\* A completed order really holds stock of every beer it asked for, however
\* events were duplicated, delayed, parked or timed out on the way: no
\* compensation ever reaches the stock of an order that completes.
CompletedOrderHoldsStock ==
  \A o \in Orders : saga[o].status = "completed" =>
    \A i \in DOMAIN Lines[o] : o \in availability[Lines[o][i].beer].held

\* Rows are allocated one at a time and in order, for orders that name a beer
\* once: no step is recorded before the steps ahead of it.
StepsInOrder ==
  \A o \in Orders : \A i, j \in DOMAIN Lines[o] :
    /\ \A k, l \in DOMAIN Lines[o] : Lines[o][k].beer = Lines[o][l].beer => k = l
    /\ i < j /\ saga[o].rows[j] # "pending"
    => saga[o].rows[i] # "pending"

\* The quantity the saga's command for beer b carries: the row that names b.
RequestedQuantity(o, b) ==
  LET rows == {i \in DOMAIN Lines[o] : Lines[o][i].beer = b}
  IN  Lines[o][CHOOSE i \in rows : \A j \in rows : i <= j].quantity

Total(weight, S) == MapThenSumSet(LAMBDA e : weight[e], S)

\* Allocation and compensation move stock and never make or destroy it: what
\* is for sale plus what orders hold is what production added.
StockConservation ==
  \A b \in Beers :
    availability[b].quantity
      + Total([o \in Orders |-> RequestedQuantity(o, b)], availability[b].held)
    = Total([p \in Productions |-> applied[p] * Output[p].quantity],
            {p \in Productions : Output[p].beer = b})

\* Backward recovery: when the saga rejects an order, none of its stock is
\* still held ("undoes every already-allocated row before rejecting").
RejectedOrderHoldsNothing ==
  \A o \in Orders : saga[o].status = "rejected" =>
    \A b \in Beers : o \notin availability[b].held

\* The weaker form of it that leaves late messages time to arrive: a rejected
\* order about which nothing is in flight any more holds no stock.
NoStrandedStock ==
  \A o \in Orders :
    /\ saga[o].status = "rejected"
    /\ \A m \in bus \cup deadLetters : "order" \in DOMAIN m => m.order # o
    => \A b \in Beers : o \notin availability[b].held

\* A production order adds its output to the stock once, however often its
\* command is delivered.
ProductionAppliedOnce == \A p \in Productions : applied[p] <= 1

\* What a saga has decided about its order.
Decision(s) ==
  CASE s.status = "completed" -> "allocated"
    [] s.status = "rejected" -> "rejected"
    [] OTHER -> "open"

Settlement == INSTANCE OrderSettlement WITH
  status <- order,
  decision <- [o \in Orders |-> Decision(saga[o])]

\* The process implements OrderSettlement: what Sales tells the client is what
\* the saga decided, and neither is ever revised.
SettlesAsDecided == Settlement!SettlementSpec

\* Every saga that starts is decided.
SagaSettles == \A o \in Orders : InFlight(saga[o]) ~> Settled(saga[o])

\* Every accepted order is settled ("settles every order: pending ->
\* allocated | rejected").
OrderSettles == \A o \in Orders : order[o] = "pending" ~> order[o] \in {"allocated", "rejected"}
=============================================================================
