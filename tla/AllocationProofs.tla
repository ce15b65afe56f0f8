-------------------------- MODULE AllocationProofs --------------------------
(***************************************************************************)
(* Proofs about Allocation, for every set of orders, beers and production  *)
(* orders, every list of rows, and any number of faults.                   *)
(*                                                                         *)
(* The inductive invariant IInv adds to the properties of Allocation what  *)
(* they rest on: the exact shape of a saga in each status (SagaShape), and *)
(* that an allocated row of a saga that may still complete holds its stock *)
(* (AllocatedRowsHeld).  The messages in flight carry the argument from    *)
(* one actor to the next, which is why MessagesJustified is part of it.    *)
(***************************************************************************)
EXTENDS Allocation, WellFoundedInduction, TLAPS

\* What the rows of a saga look like in each status.
Shape(s) ==
  /\ s.status = "none" => allRowsIn(s, "pending")
  /\ s.status = "running" =>
       /\ \E i \in DOMAIN s.rows : s.rows[i] = "pending"
       /\ \A i \in DOMAIN s.rows : s.rows[i] \in {"pending", "allocated"}
  /\ s.status = "compensating" => RowsToCompensate(s) # {}
  /\ s.status = "completed" => allRowsIn(s, "allocated")
  /\ s.status = "rejected" => \A i \in DOMAIN s.rows : s.rows[i] # "allocated"

SagaState(lines) == [status : SagaStatus, rows : [DOMAIN lines -> SagaRowState]]

\* How a saga may change in one step.
Advances(s, t) ==
  /\ s.status \in {"compensating", "rejected"} => t.status \in {"compensating", "rejected"}
  /\ Settled(s) => t = s
  /\ t.status = "none" => s.status = "none"

\* StartOrderAllocation opens a saga with every row pending; only an order
\* without rows is completed at once.
LEMMA StartFacts ==
  ASSUME NEW lines \in Seq(Line)
  PROVE  LET t == StartOrderAllocation(lines)
         IN  /\ t \in SagaState(lines)
             /\ Shape(t)
             /\ t.status \in {"running", "completed"}
             /\ t.status = "completed" => DOMAIN lines = {}
             /\ \A i \in DOMAIN lines : t.rows[i] = "pending"
  BY DEF StartOrderAllocation, NoSaga, SagaState, Shape, SagaStatus, SagaRowState, allRowsIn

\* RecordAllocationSucceeded moves only a running saga, forward, and marks
\* only rows of the beer it was told about as allocated.
LEMMA SucceededFacts ==
  ASSUME NEW lines \in Seq(Line), NEW s \in SagaState(lines), Shape(s), NEW b
  PROVE  LET t == RecordAllocationSucceeded(s, lines, b)
         IN  /\ t \in SagaState(lines)
             /\ Shape(t)
             /\ Advances(s, t)
             /\ t # s => s.status = "running" /\ t.status \in {"running", "completed"}
             /\ \A i \in DOMAIN lines :
                  t.rows[i] = "allocated" => s.rows[i] = "allocated" \/ lines[i].beer = b
  BY DEF RecordAllocationSucceeded, AwaitsStep, rowInState, setRowState, allRowsIn, SagaState,
         Shape, SagaStatus, SagaRowState, Advances, Settled

\* RecordQuantityNotFound moves only a running saga, and never forward: it is
\* compensating or rejected afterwards.
LEMMA NotFoundFacts ==
  ASSUME NEW lines \in Seq(Line), NEW s \in SagaState(lines), Shape(s), NEW b
  PROVE  LET t == RecordQuantityNotFound(s, lines, b)
         IN  /\ t \in SagaState(lines)
             /\ Shape(t)
             /\ Advances(s, t)
             /\ t # s => s.status = "running" /\ t.status \in {"compensating", "rejected"}
  BY DEF RecordQuantityNotFound, AwaitsStep, rowInState, setRowState, allRowsIn, SagaState,
         Shape, SagaStatus, SagaRowState, Advances, Settled, RowsToCompensate

\* RecordCompensated moves only a compensating saga, and rejects it when no
\* allocated row is left.
LEMMA CompensatedFacts ==
  ASSUME NEW lines \in Seq(Line), NEW s \in SagaState(lines), Shape(s), NEW b
  PROVE  LET t == RecordCompensated(s, lines, b)
         IN  /\ t \in SagaState(lines)
             /\ Shape(t)
             /\ Advances(s, t)
             /\ t # s => s.status = "compensating" /\ t.status \in {"compensating", "rejected"}
  BY DEF RecordCompensated, rowInState, setRowState, allRowsIn, SagaState,
         Shape, SagaStatus, SagaRowState, Advances, Settled, RowsToCompensate

\* A set of row numbers has a smallest element.
LEMMA FirstOfRows ==
  ASSUME NEW T, T \subseteq Nat, T # {}
  PROVE  \E x \in T : \A y \in T : x <= y
  <1> DEFINE R == {ss \in Nat \X Nat : ss[1] < ss[2]}
  <1>1. IsWellFoundedOn(R, Nat)
    BY NatLessThanWellFounded, Zenon DEF OpToRel
  <1>2. PICK x \in T : \A y \in T : ~(<<y, x>> \in R)
    <2> HIDE DEF R
    <2> QED BY <1>1, WFMin
  <1>3. ASSUME NEW y \in T PROVE x <= y
    <2>1. x \in Nat /\ y \in Nat
      OBVIOUS
    <2>2. ~(y < x)
      BY <1>2, <2>1
    <2>3. QED
      BY <2>1, <2>2
  <1>4. QED
    BY <1>3

\* A running saga has a next row.
LEMMA NextRowFacts ==
  ASSUME NEW lines \in Seq(Line), NEW s \in SagaState(lines), Shape(s), s.status = "running"
  PROVE  /\ NextPendingRow(s) \in DOMAIN lines
         /\ s.rows[NextPendingRow(s)] = "pending"
  <1> DEFINE P == {i \in DOMAIN s.rows : s.rows[i] = "pending"}
  <1>1. P \subseteq Nat /\ P # {} /\ P \subseteq DOMAIN lines
    BY DEF SagaState, Shape
  <1>2. PICK x \in P : \A y \in P : x <= y
    <2> HIDE DEF P
    <2> QED BY <1>1, FirstOfRows
  <1>3. QED
    BY <1>1, <1>2 DEF NextPendingRow

-----------------------------------------------------------------------------
SagaShape == \A o \in Orders : Shape(saga[o])

\* Stock of an order that may still complete is not given back.
AllocatedRowsHeld ==
  \A o \in Orders : \A i \in DOMAIN Lines[o] :
    saga[o].status \in {"running", "completed"} /\ saga[o].rows[i] = "allocated"
      => o \in availability[Lines[o][i].beer].held

\* Sales never runs ahead of the saga, nor the saga ahead of Sales.
OrdersJustified ==
  \A o \in Orders :
    /\ order[o] = "allocated" => saga[o].status = "completed"
    /\ order[o] = "rejected" => saga[o].status = "rejected"
    /\ saga[o].status # "none" => order[o] # "none"

IInv ==
  /\ TypeOK
  /\ SagaShape
  /\ AllocatedRowsHeld
  /\ MessagesJustified
  /\ OrdersJustified

\* The rows of an order are lines.
LEMMA LineFacts ==
  ASSUME NEW o \in Orders
  PROVE  /\ Lines[o] \in Seq(Line)
         /\ \A i \in DOMAIN Lines[o] :
              /\ Lines[o][i].beer \in Beers
              /\ Lines[o][i].quantity \in Int
  <1>1. Lines[o] \in Seq(Line)
    BY AllocationAssumption DEF AllocationAssumption
  <1>2. \A i \in DOMAIN Lines[o] : Lines[o][i] \in Line
    BY <1>1
  <1>3. QED
    BY <1>1, <1>2 DEF Line

-----------------------------------------------------------------------------
(* The four parts of a sound step, one for each piece of state; new are    *)
(* the messages the step adds.                                             *)

StockState == [stream : {"none", "exists"}, quantity : Int, held : SUBSET Orders]

SoundSaga ==
  /\ DOMAIN saga' = Orders
  /\ \A o \in Orders :
       /\ saga'[o] \in SagaState(Lines[o])
       /\ Shape(saga'[o])
       /\ Advances(saga[o], saga'[o])
       /\ saga'[o].status # "none" => order[o] # "none"
       /\ \A i \in DOMAIN Lines[o] :
            saga'[o].status \in {"running", "completed"} /\ saga'[o].rows[i] = "allocated"
              => o \in availability[Lines[o][i].beer].held

SoundStock ==
  /\ availability' \in [Beers -> StockState]
  /\ applied' \in [Productions -> Nat]
  /\ \A o \in Orders, b \in Beers : o \in availability[b].held =>
       o \in availability'[b].held \/ saga[o].status \in {"compensating", "rejected"}

SoundOrder ==
  /\ order' \in [Orders -> OrderStatus]
  /\ \A o \in Orders :
       /\ order[o] # "none" => order'[o] # "none"
       /\ order'[o] = "allocated" => saga[o].status = "completed"
       /\ order'[o] = "rejected" => saga[o].status = "rejected"

SoundBus(new) ==
  /\ new \subseteq Messages
  /\ bus' \cup deadLetters' \subseteq bus \cup deadLetters \cup new
  /\ \A m \in new : Justified(m)'
  /\ faults' \in 0..MaxFaults

\* A message in flight stays justified: sagas only advance, held stock is only
\* given up by a saga that compensates, and orders do not disappear.
LEMMA MessagesKept ==
  ASSUME IInv, NEW new, SoundSaga, SoundStock, SoundOrder, SoundBus(new)
  PROVE  MessagesJustified'
  <1> SUFFICES ASSUME NEW m \in bus \cup deadLetters, Justified(m)
               PROVE  Justified(m)'
    BY DEF IInv, MessagesJustified, SoundBus
  <1>1. m \in Messages
    BY DEF IInv, TypeOK
  <1>2. m.type \in OrderMessageTypes \cup RowCommandTypes \cup StepEventTypes => m.order \in Orders
    BY <1>1 DEF Messages, OrderMessageTypes, RowCommandTypes, StepEventTypes
  <1>3. m.type \in StepEventTypes => m.beer \in Beers
    BY <1>1 DEF Messages, OrderMessageTypes, RowCommandTypes, StepEventTypes
  <1>4. QED
    BY <1>2, <1>3 DEF SoundSaga, SoundStock, SoundOrder, Justified, Advances, Settled,
       OrderMessageTypes, RowCommandTypes, StepEventTypes

\* A step that is sound in all four parts keeps the inductive invariant.
LEMMA SoundStepKeepsIInv ==
  ASSUME IInv, NEW new, SoundSaga, SoundStock, SoundOrder, SoundBus(new)
  PROVE  IInv'
  <1>1. MessagesJustified'
    BY MessagesKept
  <1>2. TypeOK'
    BY DEF IInv, TypeOK, SoundSaga, SoundStock, SoundOrder, SoundBus, SagaState, StockState
  <1>3. SagaShape'
    BY DEF SoundSaga, SagaShape
  <1>4. AllocatedRowsHeld'
    <2> SUFFICES ASSUME NEW o \in Orders, NEW i \in DOMAIN Lines[o],
                        saga'[o].status \in {"running", "completed"},
                        saga'[o].rows[i] = "allocated"
                 PROVE  o \in availability'[Lines[o][i].beer].held
      BY DEF AllocatedRowsHeld
    <2>1. o \in availability[Lines[o][i].beer].held
      BY DEF SoundSaga
    <2>2. saga[o].status \notin {"compensating", "rejected"}
      BY DEF SoundSaga, Advances
    <2>3. Lines[o][i].beer \in Beers
      BY LineFacts
    <2>4. QED
      BY <2>1, <2>2, <2>3 DEF SoundStock
  <1>5. OrdersJustified'
    BY DEF SoundSaga, SoundOrder, OrdersJustified, Advances, Settled, IInv
  <1>6. QED
    BY <1>1, <1>2, <1>3, <1>4, <1>5 DEF IInv

\* What a step leaves alone is sound.
LEMMA SagaUntouched ==
  ASSUME IInv, UNCHANGED saga
  PROVE  SoundSaga
  BY DEF IInv, TypeOK, SagaShape, AllocatedRowsHeld, OrdersJustified, SoundSaga, SagaState,
     Advances, Settled

\* The same for the stock.
LEMMA StockUntouched ==
  ASSUME IInv, UNCHANGED <<availability, applied>>
  PROVE  SoundStock
  BY DEF IInv, TypeOK, SoundStock, StockState

\* The same for the orders of Sales.
LEMMA OrderUntouched ==
  ASSUME IInv, UNCHANGED order
  PROVE  SoundOrder
  BY DEF IInv, TypeOK, OrdersJustified, SoundOrder

-----------------------------------------------------------------------------
(* The bus.                                                                *)

\* A handler's return adds nothing but what it raised and sent.
LEMMA HandledFacts ==
  ASSUME NEW m, NEW raised, NEW sends, IInv, Handled(m, raised, sends),
         raised \cup sends \subseteq Messages, \A n \in raised \cup sends : Justified(n)'
  PROVE  SoundBus(raised \cup sends)
  BY AllocationAssumption DEF Handled, Fault, SoundBus, IInv, TypeOK

\* A handler that sends nothing.
LEMMA HandledQuietly ==
  ASSUME NEW m, IInv, Handled(m, {}, {})
  PROVE  SoundBus({})
  BY AllocationAssumption DEF Handled, Fault, SoundBus, IInv, TypeOK

\* Sending outside a handler (the resumer and the watchdog).
LEMMA DispatchFacts ==
  ASSUME NEW sends, IInv, Dispatch(sends), UNCHANGED deadLetters,
         sends \subseteq Messages, \A n \in sends : Justified(n)'
  PROVE  SoundBus(sends)
  BY AllocationAssumption DEF Dispatch, Fault, SoundBus, IInv, TypeOK

\* A poisoned message only moves to the dead letters.
LEMMA PoisonedFacts ==
  ASSUME NEW m, IInv, Poisoned(m)
  PROVE  SoundBus({})
  BY DEF Poisoned, SoundBus, IInv, TypeOK

\* The message constructors build messages.
LEMMA MessageFacts ==
  ASSUME NEW o \in Orders
  PROVE  /\ \A t \in OrderMessageTypes : OrderMessage(t, o) \in Messages
         /\ \A t \in RowCommandTypes, i \in DOMAIN Lines[o] : RowCommand(t, o, i) \in Messages
         /\ \A t \in StepEventTypes, b \in Beers : StepEvent(t, o, b) \in Messages
  BY DEF Messages, OrderMessage, RowCommand, StepEvent

-----------------------------------------------------------------------------
(* Sales.                                                                  *)

\* Posting an order adds its command and touches nothing else.
LEMMA PlaceSalesOrderKeeps ==
  ASSUME IInv, NEW o \in Orders, PlaceSalesOrder(o)
  PROVE  IInv'
  <1> DEFINE m == OrderMessage("CreateSalesOrder", o)
  <1>1. m \in Messages
    BY MessageFacts DEF OrderMessageTypes
  <1>2. Justified(m)'
    BY DEF Justified, OrderMessage
  <1>3. SoundBus({m})
    BY <1>1, <1>2 DEF SoundBus, PlaceSalesOrder, IInv, TypeOK
  <1>4. UNCHANGED order /\ UNCHANGED saga /\ UNCHANGED <<availability, applied>>
    BY DEF PlaceSalesOrder
  <1>5. QED
    BY <1>3, <1>4, SagaUntouched, StockUntouched, OrderUntouched, SoundStepKeepsIInv

\* Creating the order: created, already there, or refused for good.
LEMMA CreateSalesOrderKeeps ==
  ASSUME IInv, NEW o \in Orders, CreateSalesOrder(o)
  PROVE  IInv'
  <1> DEFINE m == OrderMessage("CreateSalesOrder", o)
             n == OrderMessage("SalesOrderCreated", o)
  <1>1. SoundSaga /\ SoundStock
    BY SagaUntouched, StockUntouched DEF CreateSalesOrder
  <1>2. CASE order[o] # "none" /\ Handled(m, {}, {}) /\ UNCHANGED order
    BY <1>1, <1>2, HandledQuietly, OrderUntouched, SoundStepKeepsIInv
  <1>3. CASE Poisoned(m) /\ UNCHANGED order
    BY <1>1, <1>3, PoisonedFacts, OrderUntouched, SoundStepKeepsIInv
  <1>4. CASE /\ order[o] = "none"
             /\ order' = [order EXCEPT ![o] = "pending"]
             /\ Handled(m, {n}, {})
    <2>1. n \in Messages
      BY MessageFacts DEF OrderMessageTypes
    <2>2. order'[o] = "pending"
      BY <1>4 DEF IInv, TypeOK
    <2>3. Justified(n)'
      BY <2>2 DEF Justified, OrderMessage
    <2>4. SoundBus({n} \cup {})
      BY <2>1, <2>3, <1>4, HandledFacts
    <2>5. SoundOrder
      BY <1>4 DEF SoundOrder, IInv, TypeOK, OrdersJustified, OrderStatus
    <2>6. QED
      BY <1>1, <2>4, <2>5, SoundStepKeepsIInv
  <1>5. QED
    BY <1>2, <1>3, <1>4 DEF CreateSalesOrder

\* The three translating handlers: the message they consume is justified, and
\* so is the one they send.
LEMMA TranslatorsKeep ==
  ASSUME IInv, NEW o \in Orders, 
         \/ PublishSalesOrderCreated(o)
         \/ OnAllocationCompleted(o)
         \/ OnAllocationRejected(o)
  PROVE  IInv'
  <1> SUFFICES ASSUME NEW x \in OrderMessageTypes, NEW y \in OrderMessageTypes,
                      <<x, y>> \in {<<"SalesOrderCreated", "sales.sales_order_created">>,
                                    <<"OrderAllocationCompleted", "MarkSalesOrderAllocated">>,
                                    <<"OrderAllocationRejected",
                                      "MarkSalesOrderAllocationRejected">>},
                      Handled(OrderMessage(x, o), {}, {OrderMessage(y, o)}),
                      UNCHANGED <<order, saga, availability, applied>>
               PROVE  IInv'
    BY DEF PublishSalesOrderCreated, OnAllocationCompleted, OnAllocationRejected,
           OrderMessageTypes
  <1>1. OrderMessage(x, o) \in bus
    BY DEF Handled
  <1>2. Justified(OrderMessage(x, o))
    BY <1>1 DEF IInv, MessagesJustified
  <1>3. Justified(OrderMessage(y, o))'
    BY <1>2 DEF Justified, OrderMessage
  <1>4. OrderMessage(y, o) \in Messages
    BY MessageFacts
  <1>5. SoundBus({} \cup {OrderMessage(y, o)})
    BY <1>3, <1>4, HandledFacts
  <1>6. UNCHANGED order /\ UNCHANGED saga /\ UNCHANGED <<availability, applied>>
    OBVIOUS
  <1>7. QED
    BY <1>5, <1>6, SagaUntouched, StockUntouched, OrderUntouched, SoundStepKeepsIInv

\* Settling an order: the command is justified by the saga's outcome.
LEMMA MarkSettledKeeps ==
  ASSUME IInv, NEW o \in Orders, MarkAllocated(o) \/ MarkAllocationRejected(o)
  PROVE  IInv'
  <1> SUFFICES ASSUME NEW x \in OrderMessageTypes, NEW status \in OrderStatus,
                      <<x, status>> \in {<<"MarkSalesOrderAllocated", "allocated">>,
                                         <<"MarkSalesOrderAllocationRejected", "rejected">>},
                      MarkSettled(OrderMessage(x, o), o, status)
               PROVE  IInv'
    BY DEF MarkAllocated, MarkAllocationRejected, OrderMessageTypes, OrderStatus
  <1> DEFINE m == OrderMessage(x, o)
  <1>1. SoundSaga /\ SoundStock
    BY SagaUntouched, StockUntouched DEF MarkSettled
  <1>2. CASE Handled(m, {}, {}) /\ UNCHANGED order
    BY <1>1, <1>2, HandledQuietly, OrderUntouched, SoundStepKeepsIInv
  <1>3. CASE Poisoned(m) /\ UNCHANGED order
    BY <1>1, <1>3, PoisonedFacts, OrderUntouched, SoundStepKeepsIInv
  <1>4. CASE Handled(m, {}, {}) /\ order' = [order EXCEPT ![o] = status]
    <2>1. Justified(m)
      BY <1>4 DEF Handled, IInv, MessagesJustified
    <2>2. /\ status = "allocated" => saga[o].status = "completed"
          /\ status = "rejected" => saga[o].status = "rejected"
      BY <2>1 DEF Justified, OrderMessage
    <2>3. SoundOrder
      BY <1>4, <2>2 DEF SoundOrder, IInv, TypeOK, OrdersJustified, OrderStatus
    <2>4. QED
      BY <1>1, <1>4, <2>3, HandledQuietly, SoundStepKeepsIInv
  <1>5. QED
    BY <1>2, <1>3, <1>4 DEF MarkSettled

-----------------------------------------------------------------------------
(* The stock.                                                              *)

\* Posting a production order adds its command and touches nothing else.
LEMMA PlaceProductionOrderKeeps ==
  ASSUME IInv, NEW p \in Productions, PlaceProductionOrder(p)
  PROVE  IInv'
  <1> DEFINE m == ProductionCommand(p)
  <1>1. m \in Messages
    BY DEF Messages, ProductionCommand
  <1>2. Justified(m)'
    BY DEF Justified, ProductionCommand
  <1>3. SoundBus({m})
    BY <1>1, <1>2 DEF SoundBus, PlaceProductionOrder, IInv, TypeOK
  <1>4. UNCHANGED order /\ UNCHANGED saga /\ UNCHANGED <<availability, applied>>
    BY DEF PlaceProductionOrder
  <1>5. QED
    BY <1>3, <1>4, SagaUntouched, StockUntouched, OrderUntouched, SoundStepKeepsIInv

\* Production only adds to a stream.
LEMMA ProductionFacts ==
  ASSUME NEW a \in StockState, NEW q \in Int
  PROVE  /\ UpdateDueToProductionOrder(a, q) \in StockState
         /\ UpdateDueToProductionOrder(a, q).held = a.held
  <1>1. PICK plus \in Int : plus = a.quantity + q
    BY DEF StockState
  <1>2. UpdateDueToProductionOrder(a, q) = [a EXCEPT !.stream = "exists", !.quantity = plus]
    BY <1>1 DEF UpdateDueToProductionOrder
  <1>3. QED
    BY <1>2 DEF StockState

\* What the other operations of the Availability aggregate do to a stream.
LEMMA StockFacts ==
  ASSUME NEW a \in StockState, NEW o \in Orders, NEW q \in Int
  PROVE  /\ RefuseUnknownBeer(a) \in StockState
         /\ RefuseUnknownBeer(a).held = a.held
         /\ UpdateDueToSalesOrder(a, o, q).state \in StockState
         /\ a.held \subseteq UpdateDueToSalesOrder(a, o, q).state.held
         /\ UpdateDueToSalesOrder(a, o, q).event \in {"BeerAvailabilityUpdated", "QuantityNotFound"}
         /\ UpdateDueToSalesOrder(a, o, q).event = "BeerAvailabilityUpdated" =>
              o \in UpdateDueToSalesOrder(a, o, q).state.held
         /\ CompensateDueToFailedAllocation(a, o, q) \in StockState
         /\ a.held \subseteq CompensateDueToFailedAllocation(a, o, q).held \cup {o}
  <1>1. PICK plus \in Int, minus \in Int : plus = a.quantity + q /\ minus = a.quantity - q
    BY DEF StockState
  <1>2. CompensateDueToFailedAllocation(a, o, q) \in
          {a, [a EXCEPT !.quantity = plus, !.held = a.held \ {o}]}
    BY <1>1 DEF CompensateDueToFailedAllocation
  <1>3. \/ /\ UpdateDueToSalesOrder(a, o, q).state = a
           /\ \/ UpdateDueToSalesOrder(a, o, q).event = "QuantityNotFound"
              \/ UpdateDueToSalesOrder(a, o, q).event = "BeerAvailabilityUpdated" /\ o \in a.held
        \/ /\ UpdateDueToSalesOrder(a, o, q).state =
                [a EXCEPT !.quantity = minus, !.held = a.held \cup {o}]
           /\ UpdateDueToSalesOrder(a, o, q).event = "BeerAvailabilityUpdated"
    BY <1>1 DEF UpdateDueToSalesOrder
  <1>4. RefuseUnknownBeer(a) = [a EXCEPT !.stream = "exists"]
    BY DEF RefuseUnknownBeer
  <1>5. /\ RefuseUnknownBeer(a) \in StockState
        /\ RefuseUnknownBeer(a).held = a.held
    BY <1>4 DEF StockState
  <1>6. /\ CompensateDueToFailedAllocation(a, o, q) \in StockState
        /\ a.held \subseteq CompensateDueToFailedAllocation(a, o, q).held \cup {o}
    BY <1>2 DEF StockState
  <1>7. PICK t, ev : t = UpdateDueToSalesOrder(a, o, q).state
                     /\ ev = UpdateDueToSalesOrder(a, o, q).event
    OBVIOUS
  <1>8. /\ t \in StockState
        /\ a.held \subseteq t.held
        /\ ev \in {"BeerAvailabilityUpdated", "QuantityNotFound"}
        /\ ev = "BeerAvailabilityUpdated" => o \in t.held
    <2>1. CASE /\ t = a
               /\ \/ ev = "QuantityNotFound"
                  \/ ev = "BeerAvailabilityUpdated" /\ o \in a.held
      BY <2>1
    <2>2. CASE /\ t = [a EXCEPT !.quantity = minus, !.held = a.held \cup {o}]
               /\ ev = "BeerAvailabilityUpdated"
      BY <2>2 DEF StockState
    <2>3. QED
      BY <1>3, <1>7, <2>1, <2>2
  <1>9. QED
    BY <1>5, <1>6, <1>7, <1>8

\* Production adds stock and leaves what is held alone.
LEMMA ProductionKeeps ==
  ASSUME IInv, NEW p \in Productions, UpdateAvailabilityDueToProductionOrder(p)
  PROVE  IInv'
  <1> DEFINE m == ProductionCommand(p)
             b == Output[p].beer
             q == Output[p].quantity
  <1>1. SoundSaga /\ SoundOrder
    BY SagaUntouched, OrderUntouched DEF UpdateAvailabilityDueToProductionOrder
  <1>2. CASE Poisoned(m) /\ UNCHANGED <<availability, applied>>
    BY <1>1, <1>2, PoisonedFacts, StockUntouched, SoundStepKeepsIInv
  <1>3. CASE /\ availability' = [availability EXCEPT ![b] = UpdateDueToProductionOrder(@, q)]
             /\ applied' = [applied EXCEPT ![p] = @ + 1]
             /\ Handled(m, {}, {})
    <2>1. b \in Beers /\ q \in Int
      BY AllocationAssumption DEF AllocationAssumption, Line
    <2>2. PICK t \in StockState : /\ t = UpdateDueToProductionOrder(availability[b], q)
                                  /\ t.held = availability[b].held
      <3>1. availability[b] \in StockState
        BY <2>1 DEF IInv, TypeOK, StockState
      <3>2. QED
        BY <2>1, <3>1, ProductionFacts
    <2>3. SoundStock
      BY <1>3, <2>1, <2>2 DEF SoundStock, StockState, IInv, TypeOK
    <2>4. QED
      BY <1>1, <1>3, <2>3, HandledQuietly, SoundStepKeepsIInv
  <1>4. QED
    BY <1>2, <1>3 DEF UpdateAvailabilityDueToProductionOrder

\* A change of one availability stream that keeps the type and every holder,
\* except orders whose saga compensates, is sound.
LEMMA OneBeerChanged ==
  ASSUME IInv, NEW b \in Beers,
         NEW a \in StockState,
         availability' = [availability EXCEPT ![b] = a], UNCHANGED applied,
         \A o \in Orders : o \in availability[b].held =>
           o \in a.held \/ saga[o].status \in {"compensating", "rejected"}
  PROVE  SoundStock
  BY DEF SoundStock, StockState, IInv, TypeOK

\* Allocating a row: an allocated answer is given only with the stock held.
LEMMA AllocateKeeps ==
  ASSUME IInv, NEW o \in Orders, NEW i \in DOMAIN Lines[o],
         UpdateAvailabilityDueToSalesOrder(o, i)
  PROVE  IInv'
  <1> DEFINE m == RowCommand("UpdateAvailabilityDueToSalesOrder", o, i)
             b == Lines[o][i].beer
             q == Lines[o][i].quantity
             a == availability[b]
             r == UpdateDueToSalesOrder(a, o, q)
  <1>1. b \in Beers /\ q \in Int
    BY LineFacts
  <1>2. a \in StockState
    BY <1>1 DEF IInv, TypeOK, StockState
  <1>3. SoundSaga /\ SoundOrder
    BY SagaUntouched, OrderUntouched DEF UpdateAvailabilityDueToSalesOrder
  <1>4. UNCHANGED applied
    BY DEF UpdateAvailabilityDueToSalesOrder
  <1>5. CASE Poisoned(m) /\ UNCHANGED availability
    BY <1>3, <1>4, <1>5, PoisonedFacts, StockUntouched, SoundStepKeepsIInv
  <1>6. CASE /\ availability' = [availability EXCEPT ![b] = RefuseUnknownBeer(a)]
             /\ Handled(m, {StepEvent("QuantityNotFound", o, b)}, {})
    <2>1. StepEvent("QuantityNotFound", o, b) \in Messages
      BY <1>1, MessageFacts DEF StepEventTypes
    <2>2. Justified(StepEvent("QuantityNotFound", o, b))'
      BY DEF Justified, StepEvent
    <2>3. SoundBus({StepEvent("QuantityNotFound", o, b)} \cup {})
      BY <1>6, <2>1, <2>2, HandledFacts
    <2>4. /\ RefuseUnknownBeer(a) \in StockState
          /\ RefuseUnknownBeer(a).held = a.held
      BY <1>1, <1>2, StockFacts
    <2>5. SoundStock
      BY <1>1, <1>4, <1>6, <2>4, OneBeerChanged
    <2>6. QED
      BY <1>3, <2>3, <2>5, SoundStepKeepsIInv
  <1>7. CASE /\ availability' = [availability EXCEPT ![b] = r.state]
             /\ Handled(m, {StepEvent(r.event, o, b)}, {})
    <2>0. PICK t, ev : t = r.state /\ ev = r.event
      OBVIOUS
    <2>1. /\ t \in StockState
          /\ ev \in {"BeerAvailabilityUpdated", "QuantityNotFound"}
          /\ ev = "BeerAvailabilityUpdated" => o \in t.held
          /\ a.held \subseteq t.held
      BY <1>1, <1>2, <2>0, StockFacts
    <2>2. StepEvent(ev, o, b) \in Messages
      BY <1>1, <2>1, MessageFacts DEF StepEventTypes
    <2>3. availability'[b] = t
      BY <1>1, <1>7, <2>0 DEF IInv, TypeOK
    <2>4. Justified(StepEvent(ev, o, b))'
      BY <2>1, <2>3 DEF Justified, StepEvent
    <2>5. SoundBus({StepEvent(ev, o, b)} \cup {})
      BY <1>7, <2>0, <2>2, <2>4, HandledFacts
    <2>6. SoundStock
      BY <1>1, <1>4, <1>7, <2>0, <2>1, OneBeerChanged
    <2>7. QED
      BY <1>3, <2>5, <2>6, SoundStepKeepsIInv
  <1>8. QED
    BY <1>4, <1>5, <1>6, <1>7 DEF UpdateAvailabilityDueToSalesOrder

\* Compensating a row: the command is only in flight for a saga that gives up,
\* so no order that may complete loses its stock.
LEMMA CompensateKeeps ==
  ASSUME IInv, NEW o \in Orders, NEW i \in DOMAIN Lines[o], CompensateAvailability(o, i)
  PROVE  IInv'
  <1> DEFINE m == RowCommand("CompensateAvailabilityDueToFailedAllocation", o, i)
             b == Lines[o][i].beer
             q == Lines[o][i].quantity
             a == availability[b]
             c == CompensateDueToFailedAllocation(a, o, q)
             n == StepEvent("AvailabilityCompensated", o, b)
  <1>1. b \in Beers /\ q \in Int
    BY LineFacts
  <1>2. a \in StockState
    BY <1>1 DEF IInv, TypeOK, StockState
  <1>3. SoundSaga /\ SoundOrder
    BY SagaUntouched, OrderUntouched DEF CompensateAvailability
  <1>4. UNCHANGED applied
    BY DEF CompensateAvailability
  <1>5. CASE Poisoned(m) /\ UNCHANGED availability
    BY <1>3, <1>4, <1>5, PoisonedFacts, StockUntouched, SoundStepKeepsIInv
  <1>6. CASE availability' = [availability EXCEPT ![b] = c] /\ Handled(m, {n}, {})
    <2>1. Justified(m)
      BY <1>6 DEF Handled, IInv, MessagesJustified
    <2>2. saga[o].status \in {"compensating", "rejected"}
      BY <2>1 DEF Justified, RowCommand
    <2>3. /\ c \in StockState
          /\ a.held \subseteq c.held \cup {o}
      BY <1>1, <1>2, StockFacts
    <2>4. n \in Messages
      BY <1>1, MessageFacts DEF StepEventTypes
    <2>5. Justified(n)'
      BY DEF Justified, StepEvent
    <2>6. SoundBus({n} \cup {})
      BY <1>6, <2>4, <2>5, HandledFacts
    <2>7. SoundStock
      <3> HIDE DEF c
      <3> QED BY <1>1, <1>4, <1>6, <2>2, <2>3, OneBeerChanged
    <2>8. QED
      BY <1>3, <2>6, <2>7, SoundStepKeepsIInv
  <1>7. QED
    BY <1>4, <1>5, <1>6 DEF CompensateAvailability

-----------------------------------------------------------------------------
(* The saga runner.                                                        *)

\* Saving a saga of the right shape, further on than before and with the stock
\* of its allocated rows held, is sound.
LEMMA SagaSaved ==
  ASSUME IInv, NEW o \in Orders, NEW s \in SagaState(Lines[o]),
         Shape(s), Advances(saga[o], s), order[o] # "none",
         \A i \in DOMAIN Lines[o] :
           s.status \in {"running", "completed"} /\ s.rows[i] = "allocated"
             => o \in availability[Lines[o][i].beer].held,
         saga' = [saga EXCEPT ![o] = s],
         UNCHANGED order, UNCHANGED <<availability, applied>>
  PROVE  /\ SoundSaga
         /\ SoundStock
         /\ SoundOrder
         /\ saga'[o] = s
  <1>1. SoundStock /\ SoundOrder
    BY StockUntouched, OrderUntouched
  <1>2. DOMAIN saga' = Orders /\ saga'[o] = s
    BY DEF IInv, TypeOK
  <1>3. \A p \in Orders : p # o => saga'[p] = saga[p]
    BY DEF IInv, TypeOK
  <1>4. SoundSaga
    <2> SUFFICES ASSUME NEW p \in Orders
                 PROVE  /\ saga'[p] \in SagaState(Lines[p])
                        /\ Shape(saga'[p])
                        /\ Advances(saga[p], saga'[p])
                        /\ saga'[p].status # "none" => order[p] # "none"
                        /\ \A i \in DOMAIN Lines[p] :
                             saga'[p].status \in {"running", "completed"}
                               /\ saga'[p].rows[i] = "allocated"
                             => p \in availability[Lines[p][i].beer].held
      BY <1>2 DEF SoundSaga
    <2>1. CASE p = o
      BY <1>2, <2>1
    <2>2. CASE p # o
      BY <1>3, <2>2 DEF IInv, TypeOK, SagaShape, AllocatedRowsHeld, OrdersJustified, SagaState,
         Advances, Settled
    <2>3. QED
      BY <2>1, <2>2
  <1>5. QED
    BY <1>1, <1>2, <1>4

\* What the runner sends is justified by the saga it sends it for.
LEMMA SendFacts ==
  ASSUME NEW o \in Orders, NEW s \in SagaState(Lines[o]), Shape(s), saga'[o] = s
  PROVE  /\ s.status = "running" =>
              /\ sendNextAllocation(o, s) \subseteq Messages
              /\ \A n \in sendNextAllocation(o, s) : Justified(n)'
         /\ sendCompensations(o, s) \subseteq Messages
         /\ \A n \in sendCompensations(o, s) : Justified(n)'
         /\ Settled(s) =>
              /\ publishOutcome(o, s) \subseteq Messages
              /\ \A n \in publishOutcome(o, s) : Justified(n)'
  <1>1. ASSUME s.status = "running"
        PROVE  /\ sendNextAllocation(o, s) \subseteq Messages
               /\ \A n \in sendNextAllocation(o, s) : Justified(n)'
    <2>1. PICK i \in DOMAIN Lines[o] : i = NextPendingRow(s)
      BY <1>1, LineFacts, NextRowFacts
    <2>2. RowCommand("UpdateAvailabilityDueToSalesOrder", o, i) \in Messages
      BY MessageFacts DEF RowCommandTypes
    <2>3. Justified(RowCommand("UpdateAvailabilityDueToSalesOrder", o, i))'
      BY DEF Justified, RowCommand
    <2>4. QED
      BY <2>1, <2>2, <2>3 DEF sendNextAllocation
  <1>2. /\ sendCompensations(o, s) \subseteq Messages
        /\ \A n \in sendCompensations(o, s) : Justified(n)'
    <2> SUFFICES ASSUME NEW i \in DOMAIN Lines[o], s.status = "compensating"
                 PROVE  LET n == RowCommand("CompensateAvailabilityDueToFailedAllocation", o, i)
                        IN  n \in Messages /\ Justified(n)'
      BY DEF sendCompensations, RowsToCompensate, SagaState
    <2>1. RowCommand("CompensateAvailabilityDueToFailedAllocation", o, i) \in Messages
      BY MessageFacts DEF RowCommandTypes
    <2>2. Justified(RowCommand("CompensateAvailabilityDueToFailedAllocation", o, i))'
      BY DEF Justified, RowCommand
    <2>3. QED
      BY <2>1, <2>2
  <1>3. ASSUME Settled(s)
        PROVE  /\ publishOutcome(o, s) \subseteq Messages
               /\ \A n \in publishOutcome(o, s) : Justified(n)'
    <2>1. /\ OrderMessage("OrderAllocationCompleted", o) \in Messages
          /\ OrderMessage("OrderAllocationRejected", o) \in Messages
      BY MessageFacts DEF OrderMessageTypes
    <2>2. s.status = "completed" => Justified(OrderMessage("OrderAllocationCompleted", o))'
      BY DEF Justified, OrderMessage
    <2>3. s.status = "rejected" => Justified(OrderMessage("OrderAllocationRejected", o))'
      BY DEF Justified, OrderMessage
    <2>4. QED
      BY <1>3, <2>1, <2>2, <2>3 DEF publishOutcome, Settled
  <1>4. QED
    BY <1>1, <1>2, <1>3

\* A message the runner has nothing to record for.
LEMMA IgnoredKeeps ==
  ASSUME IInv, NEW m, Ignored(m)
  PROVE  IInv'
  <1>1. UNCHANGED order /\ UNCHANGED saga /\ UNCHANGED <<availability, applied>>
    BY DEF Ignored
  <1>2. SoundBus({})
    BY HandledQuietly DEF Ignored
  <1>3. QED
    BY <1>1, <1>2, SagaUntouched, StockUntouched, OrderUntouched, SoundStepKeepsIInv

\* A handler of the runner that saves s and sends something justified by it.
LEMMA SaveThenSendKeeps ==
  ASSUME IInv, NEW m, NEW o \in Orders, NEW s \in SagaState(Lines[o]), NEW sends,
         Shape(s), Advances(saga[o], s), order[o] # "none",
         \A i \in DOMAIN Lines[o] :
           s.status \in {"running", "completed"} /\ s.rows[i] = "allocated"
             => o \in availability[Lines[o][i].beer].held,
         \/ sends = sendNextAllocation(o, s) /\ s.status = "running"
         \/ sends = sendCompensations(o, s)
         \/ sends = publishOutcome(o, s) /\ Settled(s)
         \/ sends = {},
         SaveThenSend(m, o, s, sends)
  PROVE  IInv'
  <1>1. saga' = [saga EXCEPT ![o] = s] /\ UNCHANGED order /\ UNCHANGED <<availability, applied>>
    BY DEF SaveThenSend
  <1>2. SoundSaga /\ SoundStock /\ SoundOrder /\ saga'[o] = s
    BY <1>1, SagaSaved
  <1>3. {} \cup sends \subseteq Messages /\ \A n \in {} \cup sends : Justified(n)'
    BY <1>2, SendFacts
  <1>4. Handled(m, {}, sends)
    BY DEF SaveThenSend
  <1>5. SoundBus({} \cup sends)
    BY <1>3, <1>4, HandledFacts
  <1>6. QED
    BY <1>2, <1>5, SoundStepKeepsIInv

\* Starting a saga: the order exists, because the message that starts it says so.
LEMMA OnSalesOrderCreatedKeeps ==
  ASSUME IInv, NEW o \in Orders, OnSalesOrderCreated(o)
  PROVE  IInv'
  <1> DEFINE m == OrderMessage("sales.sales_order_created", o)
  <1>1. PICK s : s = StartOrderAllocation(Lines[o])
    OBVIOUS
  <1>2. CASE Ignored(m)
    BY <1>2, IgnoredKeeps
  <1>3. CASE /\ saga[o].status = "none"
             /\ SaveThenSend(m, o, s,
                  IF s.status = "completed" THEN publishOutcome(o, s)
                                            ELSE sendNextAllocation(o, s))
    <2>1. m \in bus
      BY <1>3 DEF SaveThenSend, Handled
    <2>2. order[o] # "none"
      BY <2>1 DEF IInv, MessagesJustified, Justified, OrderMessage
    <2>3. /\ s \in SagaState(Lines[o])
          /\ Shape(s)
          /\ s.status \in {"running", "completed"}
          /\ \A i \in DOMAIN Lines[o] : s.rows[i] = "pending"
      BY <1>1, LineFacts, StartFacts
    <2>4. Advances(saga[o], s)
      BY <1>3 DEF Advances, Settled
    <2>5. \A i \in DOMAIN Lines[o] : s.rows[i] # "allocated"
      BY <2>3
    <2>6. CASE s.status = "completed"
      BY <1>3, <2>2, <2>3, <2>4, <2>5, <2>6, SaveThenSendKeeps DEF Settled
    <2>7. CASE s.status = "running"
      BY <1>3, <2>2, <2>3, <2>4, <2>5, <2>7, SaveThenSendKeeps
    <2>8. QED
      BY <2>3, <2>6, <2>7
  <1>4. QED
    BY <1>1, <1>2, <1>3 DEF OnSalesOrderCreated

\* A row was allocated: the event is justified, so a saga that still runs finds
\* the stock held.
LEMMA OnBeerAvailabilityUpdatedKeeps ==
  ASSUME IInv, NEW o \in Orders, NEW b \in Beers, OnBeerAvailabilityUpdated(o, b)
  PROVE  IInv'
  <1> DEFINE m == StepEvent("BeerAvailabilityUpdated", o, b)
  <1>1. PICK s : s = RecordAllocationSucceeded(saga[o], Lines[o], b)
    OBVIOUS
  <1>2. CASE Ignored(m)
    BY <1>2, IgnoredKeeps
  <1>3. CASE /\ s # saga[o]
             /\ SaveThenSend(m, o, s,
                  IF s.status = "completed" THEN publishOutcome(o, s)
                                            ELSE sendNextAllocation(o, s))
    <2>1. m \in bus
      BY <1>3 DEF SaveThenSend, Handled
    <2>2. o \in availability[b].held \/ saga[o].status \in {"compensating", "rejected"}
      BY <2>1 DEF IInv, MessagesJustified, Justified, StepEvent
    <2>3. saga[o] \in SagaState(Lines[o]) /\ Shape(saga[o])
      BY DEF IInv, TypeOK, SagaShape, SagaState
    <2>4. /\ s \in SagaState(Lines[o])
          /\ Shape(s)
          /\ Advances(saga[o], s)
          /\ saga[o].status = "running" /\ s.status \in {"running", "completed"}
          /\ \A i \in DOMAIN Lines[o] :
               s.rows[i] = "allocated" => saga[o].rows[i] = "allocated" \/ Lines[o][i].beer = b
      BY <1>1, <1>3, <2>3, LineFacts, SucceededFacts
    <2>5. order[o] # "none"
      BY <2>4 DEF IInv, OrdersJustified
    <2>6. \A i \in DOMAIN Lines[o] :
            s.rows[i] = "allocated" => o \in availability[Lines[o][i].beer].held
      BY <2>2, <2>4 DEF IInv, AllocatedRowsHeld
    <2>7. CASE s.status = "completed"
      BY <1>3, <2>4, <2>5, <2>6, <2>7, SaveThenSendKeeps DEF Settled
    <2>8. CASE s.status = "running"
      BY <1>3, <2>4, <2>5, <2>6, <2>8, SaveThenSendKeeps
    <2>9. QED
      BY <2>4, <2>7, <2>8
  <1>4. QED
    BY <1>1, <1>2, <1>3 DEF OnBeerAvailabilityUpdated

\* A row was refused: the saga compensates or rejects.
LEMMA OnQuantityNotFoundKeeps ==
  ASSUME IInv, NEW o \in Orders, NEW b \in Beers, OnQuantityNotFound(o, b)
  PROVE  IInv'
  <1> DEFINE m == StepEvent("QuantityNotFound", o, b)
  <1>1. PICK s : s = RecordQuantityNotFound(saga[o], Lines[o], b)
    OBVIOUS
  <1>2. CASE Ignored(m)
    BY <1>2, IgnoredKeeps
  <1>3. CASE s # saga[o] /\ SaveThenSend(m, o, s, StepFailedSends(o, s))
    <2>1. saga[o] \in SagaState(Lines[o]) /\ Shape(saga[o])
      BY DEF IInv, TypeOK, SagaShape, SagaState
    <2>2. /\ s \in SagaState(Lines[o])
          /\ Shape(s)
          /\ Advances(saga[o], s)
          /\ saga[o].status = "running" /\ s.status \in {"compensating", "rejected"}
      BY <1>1, <1>3, <2>1, LineFacts, NotFoundFacts
    <2>3. order[o] # "none"
      BY <2>2 DEF IInv, OrdersJustified
    <2>4. CASE s.status = "rejected"
      BY <1>3, <2>2, <2>3, <2>4, SaveThenSendKeeps DEF Settled, StepFailedSends
    <2>5. CASE s.status = "compensating"
      BY <1>3, <2>2, <2>3, <2>5, SaveThenSendKeeps DEF StepFailedSends
    <2>6. QED
      BY <2>2, <2>4, <2>5
  <1>4. QED
    BY <1>1, <1>2, <1>3 DEF OnQuantityNotFound

\* A row was given back: the saga waits for the others or rejects.
LEMMA OnAvailabilityCompensatedKeeps ==
  ASSUME IInv, NEW o \in Orders, NEW b \in Beers, OnAvailabilityCompensated(o, b)
  PROVE  IInv'
  <1> DEFINE m == StepEvent("AvailabilityCompensated", o, b)
  <1>1. PICK s : s = RecordCompensated(saga[o], Lines[o], b)
    OBVIOUS
  <1>2. CASE Ignored(m)
    BY <1>2, IgnoredKeeps
  <1>3. CASE /\ s # saga[o]
             /\ SaveThenSend(m, o, s,
                  IF s.status = "rejected" THEN publishOutcome(o, s) ELSE {})
    <2>1. saga[o] \in SagaState(Lines[o]) /\ Shape(saga[o])
      BY DEF IInv, TypeOK, SagaShape, SagaState
    <2>2. /\ s \in SagaState(Lines[o])
          /\ Shape(s)
          /\ Advances(saga[o], s)
          /\ saga[o].status = "compensating" /\ s.status \in {"compensating", "rejected"}
      BY <1>1, <1>3, <2>1, LineFacts, CompensatedFacts
    <2>3. order[o] # "none"
      BY <2>2 DEF IInv, OrdersJustified
    <2>4. CASE s.status = "rejected"
      BY <1>3, <2>2, <2>3, <2>4, SaveThenSendKeeps DEF Settled
    <2>5. CASE s.status = "compensating"
      BY <1>3, <2>2, <2>3, <2>5, SaveThenSendKeeps
    <2>6. QED
      BY <2>2, <2>4, <2>5
  <1>4. QED
    BY <1>1, <1>2, <1>3 DEF OnAvailabilityCompensated

\* Resuming repeats sends that the sagas in flight justify.
LEMMA ResumeInFlightKeeps ==
  ASSUME IInv, ResumeInFlight
  PROVE  IInv'
  <1>1. UNCHANGED order /\ UNCHANGED saga /\ UNCHANGED <<availability, applied>>
    BY DEF ResumeInFlight
  <1>2. PICK sends : /\ sends = UNION {drive(o, saga[o]) : o \in {p \in Orders : InFlight(saga[p])}}
                     /\ Dispatch(sends)
    BY DEF ResumeInFlight
  <1>3. ASSUME NEW n \in sends
        PROVE  n \in Messages /\ Justified(n)'
    <2>1. PICK o \in Orders : InFlight(saga[o]) /\ n \in drive(o, saga[o])
      BY <1>2
    <2>2. PICK s : s = saga[o]
      OBVIOUS
    <2>3. s \in SagaState(Lines[o]) /\ Shape(s) /\ saga'[o] = s
      BY <1>1, <2>2 DEF IInv, TypeOK, SagaShape, SagaState
    <2>4. \/ n \in sendCompensations(o, s)
          \/ n \in sendNextAllocation(o, s) /\ s.status = "running"
      BY <2>1, <2>2 DEF drive, InFlight
    <2>5. QED
      BY <2>3, <2>4, SendFacts
  <1>4. sends \subseteq Messages /\ \A n \in sends : Justified(n)'
    BY <1>3
  <1>5. UNCHANGED deadLetters
    BY DEF ResumeInFlight
  <1>6. SoundBus(sends)
    BY <1>2, <1>4, <1>5, DispatchFacts
  <1>7. QED
    BY <1>1, <1>6, SagaUntouched, StockUntouched, OrderUntouched, SoundStepKeepsIInv

\* The watchdog fails the pending row or repeats the compensations.
LEMMA TimeoutInFlightKeeps ==
  ASSUME IInv, NEW o \in Orders, TimeoutInFlight(o)
  PROVE  IInv'
  <1>1. UNCHANGED order /\ UNCHANGED <<availability, applied>> /\ UNCHANGED deadLetters
    BY DEF TimeoutInFlight
  <1>2. saga[o] \in SagaState(Lines[o]) /\ Shape(saga[o])
    BY DEF IInv, TypeOK, SagaShape, SagaState
  <1>3. CASE Dispatch(sendCompensations(o, saga[o])) /\ UNCHANGED saga
    <2>1. PICK s : s = saga[o]
      OBVIOUS
    <2>2. s \in SagaState(Lines[o]) /\ Shape(s) /\ saga'[o] = s
      BY <1>2, <1>3, <2>1
    <2>3. PICK sends : sends = sendCompensations(o, s)
      OBVIOUS
    <2>4. sends \subseteq Messages /\ \A n \in sends : Justified(n)'
      BY <2>2, <2>3, SendFacts
    <2>5. SoundBus(sends)
      BY <1>1, <1>3, <2>1, <2>3, <2>4, DispatchFacts
    <2>6. QED
      BY <1>1, <1>3, <2>5, SagaUntouched, StockUntouched, OrderUntouched, SoundStepKeepsIInv
  <1>4. ASSUME NEW s, NEW beer, saga[o].status = "running",
               s = RecordQuantityNotFound(saga[o], Lines[o], beer),
               saga' = [saga EXCEPT ![o] = s],
               Dispatch(StepFailedSends(o, s)),
               s # saga[o]
        PROVE  IInv'
    <2>1. /\ s \in SagaState(Lines[o])
          /\ Shape(s)
          /\ Advances(saga[o], s)
          /\ s.status \in {"compensating", "rejected"}
      BY <1>2, <1>4, LineFacts, NotFoundFacts
    <2>2. order[o] # "none"
      BY <1>4 DEF IInv, OrdersJustified
    <2>3. SoundSaga /\ SoundStock /\ SoundOrder /\ saga'[o] = s
      BY <1>1, <1>4, <2>1, <2>2, SagaSaved
    <2>4. PICK sends : sends = StepFailedSends(o, s)
      OBVIOUS
    <2>5. sends \subseteq Messages /\ \A n \in sends : Justified(n)'
      BY <2>1, <2>3, <2>4, SendFacts DEF StepFailedSends, Settled
    <2>6. SoundBus(sends)
      BY <1>1, <1>4, <2>4, <2>5, DispatchFacts
    <2>7. QED
      BY <2>3, <2>6, SoundStepKeepsIInv
  <1>5. CASE /\ saga[o].status = "running"
             /\ LET beer == Lines[o][NextPendingRow(saga[o])].beer
                    s == RecordQuantityNotFound(saga[o], Lines[o], beer)
                IN  /\ saga' = [saga EXCEPT ![o] = s]
                    /\ Dispatch(StepFailedSends(o, s))
    <2>1. PICK i \in DOMAIN Lines[o] : i = NextPendingRow(saga[o]) /\ saga[o].rows[i] = "pending"
      BY <1>2, <1>5, LineFacts, NextRowFacts
    <2>2. PICK s : s = RecordQuantityNotFound(saga[o], Lines[o], Lines[o][i].beer)
      OBVIOUS
    <2>3. s.rows[i] = "failed"
      BY <1>5, <2>1, <2>2 DEF RecordQuantityNotFound, AwaitsStep, rowInState, setRowState
    <2>4. s # saga[o]
      BY <2>1, <2>3
    <2>5. QED
      BY <1>4, <1>5, <2>1, <2>2, <2>4
  <1>6. QED
    BY <1>3, <1>5 DEF TimeoutInFlight

\* Parking and redriving move messages and change nothing else.
LEMMA DeadLettersKeep ==
  ASSUME IInv, Redrive \/ \E m \in bus : Park(m)
  PROVE  IInv'
  <1>1. UNCHANGED order /\ UNCHANGED saga /\ UNCHANGED <<availability, applied>>
    BY DEF Redrive, Park
  <1>2. SoundBus({})
    BY AllocationAssumption DEF Redrive, Park, Fault, SoundBus, IInv, TypeOK
  <1>3. QED
    BY <1>1, <1>2, SagaUntouched, StockUntouched, OrderUntouched, SoundStepKeepsIInv

-----------------------------------------------------------------------------
\* The empty event store and the idle bus satisfy the inductive invariant.
LEMMA InitIInv == Init => IInv
  <1> SUFFICES ASSUME Init PROVE IInv
    OBVIOUS
  <1>1. \A o \in Orders : /\ saga[o] \in SagaState(Lines[o])
                          /\ Shape(saga[o])
                          /\ saga[o].status = "none"
    BY LineFacts DEF Init, NoSaga, SagaState, Shape, SagaStatus, SagaRowState, allRowsIn
  <1>2. TypeOK
    BY <1>1, AllocationAssumption DEF AllocationAssumption, Init, TypeOK, SagaState, OrderStatus,
       NewAvailability
  <1>3. MessagesJustified
    BY DEF Init, MessagesJustified
  <1>4. SagaShape /\ AllocatedRowsHeld /\ OrdersJustified
    BY <1>1 DEF Init, SagaShape, AllocatedRowsHeld, OrdersJustified
  <1>5. QED
    BY <1>2, <1>3, <1>4 DEF IInv

\* Every step keeps the inductive invariant.
LEMMA NextIInv == IInv /\ [Next]_vars => IInv'
  <1> SUFFICES ASSUME IInv, [Next]_vars PROVE IInv'
    OBVIOUS
  <1>1. CASE UNCHANGED vars
    BY <1>1 DEF vars, IInv, TypeOK, SagaShape, AllocatedRowsHeld, MessagesJustified, Justified,
       OrdersJustified
  <1>2. ASSUME NEW o \in Orders, PlaceSalesOrder(o)
        PROVE  IInv'
    BY <1>2, PlaceSalesOrderKeeps
  <1>3. ASSUME NEW o \in Orders, SalesStep(o)
        PROVE  IInv'
    BY <1>3, CreateSalesOrderKeeps, TranslatorsKeep, MarkSettledKeeps DEF SalesStep
  <1>4. ASSUME NEW o \in Orders, OnSalesOrderCreated(o)
        PROVE  IInv'
    BY <1>4, OnSalesOrderCreatedKeeps
  <1>5. ASSUME NEW o \in Orders, NEW i \in DOMAIN Lines[o], RowStep(o, i)
        PROVE  IInv'
    BY <1>5, AllocateKeeps, CompensateKeeps DEF RowStep
  <1>6. ASSUME NEW o \in Orders, NEW b \in Beers, SagaStep(o, b)
        PROVE  IInv'
    BY <1>6, OnBeerAvailabilityUpdatedKeeps, OnQuantityNotFoundKeeps,
       OnAvailabilityCompensatedKeeps DEF SagaStep
  <1>7. ASSUME NEW o \in Orders, TimeoutInFlight(o)
        PROVE  IInv'
    BY <1>7, TimeoutInFlightKeeps
  <1>8. ASSUME NEW p \in Productions,
               PlaceProductionOrder(p) \/ UpdateAvailabilityDueToProductionOrder(p)
        PROVE  IInv'
    BY <1>8, PlaceProductionOrderKeeps, ProductionKeeps
  <1>9. CASE ResumeInFlight
    BY <1>9, ResumeInFlightKeeps
  <1>10. CASE Redrive \/ \E m \in bus : Park(m)
    BY <1>10, DeadLettersKeep
  <1>11. QED
    BY <1>1, <1>2, <1>3, <1>4, <1>5, <1>6, <1>7, <1>8, <1>9, <1>10 DEF Next

\* The inductive invariant holds in every reachable state.
THEOREM IInvAlways == Spec => []IInv
  BY InitIInv, NextIInv, PTL DEF Spec

\* The streams, the queues and the dead letters always hold what they may hold.
THEOREM TypeCorrect == Spec => []TypeOK
  <1>1. IInv => TypeOK
    BY DEF IInv
  <1>2. QED
    BY IInvAlways, <1>1, PTL

\* A saga in flight always waits for a row, and a settled one has settled all
\* of them: sendNextAllocation and the watchdog never find nothing to do.
THEOREM SagaIsNeverStuck == Spec => []SagaNeverStuck
  <1>1. IInv => SagaNeverStuck
    BY DEF IInv, SagaShape, Shape, SagaNeverStuck
  <1>2. QED
    BY IInvAlways, <1>1, PTL

\* However late, repeated or parked, a message of the process states a fact
\* that still holds when its handler runs.
THEOREM MessagesStayJustified == Spec => []MessagesJustified
  <1>1. IInv => MessagesJustified
    BY DEF IInv
  <1>2. QED
    BY IInvAlways, <1>1, PTL

\* A completed order holds the stock of all its rows: no compensation ever
\* reaches an order that completes.
THEOREM CompletedOrdersHoldStock == Spec => []CompletedOrderHoldsStock
  <1>1. IInv => CompletedOrderHoldsStock
    BY DEF IInv, TypeOK, SagaShape, Shape, allRowsIn, AllocatedRowsHeld, CompletedOrderHoldsStock
  <1>2. QED
    BY IInvAlways, <1>1, PTL

-----------------------------------------------------------------------------
(* Refinement.                                                             *)

\* What a step of the process may do to the orders and the sagas: nothing,
\* create an order, settle an order by a justified command, or advance a saga.
OrderCreated(o) ==
  /\ order[o] = "none"
  /\ order' = [order EXCEPT ![o] = "pending"]
  /\ UNCHANGED saga

OrderSettled(o) ==
  /\ order[o] = "pending"
  /\ \/ order' = [order EXCEPT ![o] = "allocated"] /\ saga[o].status = "completed"
     \/ order' = [order EXCEPT ![o] = "rejected"] /\ saga[o].status = "rejected"
  /\ UNCHANGED saga

SagaAdvanced(o) ==
  /\ UNCHANGED order
  /\ \E s : saga' = [saga EXCEPT ![o] = s] /\ Advances(saga[o], s)

\* Every step of the process is one of these.
LEMMA StepEffect ==
  ASSUME IInv, Next
  PROVE  \/ UNCHANGED <<order, saga>>
         \/ \E o \in Orders : OrderCreated(o) \/ OrderSettled(o) \/ SagaAdvanced(o)
  <1>1. ASSUME NEW o \in Orders, SalesStep(o)
        PROVE  UNCHANGED <<order, saga>> \/ OrderCreated(o) \/ OrderSettled(o)
    <2>1. CASE CreateSalesOrder(o)
      BY <2>1 DEF CreateSalesOrder, OrderCreated
    <2>2. CASE PublishSalesOrderCreated(o) \/ OnAllocationCompleted(o) \/ OnAllocationRejected(o)
      BY <2>2 DEF PublishSalesOrderCreated, OnAllocationCompleted, OnAllocationRejected
    <2>3. CASE MarkAllocated(o)
      <3> DEFINE m == OrderMessage("MarkSalesOrderAllocated", o)
      <3>1. CASE UNCHANGED <<order, saga>>
        BY <3>1
      <3>2. CASE /\ order[o] = "pending"
                 /\ order' = [order EXCEPT ![o] = "allocated"]
                 /\ UNCHANGED saga
                 /\ m \in bus
        <4>1. Justified(m)
          BY <3>2 DEF IInv, MessagesJustified
        <4>2. saga[o].status = "completed"
          BY <4>1 DEF Justified, OrderMessage
        <4>3. QED
          BY <3>2, <4>2 DEF OrderSettled
      <3>3. QED
        BY <2>3, <3>1, <3>2 DEF MarkAllocated, MarkSettled, Handled
    <2>4. CASE MarkAllocationRejected(o)
      <3> DEFINE m == OrderMessage("MarkSalesOrderAllocationRejected", o)
      <3>1. CASE UNCHANGED <<order, saga>>
        BY <3>1
      <3>2. CASE /\ order[o] = "pending"
                 /\ order' = [order EXCEPT ![o] = "rejected"]
                 /\ UNCHANGED saga
                 /\ m \in bus
        <4>1. Justified(m)
          BY <3>2 DEF IInv, MessagesJustified
        <4>2. saga[o].status = "rejected"
          BY <4>1 DEF Justified, OrderMessage
        <4>3. QED
          BY <3>2, <4>2 DEF OrderSettled
      <3>3. QED
        BY <2>4, <3>1, <3>2 DEF MarkAllocationRejected, MarkSettled, Handled
    <2>5. QED
      BY <1>1, <2>1, <2>2, <2>3, <2>4 DEF SalesStep
  <1>2. ASSUME NEW o \in Orders, NEW i \in DOMAIN Lines[o], RowStep(o, i)
        PROVE  UNCHANGED <<order, saga>>
    BY <1>2 DEF RowStep, UpdateAvailabilityDueToSalesOrder, CompensateAvailability
  <1>3. ASSUME NEW o \in Orders
        PROVE  saga[o] \in SagaState(Lines[o]) /\ Shape(saga[o]) /\ Lines[o] \in Seq(Line)
    BY LineFacts DEF IInv, TypeOK, SagaShape, SagaState
  <1>4. ASSUME NEW o \in Orders, OnSalesOrderCreated(o)
        PROVE  UNCHANGED <<order, saga>> \/ SagaAdvanced(o)
    BY <1>4 DEF OnSalesOrderCreated, Ignored, SaveThenSend, SagaAdvanced, Advances, Settled
  <1>5. ASSUME NEW o \in Orders, NEW b \in Beers, SagaStep(o, b)
        PROVE  UNCHANGED <<order, saga>> \/ SagaAdvanced(o)
    <2>1. CASE OnBeerAvailabilityUpdated(o, b)
      BY <1>3, <2>1, SucceededFacts
         DEF OnBeerAvailabilityUpdated, Ignored, SaveThenSend, SagaAdvanced
    <2>2. CASE OnQuantityNotFound(o, b)
      BY <1>3, <2>2, NotFoundFacts DEF OnQuantityNotFound, Ignored, SaveThenSend, SagaAdvanced
    <2>3. CASE OnAvailabilityCompensated(o, b)
      BY <1>3, <2>3, CompensatedFacts
         DEF OnAvailabilityCompensated, Ignored, SaveThenSend, SagaAdvanced
    <2>4. QED
      BY <1>5, <2>1, <2>2, <2>3 DEF SagaStep
  <1>6. ASSUME NEW o \in Orders, TimeoutInFlight(o)
        PROVE  UNCHANGED <<order, saga>> \/ SagaAdvanced(o)
    BY <1>3, <1>6, NotFoundFacts DEF TimeoutInFlight, SagaAdvanced
  <1>7. QED
    BY <1>1, <1>2, <1>4, <1>5, <1>6 DEF Next, PlaceSalesOrder, PlaceProductionOrder,
       UpdateAvailabilityDueToProductionOrder, ResumeInFlight, Park, Redrive

\* A step of the process is a step of OrderSettlement or changes nothing there.
LEMMA SettlementStep ==
  ASSUME IInv, IInv', [Next]_vars
  PROVE  [Settlement!SettlementNext]_(Settlement!settlementVars)
  <1> DEFINE decision == [o \in Orders |-> Decision(saga[o])]
  <1>1. CASE UNCHANGED <<order, saga>>
    BY <1>1 DEF Settlement!settlementVars
  <1>2. ASSUME NEW o \in Orders, OrderCreated(o)
        PROVE  Settlement!Place(o)
    BY <1>2 DEF OrderCreated, Settlement!Place
  <1>3. ASSUME NEW o \in Orders, OrderSettled(o)
        PROVE  Settlement!Settle(o)
    BY <1>3 DEF OrderSettled, Settlement!Settle, Settlement!Outcome, Decision
  <1>4. ASSUME NEW o \in Orders, SagaAdvanced(o)
        PROVE  Settlement!Decide(o) \/ UNCHANGED Settlement!settlementVars
    <2>1. PICK s : saga' = [saga EXCEPT ![o] = s] /\ Advances(saga[o], s)
      BY <1>4 DEF SagaAdvanced
    <2>2. saga'[o] = s /\ \A p \in Orders : p # o => saga'[p] = saga[p]
      BY <2>1 DEF IInv, TypeOK
    <2>3. decision' = [decision EXCEPT ![o] = Decision(s)]
      BY <2>2
    <2>4. UNCHANGED order
      BY <1>4 DEF SagaAdvanced
    <2>5. CASE Decision(s) = Decision(saga[o])
      BY <2>3, <2>4, <2>5 DEF Settlement!settlementVars
    <2>6. CASE Decision(s) # Decision(saga[o])
      <3>1. ~Settled(saga[o])
        BY <2>1, <2>6 DEF Advances
      <3>2. decision[o] = "open" /\ Decision(s) \in {"allocated", "rejected"}
        BY <2>6, <3>1 DEF Decision, Settled
      <3>3. s.status \in {"completed", "rejected"}
        BY <3>2 DEF Decision
      <3>4. order[o] # "none"
        BY <2>2, <2>4, <3>3 DEF IInv, OrdersJustified
      <3>5. order[o] = "pending"
        BY <3>1, <3>4 DEF IInv, TypeOK, OrderStatus, OrdersJustified, Settled
      <3>6. QED
        BY <2>3, <2>4, <3>2, <3>5 DEF Settlement!Decide, Settlement!Outcome
    <2>7. QED
      BY <2>5, <2>6
  <1>5. CASE Next
    BY <1>1, <1>2, <1>3, <1>4, <1>5, StepEffect DEF Settlement!SettlementNext
  <1>6. CASE UNCHANGED vars
    BY <1>1, <1>6 DEF vars
  <1>7. QED
    BY <1>5, <1>6

\* The allocation process implements OrderSettlement: for any number of faults,
\* the status Sales shows is the one the warehouse decided, once.
THEOREM ProcessSettlesAsDecided == Spec => SettlesAsDecided
  <1>1. Init => Settlement!SettlementInit
    BY DEF Init, NoSaga, Settlement!SettlementInit, Decision
  <1>2. IInv /\ IInv' /\ [Next]_vars
          => [Settlement!SettlementNext]_(Settlement!settlementVars)
    BY SettlementStep
  <1>3. QED
    BY IInvAlways, <1>1, <1>2, PTL DEF Spec, SettlesAsDecided, Settlement!SettlementSpec
=============================================================================
