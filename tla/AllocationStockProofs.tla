------------------------ MODULE AllocationStockProofs ------------------------
(***************************************************************************)
(* Further proofs about Allocation, on top of AllocationProofs: the order  *)
(* in which a saga takes its rows, what a rejected order holds, and the    *)
(* conservation of stock.                                                  *)
(***************************************************************************)
EXTENDS AllocationProofs, FiniteSetTheorems

\* The order names no beer twice.
DistinctBeers(o) ==
  \A k, l \in DOMAIN Lines[o] : Lines[o][k].beer = Lines[o][l].beer => k = l

-----------------------------------------------------------------------------
(* Operators.                                                              *)

\* t has the rows of s, except that every row of beer b is in the state given.
Rewritten(s, t, lines, b, state) ==
  \A i \in DOMAIN lines : t.rows[i] = IF lines[i].beer = b THEN state ELSE s.rows[i]

\* Each Record* operator does nothing, or rewrites the rows of its beer, and it
\* does something exactly when its guard holds.
LEMMA RecordedRows ==
  ASSUME NEW lines \in Seq(Line), NEW s \in SagaState(lines), NEW b
  PROVE  /\ LET t == RecordAllocationSucceeded(s, lines, b)
            IN  /\ ~AwaitsStep(s, lines, b) => t = s
                /\ AwaitsStep(s, lines, b) => t # s /\ Rewritten(s, t, lines, b, "allocated")
         /\ LET t == RecordQuantityNotFound(s, lines, b)
            IN  /\ ~AwaitsStep(s, lines, b) => t = s
                /\ AwaitsStep(s, lines, b) => t # s /\ Rewritten(s, t, lines, b, "failed")
         /\ LET t == RecordCompensated(s, lines, b)
            IN  /\ ~(s.status = "compensating" /\ rowInState(s, lines, b, "allocated")) => t = s
                /\ s.status = "compensating" /\ rowInState(s, lines, b, "allocated") =>
                     t # s /\ Rewritten(s, t, lines, b, "compensated")
<1>1. s.rows \in [DOMAIN lines -> SagaRowState] /\ s = [status |-> s.status, rows |-> s.rows]
  BY DEF SagaState
<1>2. ASSUME NEW state \in {"allocated", "failed", "compensated"}, NEW t,
             t.rows = setRowState(s, lines, b, state)
      PROVE  /\ Rewritten(s, t, lines, b, state)
             /\ state # "compensated" /\ AwaitsStep(s, lines, b) => t # s
             /\ state = "compensated" /\ rowInState(s, lines, b, "allocated") => t # s
  BY <1>2 DEF setRowState, Rewritten, AwaitsStep, rowInState
<1>3. ASSUME AwaitsStep(s, lines, b)
      PROVE  /\ RecordAllocationSucceeded(s, lines, b).rows = setRowState(s, lines, b, "allocated")
             /\ RecordQuantityNotFound(s, lines, b).rows = setRowState(s, lines, b, "failed")
  <2>1. RecordAllocationSucceeded(s, lines, b).rows = setRowState(s, lines, b, "allocated")
    BY <1>1, <1>3 DEF RecordAllocationSucceeded, SagaState
  <2>2. RecordQuantityNotFound(s, lines, b).rows = setRowState(s, lines, b, "failed")
    BY <1>1, <1>3 DEF RecordQuantityNotFound
  <2> QED
    BY <2>1, <2>2
<1>4. ASSUME s.status = "compensating", rowInState(s, lines, b, "allocated")
      PROVE  RecordCompensated(s, lines, b).rows = setRowState(s, lines, b, "compensated")
  BY <1>1, <1>4 DEF RecordCompensated, SagaState
<1>5. ASSUME ~AwaitsStep(s, lines, b)
      PROVE  RecordAllocationSucceeded(s, lines, b) = s /\ RecordQuantityNotFound(s, lines, b) = s
  BY <1>5 DEF RecordAllocationSucceeded, RecordQuantityNotFound
<1>6. ASSUME ~(s.status = "compensating" /\ rowInState(s, lines, b, "allocated"))
      PROVE  RecordCompensated(s, lines, b) = s
  BY <1>6 DEF RecordCompensated
<1> QED
  BY <1>2, <1>3, <1>4, <1>5, <1>6

\* The next row of a running saga is its first pending one.
LEMMA NextRowFirst ==
  ASSUME NEW lines \in Seq(Line), NEW s \in SagaState(lines), Shape(s), s.status = "running"
  PROVE  \A j \in DOMAIN lines : j < NextPendingRow(s) => s.rows[j] # "pending"
<1> DEFINE P == {i \in DOMAIN s.rows : s.rows[i] = "pending"}
<1>1. P \subseteq Nat /\ P # {} /\ DOMAIN s.rows = DOMAIN lines
  BY DEF SagaState, Shape
<1>2. PICK x \in P : \A y \in P : x <= y
  <2> HIDE DEF P
  <2> QED
    BY <1>1, FirstOfRows
<1>3. /\ NextPendingRow(s) \in DOMAIN s.rows
      /\ \A j \in DOMAIN s.rows : s.rows[j] = "pending" => NextPendingRow(s) <= j
  BY <1>2 DEF NextPendingRow
<1>4. \A j \in DOMAIN lines : j \in Nat
  OBVIOUS
<1> QED
  BY <1>1, <1>3, <1>4

\* The messages about a step: the others change nothing that is proved here.
StepTypes == {"UpdateAvailabilityDueToSalesOrder", "BeerAvailabilityUpdated", "QuantityNotFound"}

AboutSteps == StepTypes \cup {"AvailabilityCompensated"}

\* A step that is not about steps: their messages stay where they are, the
\* sagas too, and nobody takes or gives back stock.
Elsewhere ==
  /\ UNCHANGED saga
  /\ \A b \in Beers : availability'[b].held = availability[b].held
  /\ \A n : n.type \in AboutSteps =>
       (n \in bus <=> n \in bus') /\ (n \in deadLetters <=> n \in deadLetters')

LEMMA TypesOfMessages ==
  ASSUME NEW o
  PROVE  /\ \A t : OrderMessage(t, o).type = t
         /\ \A t, i : /\ RowCommand(t, o, i).type = t /\ RowCommand(t, o, i).order = o
                      /\ RowCommand(t, o, i).row = i
         /\ \A t, b : /\ StepEvent(t, o, b).type = t /\ StepEvent(t, o, b).order = o
                      /\ StepEvent(t, o, b).beer = b
         /\ \A p : ProductionCommand(p).type = "UpdateAvailabilityDueToProductionOrder"
BY DEF OrderMessage, RowCommand, StepEvent, ProductionCommand

\* Sales, the production orders and the failures of their messages.
LEMMA ElsewhereActions ==
  ASSUME IInv,
         \/ \E o \in Orders : PlaceSalesOrder(o) \/ SalesStep(o)
         \/ \E p \in Productions :
              PlaceProductionOrder(p) \/ UpdateAvailabilityDueToProductionOrder(p)
  PROVE  Elsewhere
<1> DEFINE Unmoved == \A n : n.type \in AboutSteps =>
                        (n \in bus <=> n \in bus') /\ (n \in deadLetters <=> n \in deadLetters')
<1>1. ASSUME NEW m, NEW raised, NEW sends, Handled(m, raised, sends), m.type \notin AboutSteps,
             \A n \in raised \cup sends : n.type \notin AboutSteps
      PROVE  Unmoved
  BY <1>1 DEF Handled
<1>2. ASSUME NEW m, Poisoned(m), m.type \notin AboutSteps
      PROVE  Unmoved
  BY <1>2 DEF Poisoned
<1>3. ASSUME NEW o \in Orders, PlaceSalesOrder(o)
      PROVE  Elsewhere
  BY <1>3, TypesOfMessages DEF PlaceSalesOrder, Elsewhere, AboutSteps, StepTypes
<1>4. ASSUME NEW o \in Orders, CreateSalesOrder(o)
      PROVE  Elsewhere
  <2> DEFINE m == OrderMessage("CreateSalesOrder", o)
             n == OrderMessage("SalesOrderCreated", o)
  <2>1. m.type \notin AboutSteps /\ n.type \notin AboutSteps
    BY TypesOfMessages DEF AboutSteps, StepTypes
  <2>2. Handled(m, {}, {}) \/ Handled(m, {n}, {}) \/ Poisoned(m)
    BY <1>4 DEF CreateSalesOrder
  <2>3. Unmoved
    <3> HIDE DEF m, n, Unmoved
    <3> QED
      BY <1>1, <1>2, <2>1, <2>2
  <2> QED
    BY <1>4, <2>3 DEF CreateSalesOrder, Elsewhere
<1>5. ASSUME NEW o \in Orders,
             \/ PublishSalesOrderCreated(o)
             \/ OnAllocationCompleted(o)
             \/ OnAllocationRejected(o)
      PROVE  Elsewhere
  <2>1. PICK x \in OrderMessageTypes, y \in OrderMessageTypes :
          Handled(OrderMessage(x, o), {}, {OrderMessage(y, o)})
    BY <1>5 DEF PublishSalesOrderCreated, OnAllocationCompleted, OnAllocationRejected,
       OrderMessageTypes
  <2>2. OrderMessage(x, o).type \notin AboutSteps /\ OrderMessage(y, o).type \notin AboutSteps
    BY TypesOfMessages DEF AboutSteps, StepTypes, OrderMessageTypes
  <2>3. Unmoved
    <3> HIDE DEF Unmoved
    <3> QED
      BY <1>1, <2>1, <2>2
  <2> QED
    BY <1>5, <2>3
       DEF PublishSalesOrderCreated, OnAllocationCompleted, OnAllocationRejected, Elsewhere
<1>6. ASSUME NEW o \in Orders, MarkAllocated(o) \/ MarkAllocationRejected(o)
      PROVE  Elsewhere
  <2>1. PICK x \in OrderMessageTypes, status \in {"allocated", "rejected"} :
          MarkSettled(OrderMessage(x, o), o, status)
    BY <1>6 DEF MarkAllocated, MarkAllocationRejected, OrderMessageTypes
  <2>2. OrderMessage(x, o).type \notin AboutSteps
    BY TypesOfMessages DEF AboutSteps, StepTypes, OrderMessageTypes
  <2>3. Handled(OrderMessage(x, o), {}, {}) \/ Poisoned(OrderMessage(x, o))
    BY <2>1 DEF MarkSettled
  <2>4. Unmoved
    <3> HIDE DEF Unmoved
    <3> QED
      BY <1>1, <1>2, <2>2, <2>3
  <2> QED
    BY <2>1, <2>4 DEF MarkSettled, Elsewhere
<1>7. ASSUME NEW p \in Productions, PlaceProductionOrder(p)
      PROVE  Elsewhere
  BY <1>7, TypesOfMessages DEF PlaceProductionOrder, Elsewhere, AboutSteps, StepTypes
<1>8. ASSUME NEW p \in Productions, UpdateAvailabilityDueToProductionOrder(p)
      PROVE  Elsewhere
  <2> DEFINE m == ProductionCommand(p)
             b == Output[p].beer
             q == Output[p].quantity
  <2>1. m.type \notin AboutSteps
    BY TypesOfMessages DEF AboutSteps, StepTypes
  <2>2. Handled(m, {}, {}) \/ Poisoned(m)
    BY <1>8 DEF UpdateAvailabilityDueToProductionOrder
  <2>3. Unmoved
    <3> HIDE DEF m, Unmoved
    <3> QED
      BY <1>1, <1>2, <2>1, <2>2
  <2>4. b \in Beers /\ q \in Int
    BY AllocationAssumption DEF Line
  <2>5. availability \in [Beers -> StockState]
    BY DEF IInv, TypeOK, StockState
  <2>6. \A c \in Beers : availability'[c].held = availability[c].held
    <3>1. CASE availability' = availability
      BY <3>1
    <3>2. CASE availability' = [availability EXCEPT ![b] = UpdateDueToProductionOrder(availability[b], q)]
      BY <2>4, <2>5, <3>2, ProductionFacts
    <3> QED
      BY <1>8, <3>1, <3>2 DEF UpdateAvailabilityDueToProductionOrder
  <2>7. UNCHANGED saga
    BY <1>8 DEF UpdateAvailabilityDueToProductionOrder
  <2> QED
    BY <2>3, <2>6, <2>7 DEF Elsewhere
<1> QED
  BY <1>3, <1>4, <1>5, <1>6, <1>7, <1>8 DEF SalesStep

-----------------------------------------------------------------------------
(* The order of the steps.                                                 *)

\* The rows ahead of row i are no longer pending.
Ahead(o, i) == \A j \in DOMAIN Lines[o] : j < i => saga[o].rows[j] # "pending"

\* A step is sent, and answered, only once the rows ahead of it are recorded.
Ordered(m) ==
  /\ m.type = "UpdateAvailabilityDueToSalesOrder" => Ahead(m.order, m.row)
  /\ m.type \in {"BeerAvailabilityUpdated", "QuantityNotFound"} /\ DistinctBeers(m.order) =>
       \A i \in DOMAIN Lines[m.order] : Lines[m.order][i].beer = m.beer => Ahead(m.order, i)

MessagesOrdered == \A m \in bus \cup deadLetters : Ordered(m)

OrderInv == MessagesOrdered /\ StepsInOrder

\* A recorded row stays recorded.
RowsKept ==
  \A o \in Orders : \A i \in DOMAIN Lines[o] :
    saga[o].rows[i] # "pending" => saga'[o].rows[i] # "pending"

\* Recorded rows leave the order of a message as it was.
LEMMA OrderedKept ==
  ASSUME RowsKept, NEW m \in Messages, Ordered(m)
  PROVE  Ordered(m)'
<1>1. m.type \in StepTypes => m.order \in Orders
  BY DEF StepTypes, Messages, OrderMessageTypes, RowCommandTypes, StepEventTypes
<1> QED
  BY <1>1 DEF RowsKept, Ordered, Ahead, DistinctBeers, StepTypes

\* A step whose new messages are in order, and that records in order.
LEMMA OrderKept ==
  ASSUME IInv, OrderInv, RowsKept, StepsInOrder', NEW new,
         bus' \cup deadLetters' \subseteq bus \cup deadLetters \cup new,
         \A n \in new : Ordered(n)'
  PROVE  OrderInv'
<1>1. ASSUME NEW m \in bus' \cup deadLetters'
      PROVE  Ordered(m)'
  <2>1. CASE m \in new
    BY <2>1
  <2>2. CASE m \in bus \cup deadLetters
    <3>1. m \in Messages /\ Ordered(m)
      BY <2>2 DEF IInv, TypeOK, OrderInv, MessagesOrdered
    <3> QED
      BY <3>1, OrderedKept
  <2> QED
    BY <2>1, <2>2
<1> QED
  BY <1>1 DEF OrderInv, MessagesOrdered

\* The same when the sagas stay as they are.
LEMMA OrderUntouchedSaga ==
  ASSUME IInv, OrderInv, UNCHANGED saga, NEW new,
         bus' \cup deadLetters' \subseteq bus \cup deadLetters \cup new,
         \A n \in new : Ordered(n)
  PROVE  OrderInv'
<1>1. RowsKept
  BY DEF RowsKept
<1>2. StepsInOrder'
  BY DEF OrderInv, StepsInOrder
<1>3. \A n \in new : Ordered(n)'
  BY DEF Ordered, Ahead, DistinctBeers
<1> QED
  BY <1>1, <1>2, <1>3, OrderKept

\* The same when no message is new.
LEMMA OrderNothingNew ==
  ASSUME IInv, OrderInv, UNCHANGED saga, bus' \cup deadLetters' \subseteq bus \cup deadLetters
  PROVE  OrderInv'
<1>1. PICK new : new = {}
  OBVIOUS
<1>2. bus' \cup deadLetters' \subseteq bus \cup deadLetters \cup new /\ \A n \in new : Ordered(n)
  BY <1>1
<1> QED
  BY <1>2, OrderUntouchedSaga

\* A message that is not about a step is in order.
LEMMA OtherMessagesOrdered ==
  ASSUME NEW n, n.type \notin StepTypes
  PROVE  Ordered(n) /\ Ordered(n)'
BY DEF Ordered, StepTypes

\* What a handler, the poison queue or a loop of the runner adds to the bus.
LEMMA AddedToBus ==
  /\ \A m, raised, sends : Handled(m, raised, sends) =>
       /\ m \in bus
       /\ bus' \cup deadLetters' \subseteq bus \cup deadLetters \cup (raised \cup sends)
  /\ \A m : Poisoned(m) => bus' \cup deadLetters' \subseteq bus \cup deadLetters
  /\ \A sends : Dispatch(sends) /\ UNCHANGED deadLetters =>
       bus' \cup deadLetters' \subseteq bus \cup deadLetters \cup sends
BY DEF Handled, Poisoned, Dispatch

\* What the runner sends is in order: the next row is the first pending one.
LEMMA SendsOrdered ==
  ASSUME NEW o \in Orders, NEW s \in SagaState(Lines[o]), Shape(s)
  PROVE  /\ s.status = "running" /\ saga[o] = s => \A n \in sendNextAllocation(o, s) : Ordered(n)
         /\ s.status = "running" /\ saga'[o] = s => \A n \in sendNextAllocation(o, s) : Ordered(n)'
         /\ \A n \in sendCompensations(o, s) \cup publishOutcome(o, s) : n.type \notin StepTypes
<1>1. Lines[o] \in Seq(Line)
  BY LineFacts
<1>2. ASSUME s.status = "running", NEW n \in sendNextAllocation(o, s)
      PROVE  /\ n.type = "UpdateAvailabilityDueToSalesOrder" /\ n.order = o
             /\ \A j \in DOMAIN Lines[o] : j < n.row => s.rows[j] # "pending"
  <2>1. n = RowCommand("UpdateAvailabilityDueToSalesOrder", o, NextPendingRow(s))
    BY <1>2 DEF sendNextAllocation
  <2>2. \A j \in DOMAIN Lines[o] : j < NextPendingRow(s) => s.rows[j] # "pending"
    BY <1>1, <1>2, NextRowFirst
  <2> QED
    BY <2>1, <2>2, TypesOfMessages
<1>3. \A n \in sendCompensations(o, s) \cup publishOutcome(o, s) : n.type \notin StepTypes
  BY TypesOfMessages DEF sendCompensations, publishOutcome, StepTypes
<1> QED
  BY <1>2, <1>3 DEF Ordered, Ahead

\* Recording beer b in a saga that is about to: rows of b take a state, and for
\* an order that names b once the rows ahead of b are recorded already.
LEMMA RecordInOrder ==
  ASSUME IInv, OrderInv, NEW o \in Orders, NEW s, NEW b,
         NEW state \in {"allocated", "failed", "compensated"},
         saga' = [saga EXCEPT ![o] = s],
         Rewritten(saga[o], s, Lines[o], b, state),
         DistinctBeers(o) =>
           \A i \in DOMAIN Lines[o] :
             Lines[o][i].beer = b /\ saga[o].rows[i] = "pending" => Ahead(o, i)
  PROVE  RowsKept /\ StepsInOrder' /\ saga'[o] = s
<1>1. DOMAIN saga = Orders
  BY DEF IInv, TypeOK
<1>2. saga'[o] = s /\ \A p \in Orders : p # o => saga'[p] = saga[p]
  BY <1>1
<1>3. \A i \in DOMAIN Lines[o] : saga[o].rows[i] # "pending" => s.rows[i] # "pending"
  BY DEF Rewritten
<1>4. RowsKept
  BY <1>2, <1>3 DEF RowsKept
<1>5. ASSUME NEW i \in DOMAIN Lines[o], NEW j \in DOMAIN Lines[o], DistinctBeers(o), i < j,
             s.rows[j] # "pending"
      PROVE  s.rows[i] # "pending"
  <2>1. saga[o].rows[j] # "pending" => saga[o].rows[i] # "pending"
    BY <1>5 DEF OrderInv, StepsInOrder, DistinctBeers
  <2>2. saga[o].rows[j] = "pending" => Lines[o][j].beer = b
    BY <1>5 DEF Rewritten
  <2>3. saga[o].rows[j] = "pending" => saga[o].rows[i] # "pending"
    BY <1>5, <2>2 DEF Ahead
  <2> QED
    BY <1>3, <2>1, <2>3
<1>6. StepsInOrder'
  BY <1>2, <1>5 DEF OrderInv, StepsInOrder, DistinctBeers
<1> QED
  BY <1>2, <1>4, <1>6

-----------------------------------------------------------------------------
(* The steps, in order.                                                    *)

LEMMA RowStepInOrder ==
  ASSUME IInv, OrderInv, NEW o \in Orders, NEW i \in DOMAIN Lines[o], RowStep(o, i)
  PROVE  OrderInv'
<1> DEFINE b == Lines[o][i].beer
<1>1. UNCHANGED saga
  BY DEF RowStep, UpdateAvailabilityDueToSalesOrder, CompensateAvailability
<1>2. ASSUME NEW m, Poisoned(m)
      PROVE  OrderInv'
  BY <1>1, <1>2, AddedToBus, OrderNothingNew
<1>3. ASSUME NEW m, NEW n, Handled(m, {n}, {}), Ordered(n)
      PROVE  OrderInv'
  <2>1. bus' \cup deadLetters' \subseteq bus \cup deadLetters \cup {n}
    BY <1>3, AddedToBus
  <2> QED
    BY <1>1, <1>3, <2>1, OrderUntouchedSaga
<1>4. CASE UpdateAvailabilityDueToSalesOrder(o, i)
  <2> DEFINE m == RowCommand("UpdateAvailabilityDueToSalesOrder", o, i)
  <2>1. ASSUME NEW type \in {"BeerAvailabilityUpdated", "QuantityNotFound"},
               Handled(m, {StepEvent(type, o, b)}, {})
        PROVE  OrderInv'
    <3> DEFINE n == StepEvent(type, o, b)
    <3>1. m \in bus
      BY <2>1, AddedToBus
    <3>2. Ahead(o, i)
      BY <3>1, TypesOfMessages DEF OrderInv, MessagesOrdered, Ordered
    <3>3. n.order = o /\ n.beer = b /\ n.type = type
      BY TypesOfMessages
    <3>4. Ordered(n)
      BY <3>2, <3>3 DEF Ordered, DistinctBeers
    <3> HIDE DEF m, n
    <3> QED
      BY <1>3, <2>1, <3>4 DEF n
  <2>2. LET r == UpdateDueToSalesOrder(availability[b], o, Lines[o][i].quantity)
        IN  r.event \in {"BeerAvailabilityUpdated", "QuantityNotFound"}
    BY DEF UpdateDueToSalesOrder
  <2> QED
    BY <1>2, <1>4, <2>1, <2>2 DEF UpdateAvailabilityDueToSalesOrder
<1>5. CASE CompensateAvailability(o, i)
  <2>1. Ordered(StepEvent("AvailabilityCompensated", o, b))
    BY TypesOfMessages, OtherMessagesOrdered DEF StepTypes
  <2> QED
    BY <1>2, <1>3, <1>5, <2>1 DEF CompensateAvailability
<1> QED
  BY <1>4, <1>5 DEF RowStep

\* A message the runner ignores.
LEMMA IgnoredInOrder ==
  ASSUME IInv, OrderInv, NEW m, Ignored(m)
  PROVE  OrderInv'
<1>1. Handled(m, {}, {}) /\ UNCHANGED saga
  BY DEF Ignored
<1> QED
  BY <1>1, AddedToBus, OrderNothingNew

\* A handler of the runner that records in order and sends what it may send.
LEMMA SaveInOrder ==
  ASSUME IInv, OrderInv, NEW m, NEW o \in Orders, NEW s \in SagaState(Lines[o]), NEW sends,
         Shape(s), SaveThenSend(m, o, s, sends), RowsKept, StepsInOrder', saga'[o] = s,
         \/ sends = sendNextAllocation(o, s) /\ s.status = "running"
         \/ sends = sendCompensations(o, s)
         \/ sends = publishOutcome(o, s)
         \/ sends = {}
  PROVE  OrderInv'
<1>1. bus' \cup deadLetters' \subseteq bus \cup deadLetters \cup sends
  <2>1. Handled(m, {}, sends)
    BY DEF SaveThenSend
  <2> QED
    BY <2>1, AddedToBus
<1>2. \A n \in sends : Ordered(n)'
  BY SendsOrdered, OtherMessagesOrdered
<1> QED
  BY <1>1, <1>2, OrderKept

LEMMA StartInOrder ==
  ASSUME IInv, OrderInv, NEW o \in Orders, OnSalesOrderCreated(o)
  PROVE  OrderInv'
<1> DEFINE m == OrderMessage("sales.sales_order_created", o)
<1>1. PICK s : s = StartOrderAllocation(Lines[o])
  OBVIOUS
<1>2. CASE Ignored(m)
  BY <1>2, IgnoredInOrder
<1>3. CASE /\ saga[o].status = "none"
           /\ SaveThenSend(m, o, s,
                IF s.status = "completed" THEN publishOutcome(o, s)
                                          ELSE sendNextAllocation(o, s))
  <2>1. /\ s \in SagaState(Lines[o]) /\ Shape(s) /\ s.status \in {"running", "completed"}
        /\ \A i \in DOMAIN Lines[o] : s.rows[i] = "pending"
    BY <1>1, LineFacts, StartFacts
  <2>2. \A i \in DOMAIN Lines[o] : saga[o].rows[i] = "pending"
    <3>1. Shape(saga[o]) /\ DOMAIN saga[o].rows = DOMAIN Lines[o]
      BY DEF IInv, SagaShape, TypeOK
    <3> QED
      BY <1>3, <3>1 DEF Shape, allRowsIn
  <2>3. saga'[o] = s /\ \A p \in Orders : p # o => saga'[p] = saga[p]
    BY <1>3 DEF SaveThenSend, IInv, TypeOK
  <2>4. RowsKept
    BY <2>2, <2>3 DEF RowsKept
  <2>5. StepsInOrder'
    BY <2>1, <2>3 DEF OrderInv, StepsInOrder
  <2>6. CASE s.status = "completed"
    BY <1>3, <2>1, <2>3, <2>4, <2>5, <2>6, SaveInOrder
  <2>7. CASE s.status = "running"
    BY <1>3, <2>1, <2>3, <2>4, <2>5, <2>7, SaveInOrder
  <2> QED
    BY <2>1, <2>6, <2>7
<1> QED
  BY <1>1, <1>2, <1>3 DEF OnSalesOrderCreated

LEMMA SagaStepInOrder ==
  ASSUME IInv, OrderInv, NEW o \in Orders, NEW b \in Beers, SagaStep(o, b)
  PROVE  OrderInv'
<1>1. saga[o] \in SagaState(Lines[o]) /\ Shape(saga[o]) /\ Lines[o] \in Seq(Line)
  BY LineFacts DEF IInv, TypeOK, SagaShape, SagaState
<1>2. ASSUME NEW type \in {"BeerAvailabilityUpdated", "QuantityNotFound"},
             StepEvent(type, o, b) \in bus, DistinctBeers(o)
      PROVE  \A i \in DOMAIN Lines[o] : Lines[o][i].beer = b => Ahead(o, i)
  BY <1>2, TypesOfMessages DEF OrderInv, MessagesOrdered, Ordered
<1>3. ASSUME NEW m, NEW s, NEW sends, SaveThenSend(m, o, s, sends)
      PROVE  m \in bus /\ saga' = [saga EXCEPT ![o] = s]
  BY <1>3 DEF SaveThenSend, Handled
<1>4. CASE OnBeerAvailabilityUpdated(o, b)
  <2> DEFINE m == StepEvent("BeerAvailabilityUpdated", o, b)
  <2>1. PICK s : s = RecordAllocationSucceeded(saga[o], Lines[o], b)
    OBVIOUS
  <2>2. CASE Ignored(m)
    BY <2>2, IgnoredInOrder
  <2>3. CASE /\ s # saga[o]
             /\ SaveThenSend(m, o, s,
                  IF s.status = "completed" THEN publishOutcome(o, s)
                                            ELSE sendNextAllocation(o, s))
    <3>1. /\ s \in SagaState(Lines[o]) /\ Shape(s) /\ s.status \in {"running", "completed"}
          /\ Rewritten(saga[o], s, Lines[o], b, "allocated")
      BY <1>1, <2>1, <2>3, SucceededFacts, RecordedRows
    <3>2. RowsKept /\ StepsInOrder' /\ saga'[o] = s
      BY <1>2, <1>3, <2>3, <3>1, RecordInOrder
    <3>3. CASE s.status = "completed"
      BY <2>3, <3>1, <3>2, <3>3, SaveInOrder
    <3>4. CASE s.status = "running"
      BY <2>3, <3>1, <3>2, <3>4, SaveInOrder
    <3> QED
      BY <3>1, <3>3, <3>4
  <2> QED
    BY <1>4, <2>1, <2>2, <2>3 DEF OnBeerAvailabilityUpdated
<1>5. CASE OnQuantityNotFound(o, b)
  <2> DEFINE m == StepEvent("QuantityNotFound", o, b)
  <2>1. PICK s : s = RecordQuantityNotFound(saga[o], Lines[o], b)
    OBVIOUS
  <2>2. CASE Ignored(m)
    BY <2>2, IgnoredInOrder
  <2>3. CASE s # saga[o] /\ SaveThenSend(m, o, s, StepFailedSends(o, s))
    <3>1. /\ s \in SagaState(Lines[o]) /\ Shape(s)
          /\ Rewritten(saga[o], s, Lines[o], b, "failed")
      BY <1>1, <2>1, <2>3, NotFoundFacts, RecordedRows
    <3>2. RowsKept /\ StepsInOrder' /\ saga'[o] = s
      BY <1>2, <1>3, <2>3, <3>1, RecordInOrder
    <3>3. \/ StepFailedSends(o, s) = sendCompensations(o, s)
          \/ StepFailedSends(o, s) = publishOutcome(o, s)
      BY DEF StepFailedSends
    <3> QED
      BY <2>3, <3>1, <3>2, <3>3, SaveInOrder
  <2> QED
    BY <1>5, <2>1, <2>2, <2>3 DEF OnQuantityNotFound
<1>6. CASE OnAvailabilityCompensated(o, b)
  <2> DEFINE m == StepEvent("AvailabilityCompensated", o, b)
  <2>1. PICK s : s = RecordCompensated(saga[o], Lines[o], b)
    OBVIOUS
  <2>2. CASE Ignored(m)
    BY <2>2, IgnoredInOrder
  <2>3. CASE /\ s # saga[o]
             /\ SaveThenSend(m, o, s, IF s.status = "rejected" THEN publishOutcome(o, s) ELSE {})
    <3>1. /\ s \in SagaState(Lines[o]) /\ Shape(s)
          /\ Rewritten(saga[o], s, Lines[o], b, "compensated")
          /\ rowInState(saga[o], Lines[o], b, "allocated")
      BY <1>1, <2>1, <2>3, CompensatedFacts, RecordedRows
    <3>2. ASSUME DistinctBeers(o), NEW i \in DOMAIN Lines[o], Lines[o][i].beer = b
          PROVE  saga[o].rows[i] # "pending"
      BY <3>1, <3>2 DEF rowInState, DistinctBeers
    <3>3. RowsKept /\ StepsInOrder' /\ saga'[o] = s
      BY <1>3, <2>3, <3>1, <3>2, RecordInOrder
    <3>4. PICK sends : /\ SaveThenSend(m, o, s, sends)
                       /\ sends = publishOutcome(o, s) \/ sends = {}
      BY <2>3
    <3> QED
      BY <3>1, <3>3, <3>4, SaveInOrder
  <2> QED
    BY <1>6, <2>1, <2>2, <2>3 DEF OnAvailabilityCompensated
<1> QED
  BY <1>4, <1>5, <1>6 DEF SagaStep

\* A restart sends the next row of every running saga once more.
LEMMA ResumeInOrder ==
  ASSUME IInv, OrderInv, ResumeInFlight
  PROVE  OrderInv'
<1>1. PICK sends : /\ sends = UNION {drive(o, saga[o]) : o \in {p \in Orders : InFlight(saga[p])}}
                   /\ Dispatch(sends)
  BY DEF ResumeInFlight
<1>2. UNCHANGED saga /\ UNCHANGED deadLetters
  BY DEF ResumeInFlight
<1>3. ASSUME NEW n \in sends
      PROVE  Ordered(n)
  <2>1. PICK o \in Orders : InFlight(saga[o]) /\ n \in drive(o, saga[o])
    BY <1>1
  <2>2. PICK s : s = saga[o]
    OBVIOUS
  <2>3. s \in SagaState(Lines[o]) /\ Shape(s)
    BY <2>2 DEF IInv, TypeOK, SagaShape, SagaState
  <2>4. \/ n \in sendCompensations(o, s)
        \/ n \in sendNextAllocation(o, s) /\ s.status = "running"
    BY <2>1, <2>2 DEF drive, InFlight
  <2> QED
    BY <2>2, <2>3, <2>4, SendsOrdered, OtherMessagesOrdered
<1>4. bus' \cup deadLetters' \subseteq bus \cup deadLetters \cup sends
  BY <1>1, <1>2, AddedToBus
<1> QED
  BY <1>2, <1>3, <1>4, OrderUntouchedSaga

\* The watchdog fails the first pending row.
LEMMA TimeoutInOrder ==
  ASSUME IInv, OrderInv, NEW o \in Orders, TimeoutInFlight(o)
  PROVE  OrderInv'
<1>1. saga[o] \in SagaState(Lines[o]) /\ Shape(saga[o]) /\ Lines[o] \in Seq(Line)
  BY LineFacts DEF IInv, TypeOK, SagaShape, SagaState
<1>2. UNCHANGED deadLetters
  BY DEF TimeoutInFlight
<1>3. CASE Dispatch(sendCompensations(o, saga[o])) /\ UNCHANGED saga
  <2>1. PICK s : s = saga[o]
    OBVIOUS
  <2>2. \A n \in sendCompensations(o, s) : Ordered(n)
    BY <1>1, <2>1, SendsOrdered, OtherMessagesOrdered
  <2>3. bus' \cup deadLetters' \subseteq bus \cup deadLetters \cup sendCompensations(o, s)
    BY <1>2, <1>3, <2>1, AddedToBus
  <2> QED
    BY <1>3, <2>2, <2>3, OrderUntouchedSaga
<1>4. CASE /\ saga[o].status = "running"
           /\ LET beer == Lines[o][NextPendingRow(saga[o])].beer
                  s == RecordQuantityNotFound(saga[o], Lines[o], beer)
              IN  /\ saga' = [saga EXCEPT ![o] = s]
                  /\ Dispatch(StepFailedSends(o, s))
  <2>1. PICK i \in DOMAIN Lines[o] :
          /\ i = NextPendingRow(saga[o]) /\ saga[o].rows[i] = "pending"
          /\ \A j \in DOMAIN Lines[o] : j < i => saga[o].rows[j] # "pending"
    BY <1>1, <1>4, NextRowFacts, NextRowFirst
  <2>2. PICK s : s = RecordQuantityNotFound(saga[o], Lines[o], Lines[o][i].beer)
    OBVIOUS
  <2>3. saga' = [saga EXCEPT ![o] = s] /\ Dispatch(StepFailedSends(o, s))
    BY <1>4, <2>1, <2>2
  <2>4. AwaitsStep(saga[o], Lines[o], Lines[o][i].beer)
    BY <1>4, <2>1 DEF AwaitsStep, rowInState
  <2>5. /\ s \in SagaState(Lines[o]) /\ Shape(s)
        /\ Rewritten(saga[o], s, Lines[o], Lines[o][i].beer, "failed")
    BY <1>1, <2>2, <2>4, NotFoundFacts, RecordedRows
  <2>6. RowsKept /\ StepsInOrder' /\ saga'[o] = s
    <3>1. DistinctBeers(o) =>
            \A k \in DOMAIN Lines[o] :
              Lines[o][k].beer = Lines[o][i].beer /\ saga[o].rows[k] = "pending" => Ahead(o, k)
      BY <2>1 DEF DistinctBeers, Ahead
    <3> QED
      BY <2>3, <2>5, <3>1, RecordInOrder
  <2>7. PICK sends : sends = StepFailedSends(o, s)
    OBVIOUS
  <2>8. bus' \cup deadLetters' \subseteq bus \cup deadLetters \cup sends
    BY <1>2, <2>3, <2>7, AddedToBus
  <2>9. \A n \in sends : Ordered(n)'
    BY <2>5, <2>7, SendsOrdered, OtherMessagesOrdered DEF StepFailedSends
  <2> QED
    BY <2>6, <2>8, <2>9, OrderKept
<1> QED
  BY <1>3, <1>4 DEF TimeoutInFlight

LEMMA NextInOrder ==
  ASSUME IInv, OrderInv, [Next]_vars
  PROVE  OrderInv'
<1>1. CASE UNCHANGED vars
  <2>1. UNCHANGED saga /\ bus' \cup deadLetters' \subseteq bus \cup deadLetters
    BY <1>1 DEF vars
  <2> QED
    BY <2>1, OrderNothingNew
<1>2. CASE \/ \E o \in Orders : PlaceSalesOrder(o) \/ SalesStep(o)
           \/ \E p \in Productions :
                PlaceProductionOrder(p) \/ UpdateAvailabilityDueToProductionOrder(p)
  <2>1. Elsewhere
    BY <1>2, ElsewhereActions
  <2>2. PICK new : new = (bus' \cup deadLetters') \ (bus \cup deadLetters)
    OBVIOUS
  <2>3. \A n \in new : n.type \notin StepTypes
    BY <2>1, <2>2 DEF Elsewhere, AboutSteps
  <2>4. bus' \cup deadLetters' \subseteq bus \cup deadLetters \cup new /\ UNCHANGED saga
    BY <2>1, <2>2 DEF Elsewhere
  <2> QED
    BY <2>3, <2>4, OtherMessagesOrdered, OrderUntouchedSaga
<1>3. CASE Redrive \/ \E m \in bus : Park(m)
  <2>1. UNCHANGED saga /\ bus' \cup deadLetters' \subseteq bus \cup deadLetters
    BY <1>3 DEF Redrive, Park
  <2> QED
    BY <2>1, OrderNothingNew
<1> QED
  BY <1>1, <1>2, <1>3, RowStepInOrder, StartInOrder, SagaStepInOrder, ResumeInOrder, TimeoutInOrder
     DEF Next

\* Rows are recorded one at a time and in the order of the order's lines
\* (NextPendingRow, sendNextAllocation), for orders that name a beer once, any
\* number of orders and rows, and every kind of fault: a message delivered late
\* or twice, a restart or the watchdog never lets a step overtake another.
THEOREM StepsAreInOrder == Spec => []StepsInOrder
<1>1. Init => OrderInv
  BY DEF Init, OrderInv, MessagesOrdered, StepsInOrder, NoSaga
<1>2. IInv /\ OrderInv /\ [Next]_vars => OrderInv'
  BY NextInOrder
<1>3. OrderInv => StepsInOrder
  BY DEF OrderInv
<1> QED
  BY <1>1, <1>2, <1>3, IInvAlways, PTL DEF Spec

-----------------------------------------------------------------------------
(* What a rejected order holds, when messages may be parked and redriven   *)
(* but not delivered twice, and nobody gives up on a step.  Each saga then *)
(* has one step under way, a token that moves between the queues.          *)

InTransit == bus \cup deadLetters

\* A saga has at most one step under way, and one copy of its message.
OneStep ==
  \A m, n \in InTransit :
    /\ m.type \in StepTypes /\ n.type \in StepTypes /\ m.order = n.order => m = n
    /\ m.type \in StepTypes => m \notin bus \cap deadLetters

\* Rows of one beer share their state.
RowsUniform ==
  \A o \in Orders : \A i, j \in DOMAIN Lines[o] :
    Lines[o][i].beer = Lines[o][j].beer => saga[o].rows[i] = saga[o].rows[j]

\* Order o waits for its step on beer b.
Awaits(o, b) ==
  /\ saga[o].status = "running"
  /\ \E i \in DOMAIN Lines[o] : Lines[o][i].beer = b /\ saga[o].rows[i] = "pending"

\* A step under way is one its saga waits for, and has taken stock only if it
\* says so; what is reported as given back is.
StepTrue(m) ==
  /\ m.type = "UpdateAvailabilityDueToSalesOrder" =>
       LET b == Lines[m.order][m.row].beer
       IN  Awaits(m.order, b) /\ m.order \notin availability[b].held
  /\ m.type = "BeerAvailabilityUpdated" => Awaits(m.order, m.beer)
  /\ m.type = "QuantityNotFound" =>
       Awaits(m.order, m.beer) /\ m.order \notin availability[m.beer].held
  /\ m.type = "AvailabilityCompensated" =>
       /\ saga[m.order].status \in {"compensating", "rejected"}
       /\ m.order \notin availability[m.beer].held

StepsTrue == \A m \in InTransit : StepTrue(m)

\* An order holds stock only for a row its saga has recorded, or will.
HoldsForRow ==
  \A o \in Orders, b \in Beers : o \in availability[b].held =>
    \/ \E i \in DOMAIN Lines[o] : Lines[o][i].beer = b /\ saga[o].rows[i] = "allocated"
    \/ StepEvent("BeerAvailabilityUpdated", o, b) \in InTransit

HeldInv == OneStep /\ RowsUniform /\ StepsTrue /\ HoldsForRow

-----------------------------------------------------------------------------
\* What a message about a step refers to.
LEMMA StepMessageFacts ==
  ASSUME NEW x \in Messages, x.type \in AboutSteps
  PROVE  /\ x.order \in Orders
         /\ x.type = "UpdateAvailabilityDueToSalesOrder" =>
              x.row \in DOMAIN Lines[x.order] /\ Lines[x.order][x.row].beer \in Beers
         /\ x.type # "UpdateAvailabilityDueToSalesOrder" => x.beer \in Beers
<1>1. /\ x.order \in Orders
      /\ x.type = "UpdateAvailabilityDueToSalesOrder" => x.row \in DOMAIN Lines[x.order]
      /\ x.type # "UpdateAvailabilityDueToSalesOrder" => x.beer \in Beers
  BY DEF AboutSteps, StepTypes, Messages, OrderMessageTypes, RowCommandTypes, StepEventTypes
<1> QED
  BY <1>1, LineFacts

\* Only a running saga has a step under way.
LEMMA StepIsAwaited ==
  ASSUME StepsTrue, NEW x \in InTransit
  PROVE  /\ x.type \in StepTypes => saga[x.order].status = "running"
         /\ x.type = "AvailabilityCompensated" =>
              saga[x.order].status \in {"compensating", "rejected"}
BY DEF StepsTrue, StepTrue, Awaits, StepTypes

\* Without redelivery and interruption, a handled message leaves the bus and
\* everything it causes is there.
LEMMA HandledOnce ==
  ASSUME Faults \subseteq {"park"}, NEW m, NEW raised, NEW sends, Handled(m, raised, sends)
  PROVE  m \in bus /\ bus' = (bus \ {m}) \cup raised \cup sends /\ deadLetters' = deadLetters
BY DEF Handled, Fault

\* A step that moves messages about, or has nothing to do with the steps.
LEMMA HeldMoved ==
  ASSUME HeldInv, UNCHANGED saga,
         \A b \in Beers : availability'[b].held = availability[b].held,
         InTransit' \subseteq Messages,
         \A x : x.type \in StepTypes => (x \in InTransit <=> x \in InTransit'),
         \A x : x.type \in AboutSteps /\ x \in InTransit' => x \in InTransit,
         \A x \in InTransit' : x.type \in StepTypes => x \notin bus' \cap deadLetters'
  PROVE  HeldInv'
<1>1. OneStep' /\ RowsUniform'
  BY DEF HeldInv, OneStep, RowsUniform
<1>2. ASSUME NEW x \in InTransit'
      PROVE  StepTrue(x)'
  <2>1. CASE x.type \in AboutSteps
    <3>1. StepTrue(x)
      BY <1>2, <2>1 DEF HeldInv, StepsTrue
    <3>2. /\ x.order \in Orders
          /\ x.type = "UpdateAvailabilityDueToSalesOrder" => Lines[x.order][x.row].beer \in Beers
          /\ x.type # "UpdateAvailabilityDueToSalesOrder" => x.beer \in Beers
      BY <1>2, <2>1, StepMessageFacts
    <3> QED
      BY <2>1, <3>1, <3>2 DEF StepTrue, Awaits
  <2>2. CASE x.type \notin AboutSteps
    BY <2>2 DEF StepTrue, AboutSteps, StepTypes
  <2> QED
    BY <2>1, <2>2
<1>3. StepsTrue'
  BY <1>2 DEF StepsTrue
<1>4. \A o, b : StepEvent("BeerAvailabilityUpdated", o, b) \in InTransit
                  => StepEvent("BeerAvailabilityUpdated", o, b) \in InTransit'
  BY TypesOfMessages DEF StepTypes
<1>5. HoldsForRow'
  BY <1>4 DEF HeldInv, HoldsForRow
<1> QED
  BY <1>1, <1>3, <1>5 DEF HeldInv

LEMMA HeldElsewhere ==
  ASSUME HeldInv, Elsewhere, TypeOK'
  PROVE  HeldInv'
<1>1. UNCHANGED saga /\ \A b \in Beers : availability'[b].held = availability[b].held
  BY DEF Elsewhere
<1>2. InTransit' \subseteq Messages
  BY DEF TypeOK, InTransit
<1>3. \A x : x.type \in AboutSteps => (x \in InTransit <=> x \in InTransit')
  BY DEF Elsewhere, InTransit
<1>4. \A x \in InTransit' : x.type \in StepTypes => x \notin bus' \cap deadLetters'
  BY DEF HeldInv, OneStep, Elsewhere, InTransit, AboutSteps
<1> QED
  BY <1>1, <1>2, <1>3, <1>4, HeldMoved DEF AboutSteps

\* A message that moves to the dead letters, and the redrive.
LEMMA HeldParked ==
  ASSUME IInv, HeldInv, UNCHANGED saga, UNCHANGED availability,
         NEW m \in bus, bus' = bus \ {m}, deadLetters' = deadLetters \cup {m}
  PROVE  HeldInv'
<1>1. InTransit' = InTransit /\ InTransit' \subseteq Messages
  BY DEF InTransit, IInv, TypeOK
<1>2. \A x \in InTransit' : x.type \in StepTypes => x \notin bus' \cap deadLetters'
  BY <1>1 DEF HeldInv, OneStep
<1> QED
  BY <1>1, <1>2, HeldMoved

LEMMA HeldRedriven ==
  ASSUME IInv, HeldInv, Faults \subseteq {"park"}, Redrive
  PROVE  HeldInv'
<1>1. bus' = bus \cup deadLetters /\ deadLetters' = {} /\ UNCHANGED <<saga, availability>>
  BY DEF Redrive, Fault
<1>2. InTransit' = InTransit /\ InTransit' \subseteq Messages
  BY <1>1 DEF InTransit, IInv, TypeOK
<1>3. \A x \in InTransit' : x.type \in StepTypes => x \notin bus' \cap deadLetters'
  BY <1>1
<1> QED
  BY <1>1, <1>2, <1>3, HeldMoved

\* Giving stock back: the order is removed from those that hold the beer.
LEMMA HeldCompensated ==
  ASSUME IInv, HeldInv, Faults \subseteq {"park"}, NEW o \in Orders, NEW i \in DOMAIN Lines[o],
         CompensateAvailability(o, i)
  PROVE  HeldInv'
<1> DEFINE m == RowCommand("CompensateAvailabilityDueToFailedAllocation", o, i)
           b == Lines[o][i].beer
           q == Lines[o][i].quantity
           n == StepEvent("AvailabilityCompensated", o, b)
           c == CompensateDueToFailedAllocation(availability[b], o, q)
<1>1. UNCHANGED saga /\ b \in Beers /\ q \in Int /\ availability \in [Beers -> StockState]
  BY LineFacts DEF CompensateAvailability, IInv, TypeOK, StockState
<1>2. CASE Poisoned(m) /\ UNCHANGED availability
  BY <1>1, <1>2, HeldParked DEF Poisoned
<1>3. CASE availability' = [availability EXCEPT ![b] = c] /\ Handled(m, {n}, {})
  <2>1. m \in bus /\ bus' = (bus \ {m}) \cup {n} /\ deadLetters' = deadLetters
    BY <1>3, HandledOnce
  <2>2. m.type \notin AboutSteps /\ m.order = o /\ n.type = "AvailabilityCompensated"
        /\ n.order = o /\ n.beer = b
    BY TypesOfMessages DEF AboutSteps, StepTypes
  <2>3. saga[o].status \in {"compensating", "rejected"}
    BY <2>1, TypesOfMessages DEF IInv, MessagesJustified, Justified
  <2>4. c.held = availability[b].held \ {o}
    BY <1>1 DEF CompensateDueToFailedAllocation, StockState
  <2>5. /\ availability'[b].held = availability[b].held \ {o}
        /\ \A d \in Beers : d # b => availability'[d].held = availability[d].held
    BY <1>1, <1>3, <2>4
  <2> HIDE DEF m, n, b, c
  <2>6. \A x \in InTransit' : x \in InTransit \/ x = n
    BY <2>1 DEF InTransit
  <2>7. \A x : x.type \in StepTypes => (x \in bus <=> x \in bus')
    BY <2>1, <2>2 DEF AboutSteps, StepTypes
  <2>8. OneStep'
    BY <2>1, <2>2, <2>6, <2>7 DEF HeldInv, OneStep, InTransit, StepTypes
  <2>9. ASSUME NEW x \in InTransit'
        PROVE  StepTrue(x)'
    <3>1. CASE x = n
      BY <1>1, <2>2, <2>3, <2>5, <3>1 DEF StepTrue
    <3>2. CASE x \in InTransit /\ x.type \in AboutSteps
      <4>1. StepTrue(x)
        BY <3>2 DEF HeldInv, StepsTrue
      <4>2. /\ x.type = "UpdateAvailabilityDueToSalesOrder" => Lines[x.order][x.row].beer \in Beers
            /\ x.type # "UpdateAvailabilityDueToSalesOrder" => x.beer \in Beers
        BY <3>2, StepMessageFacts DEF InTransit, IInv, TypeOK
      <4>3. \A d \in Beers : availability'[d].held \subseteq availability[d].held
        BY <2>5
      <4> QED
        BY <1>1, <3>2, <4>1, <4>2, <4>3 DEF StepTrue, Awaits, AboutSteps, StepTypes
    <3>3. CASE x.type \notin AboutSteps
      BY <3>3 DEF StepTrue, AboutSteps, StepTypes
    <3> QED
      BY <2>6, <3>1, <3>2, <3>3
  <2>10. HoldsForRow'
    <3>1. ASSUME NEW p \in Orders, NEW d \in Beers, p \in availability'[d].held
          PROVE  \/ \E j \in DOMAIN Lines[p] : Lines[p][j].beer = d /\ saga[p].rows[j] = "allocated"
                 \/ StepEvent("BeerAvailabilityUpdated", p, d) \in InTransit'
      <4>1. p \in availability[d].held
        BY <2>5, <3>1
      <4>2. StepEvent("BeerAvailabilityUpdated", p, d) \in InTransit =>
              StepEvent("BeerAvailabilityUpdated", p, d) \in InTransit'
        <5>1. StepEvent("BeerAvailabilityUpdated", p, d).type \in StepTypes
          BY TypesOfMessages DEF StepTypes
        <5> QED
          BY <2>1, <2>7, <5>1 DEF InTransit
      <4> QED
        BY <4>1, <4>2 DEF HeldInv, HoldsForRow
    <3> QED
      BY <1>1, <3>1 DEF HoldsForRow
  <2>11. RowsUniform'
    BY <1>1 DEF HeldInv, RowsUniform
  <2> QED
    BY <2>8, <2>9, <2>10, <2>11 DEF HeldInv, StepsTrue
<1> QED
  BY <1>2, <1>3 DEF CompensateAvailability

\* Taking stock: the command that stands for the step becomes its answer.
LEMMA HeldAllocated ==
  ASSUME IInv, HeldInv, Faults \subseteq {"park"}, NEW o \in Orders, NEW i \in DOMAIN Lines[o],
         UpdateAvailabilityDueToSalesOrder(o, i)
  PROVE  HeldInv'
<1> DEFINE m == RowCommand("UpdateAvailabilityDueToSalesOrder", o, i)
           b == Lines[o][i].beer
           q == Lines[o][i].quantity
           a == availability[b]
           r == UpdateDueToSalesOrder(a, o, q)
<1>1. UNCHANGED saga /\ b \in Beers /\ q \in Int /\ availability \in [Beers -> StockState]
  BY LineFacts DEF UpdateAvailabilityDueToSalesOrder, IInv, TypeOK, StockState
<1>2. CASE Poisoned(m) /\ UNCHANGED availability
  BY <1>1, <1>2, HeldParked DEF Poisoned
<1>3. ASSUME NEW type \in {"BeerAvailabilityUpdated", "QuantityNotFound"}, NEW c,
             c.held \subseteq a.held \cup {o}, a.held \subseteq c.held,
             type = "BeerAvailabilityUpdated" <=> o \in c.held,
             availability' = [availability EXCEPT ![b] = c],
             Handled(m, {StepEvent(type, o, b)}, {})
      PROVE  HeldInv'
  <2> DEFINE n == StepEvent(type, o, b)
  <2>1. m \in bus /\ bus' = (bus \ {m}) \cup {n} /\ deadLetters' = deadLetters
    BY <1>3, HandledOnce
  <2>2. /\ m.type = "UpdateAvailabilityDueToSalesOrder" /\ m.type \in StepTypes
        /\ m.order = o /\ m.row = i
        /\ n.type = type /\ n.type \in StepTypes /\ n.order = o /\ n.beer = b /\ n # m
    BY TypesOfMessages DEF StepTypes
  <2>3. Awaits(o, b) /\ m \in InTransit
    BY <2>1, <2>2 DEF HeldInv, StepsTrue, StepTrue, InTransit
  <2>4. /\ availability'[b].held \subseteq availability[b].held \cup {o}
        /\ type = "BeerAvailabilityUpdated" <=> o \in availability'[b].held
        /\ \A d \in Beers : d # b => availability'[d].held = availability[d].held
    BY <1>1, <1>3
  <2> HIDE DEF m, n, b, r, a
  <2>5. \A x \in InTransit : x.type \in StepTypes /\ x.order = o => x = m
    BY <2>2, <2>3 DEF HeldInv, OneStep
  <2>6. m \notin deadLetters /\ n \notin InTransit
    BY <2>1, <2>2, <2>3, <2>5 DEF HeldInv, OneStep, InTransit
  <2>7. InTransit' = (InTransit \ {m}) \cup {n} /\ n \notin deadLetters
    BY <2>1, <2>6 DEF InTransit
  <2>8. OneStep'
    <3>1. \A x \in InTransit' : x.type \in StepTypes =>
            x = n \/ (x \in InTransit /\ x.order # o)
      BY <2>5, <2>7
    <3>2. \A x \in InTransit' : x.type \in StepTypes => x \notin bus' \cap deadLetters'
      BY <2>1, <2>7 DEF HeldInv, OneStep, InTransit
    <3>3. \A x, y \in InTransit' :
            x.type \in StepTypes /\ y.type \in StepTypes /\ x.order = y.order => x = y
      BY <2>2, <3>1 DEF HeldInv, OneStep
    <3> QED
      BY <3>2, <3>3 DEF OneStep
  <2>9. ASSUME NEW x \in InTransit'
        PROVE  StepTrue(x)'
    <3>1. CASE x = n
      BY <1>1, <2>2, <2>3, <2>4, <3>1 DEF StepTrue, Awaits
    <3>2. CASE x \in InTransit /\ x # m /\ x.type \in AboutSteps
      <4>1. StepTrue(x)
        BY <3>2 DEF HeldInv, StepsTrue
      <4>2. x.order # o
        <5>1. x.type = "AvailabilityCompensated" => saga[x.order].status # "running"
          BY <3>2, StepIsAwaited DEF HeldInv
        <5>2. saga[o].status = "running"
          BY <2>3 DEF Awaits
        <5> QED
          BY <2>5, <3>2, <5>1, <5>2 DEF AboutSteps
      <4>3. /\ x.type = "UpdateAvailabilityDueToSalesOrder" => Lines[x.order][x.row].beer \in Beers
            /\ x.type # "UpdateAvailabilityDueToSalesOrder" => x.beer \in Beers
        BY <3>2, StepMessageFacts DEF InTransit, IInv, TypeOK
      <4>4. \A d \in Beers : availability'[d].held \subseteq availability[d].held \cup {o}
        BY <2>4
      <4> QED
        BY <1>1, <3>2, <4>1, <4>2, <4>3, <4>4 DEF StepTrue, Awaits, AboutSteps, StepTypes
    <3>3. CASE x.type \notin AboutSteps
      BY <3>3 DEF StepTrue, AboutSteps, StepTypes
    <3> QED
      BY <2>7, <3>1, <3>2, <3>3
  <2>10. ASSUME NEW p \in Orders, NEW d \in Beers, p \in availability'[d].held
         PROVE  \/ \E j \in DOMAIN Lines[p] : Lines[p][j].beer = d /\ saga[p].rows[j] = "allocated"
                \/ StepEvent("BeerAvailabilityUpdated", p, d) \in InTransit'
    <3>1. CASE p = o /\ d = b
      BY <2>4, <2>7, <2>10, <3>1 DEF n
    <3>2. CASE ~(p = o /\ d = b)
      <4>1. p \in availability[d].held
        BY <2>4, <2>10, <3>2
      <4>2. StepEvent("BeerAvailabilityUpdated", p, d) # m
        BY <2>2, TypesOfMessages
      <4> QED
        BY <2>7, <4>1, <4>2 DEF HeldInv, HoldsForRow
    <3> QED
      BY <3>1, <3>2
  <2>11. HoldsForRow'
    BY <1>1, <2>10 DEF HoldsForRow
  <2>12. RowsUniform'
    BY <1>1 DEF HeldInv, RowsUniform
  <2> QED
    BY <2>8, <2>9, <2>11, <2>12 DEF HeldInv, StepsTrue
<1>4. ASSUME Handled(m, {StepEvent("QuantityNotFound", o, b)}, {}) \/ Handled(m, {StepEvent(r.event, o, b)}, {})
      PROVE  o \notin a.held
  <2>1. m \in InTransit
    BY <1>4 DEF Handled, InTransit
  <2> QED
    BY <2>1, TypesOfMessages DEF HeldInv, StepsTrue, StepTrue
<1>5. CASE /\ availability' = [availability EXCEPT ![b] = RefuseUnknownBeer(a)]
           /\ Handled(m, {StepEvent("QuantityNotFound", o, b)}, {})
  <2>1. PICK c : c = RefuseUnknownBeer(a)
    OBVIOUS
  <2>2. c.held = a.held
    BY <1>1, <2>1, StockFacts
  <2> HIDE DEF m, b, r, a
  <2> QED
    BY <1>3, <1>4, <1>5, <2>1, <2>2
<1>6. CASE /\ availability' = [availability EXCEPT ![b] = r.state]
           /\ Handled(m, {StepEvent(r.event, o, b)}, {})
  <2>1. /\ r.event \in {"BeerAvailabilityUpdated", "QuantityNotFound"}
        /\ a.held \subseteq r.state.held /\ r.state.held \subseteq a.held \cup {o}
        /\ r.event = "BeerAvailabilityUpdated" => o \in r.state.held
        /\ r.event = "QuantityNotFound" => r.state.held = a.held
    <3>1. /\ r.event \in {"BeerAvailabilityUpdated", "QuantityNotFound"}
          /\ a.held \subseteq r.state.held
          /\ r.event = "BeerAvailabilityUpdated" => o \in r.state.held
      BY <1>1, StockFacts
    <3>2. /\ r.state.held \subseteq a.held \cup {o}
          /\ r.event = "QuantityNotFound" => r.state.held = a.held
      BY <1>1 DEF UpdateDueToSalesOrder, StockState
    <3> QED
      BY <3>1, <3>2
  <2>2. PICK c, type : c = r.state /\ type = r.event
    OBVIOUS
  <2> HIDE DEF m, b, r, a
  <2> QED
    BY <1>3, <1>4, <1>6, <2>1, <2>2
<1> QED
  BY <1>2, <1>5, <1>6 DEF UpdateAvailabilityDueToSalesOrder

\* The runner handles m, saves s and sends: the step of o under way was m, if
\* there was one, and what is sent is the next step, or not about steps.
SavedSoundly(o, s, m, sends) ==
  /\ saga' = [saga EXCEPT ![o] = s] /\ UNCHANGED availability
  /\ m \in bus /\ bus' = (bus \ {m}) \cup sends /\ deadLetters' = deadLetters
  /\ \A i, j \in DOMAIN Lines[o] :
       Lines[o][i].beer = Lines[o][j].beer => s.rows[i] = s.rows[j]
  /\ m.type \in AboutSteps => m.order = o
  /\ \A x \in InTransit : x.type \in StepTypes /\ x.order = o => x = m
  /\ \A x \in InTransit : x.type = "AvailabilityCompensated" /\ x.order = o =>
       s.status \in {"compensating", "rejected"}
  /\ \A b \in Beers : o \in availability[b].held =>
       \E i \in DOMAIN Lines[o] : Lines[o][i].beer = b /\ s.rows[i] = "allocated"
  /\ \/ \A n \in sends : n.type \notin AboutSteps
     \/ \E k \in DOMAIN Lines[o] :
          /\ sends = {RowCommand("UpdateAvailabilityDueToSalesOrder", o, k)}
          /\ s.status = "running" /\ s.rows[k] = "pending"
          /\ o \notin availability[Lines[o][k].beer].held

LEMMA HeldSaved ==
  ASSUME IInv, HeldInv, NEW o \in Orders, NEW s, NEW m, NEW sends,
         SavedSoundly(o, s, m, sends)
  PROVE  HeldInv'
<1> USE DEF SavedSoundly
<1>1. saga'[o] = s /\ \A p \in Orders : p # o => saga'[p] = saga[p]
  BY DEF IInv, TypeOK
<1>2. \A n \in sends : n.type \in AboutSteps =>
        /\ n.type = "UpdateAvailabilityDueToSalesOrder" /\ n.order = o
        /\ n.row \in DOMAIN Lines[o] /\ s.status = "running" /\ s.rows[n.row] = "pending"
        /\ o \notin availability[Lines[o][n.row].beer].held
        /\ sends = {n}
  <2> HIDE DEF SavedSoundly
  <2>1. \/ \A n \in sends : n.type \notin AboutSteps
        \/ \E k \in DOMAIN Lines[o] :
             /\ sends = {RowCommand("UpdateAvailabilityDueToSalesOrder", o, k)}
             /\ s.status = "running" /\ s.rows[k] = "pending"
             /\ o \notin availability[Lines[o][k].beer].held
    BY DEF SavedSoundly
  <2> QED
    BY <2>1, TypesOfMessages
<1>3. \A x \in InTransit' : x \in sends \/ x \in InTransit
  BY DEF InTransit
<1>4. ASSUME NEW x \in InTransit', x.type \in StepTypes, x \notin sends
      PROVE  x \in InTransit /\ x.order # o
  <2>1. x \in InTransit /\ (x # m \/ x \in deadLetters)
    BY <1>4 DEF InTransit
  <2>2. x # m
    BY <1>4, <2>1 DEF HeldInv, OneStep, InTransit
  <2> QED
    BY <1>4, <2>1, <2>2
<1>5. OneStep'
  <2>1. ASSUME NEW x \in InTransit', NEW y \in InTransit', x.type \in StepTypes,
               y.type \in StepTypes, x.order = y.order
        PROVE  x = y
    <3>1. CASE x \in sends /\ y \in sends
      BY <1>2, <2>1, <3>1 DEF AboutSteps
    <3>2. CASE x \in sends /\ y \notin sends
      BY <1>2, <1>4, <2>1, <3>2 DEF AboutSteps
    <3>3. CASE x \notin sends /\ y \in sends
      BY <1>2, <1>4, <2>1, <3>3 DEF AboutSteps
    <3>4. CASE x \notin sends /\ y \notin sends
      BY <1>4, <2>1, <3>4 DEF HeldInv, OneStep
    <3> QED
      BY <3>1, <3>2, <3>3, <3>4
  <2>2. ASSUME NEW x \in InTransit', x.type \in StepTypes, x \in bus' \cap deadLetters'
        PROVE  FALSE
    <3>1. x \in deadLetters /\ x \in InTransit
      BY <2>2 DEF InTransit
    <3>2. x \notin bus
      BY <2>2, <3>1 DEF HeldInv, OneStep
    <3>3. x \in sends
      BY <2>2, <3>2
    <3>4. x.order = o /\ x # m
      BY <1>2, <2>2, <3>2, <3>3 DEF AboutSteps
    <3> QED
      BY <2>2, <3>1, <3>4
  <2> QED
    BY <2>1, <2>2 DEF OneStep
<1>6. RowsUniform'
  BY <1>1 DEF HeldInv, RowsUniform
<1>7. ASSUME NEW x \in InTransit'
      PROVE  StepTrue(x)'
  <2>1. CASE x.type \notin AboutSteps
    BY <2>1 DEF StepTrue, AboutSteps, StepTypes
  <2>2. CASE x \in sends /\ x.type \in AboutSteps
    <3>1. /\ x.type = "UpdateAvailabilityDueToSalesOrder" /\ x.order = o
          /\ x.row \in DOMAIN Lines[o] /\ s.status = "running" /\ s.rows[x.row] = "pending"
          /\ o \notin availability[Lines[o][x.row].beer].held
      BY <1>2, <2>2
    <3> QED
      BY <1>1, <3>1 DEF StepTrue, Awaits
  <2>3. CASE x \notin sends /\ x.type \in AboutSteps
    <3>1. x \in InTransit /\ StepTrue(x)
      BY <1>3, <1>7, <2>3 DEF HeldInv, StepsTrue
    <3>2. x.order \in Orders
      BY <2>3, <3>1, StepMessageFacts DEF InTransit, IInv, TypeOK
    <3>3. CASE x.order # o
      BY <1>1, <3>1, <3>2, <3>3 DEF StepTrue, Awaits
    <3>4. CASE x.order = o
      <4>1. x.type = "AvailabilityCompensated"
        BY <1>4, <1>7, <2>3, <3>4 DEF AboutSteps
      <4>2. s.status \in {"compensating", "rejected"}
        BY <3>1, <3>4, <4>1
      <4> QED
        BY <1>1, <3>1, <3>4, <4>1, <4>2 DEF StepTrue
    <3> QED
      BY <3>3, <3>4
  <2> QED
    BY <2>1, <2>2, <2>3
<1>8. ASSUME NEW p \in Orders, NEW d \in Beers, p \in availability[d].held
      PROVE  \/ \E j \in DOMAIN Lines[p] : Lines[p][j].beer = d /\ saga'[p].rows[j] = "allocated"
             \/ StepEvent("BeerAvailabilityUpdated", p, d) \in InTransit'
  <2>1. CASE p = o
    BY <1>1, <1>8, <2>1
  <2>2. CASE p # o
    <3> DEFINE e == StepEvent("BeerAvailabilityUpdated", p, d)
    <3>1. e.type \in AboutSteps /\ e.order = p
      BY TypesOfMessages DEF AboutSteps, StepTypes
    <3>2. e # m
      BY <2>2, <3>1
    <3> HIDE DEF e
    <3>3. e \in InTransit => e \in InTransit'
      BY <3>2 DEF InTransit
    <3>4. \/ \E j \in DOMAIN Lines[p] : Lines[p][j].beer = d /\ saga[p].rows[j] = "allocated"
          \/ e \in InTransit
      BY <1>8 DEF HeldInv, HoldsForRow, e
    <3> QED
      BY <1>1, <2>2, <3>3, <3>4 DEF e
  <2> QED
    BY <2>1, <2>2
<1>9. HoldsForRow'
  BY <1>8 DEF HoldsForRow
<1> QED
  BY <1>5, <1>6, <1>7, <1>9 DEF HeldInv, StepsTrue

\* Rewriting the rows of a beer keeps them alike.
LEMMA RewrittenUniform ==
  ASSUME HeldInv, NEW o \in Orders, NEW s, NEW b, NEW state,
         Rewritten(saga[o], s, Lines[o], b, state)
  PROVE  \A i, j \in DOMAIN Lines[o] :
           Lines[o][i].beer = Lines[o][j].beer => s.rows[i] = s.rows[j]
BY DEF HeldInv, RowsUniform, Rewritten

\* A message the runner ignores, unless it is the saga's step.
LEMMA HeldIgnored ==
  ASSUME IInv, HeldInv, Faults \subseteq {"park"}, NEW m, m.type \notin StepTypes, Ignored(m)
  PROVE  HeldInv'
<1>1. Handled(m, {}, {}) /\ UNCHANGED <<saga, availability>>
  BY DEF Ignored
<1>2. m \in bus /\ bus' = bus \ {m} /\ deadLetters' = deadLetters
  BY <1>1, HandledOnce
<1>3. InTransit' \subseteq InTransit /\ InTransit' \subseteq Messages
  BY <1>2 DEF InTransit, IInv, TypeOK
<1>4. \A x : x.type \in StepTypes => (x \in InTransit <=> x \in InTransit')
  BY <1>2 DEF InTransit
<1>5. \A x \in InTransit' : x.type \in StepTypes => x \notin bus' \cap deadLetters'
  BY <1>2, <1>3 DEF HeldInv, OneStep
<1> QED
  BY <1>1, <1>3, <1>4, <1>5, HeldMoved

\* What is sent when nothing is left to allocate is not about steps.
LEMMA OutcomesElsewhere ==
  ASSUME NEW o, NEW s
  PROVE  \A n \in sendCompensations(o, s) \cup publishOutcome(o, s) : n.type \notin AboutSteps
BY TypesOfMessages DEF sendCompensations, publishOutcome, AboutSteps, StepTypes

LEMMA HeldStarted ==
  ASSUME IInv, HeldInv, Faults \subseteq {"park"}, NEW o \in Orders, OnSalesOrderCreated(o)
  PROVE  HeldInv'
<1> DEFINE m == OrderMessage("sales.sales_order_created", o)
<1>1. PICK s : s = StartOrderAllocation(Lines[o])
  OBVIOUS
<1>2. m.type \notin AboutSteps /\ m.type \notin StepTypes
  BY TypesOfMessages DEF AboutSteps, StepTypes
<1>3. CASE Ignored(m)
  BY <1>2, <1>3, HeldIgnored
<1>4. ASSUME saga[o].status = "none", NEW sends, SaveThenSend(m, o, s, sends),
             \/ sends = publishOutcome(o, s)
             \/ sends = sendNextAllocation(o, s) /\ s.status = "running"
      PROVE  HeldInv'
  <2>1. /\ s \in SagaState(Lines[o]) /\ Shape(s) /\ Lines[o] \in Seq(Line)
        /\ \A i \in DOMAIN Lines[o] : s.rows[i] = "pending"
    BY <1>1, LineFacts, StartFacts
  <2>2. /\ m \in bus /\ bus' = (bus \ {m}) \cup sends /\ deadLetters' = deadLetters
        /\ saga' = [saga EXCEPT ![o] = s] /\ UNCHANGED availability
    <3>1. Handled(m, {}, sends)
      BY <1>4 DEF SaveThenSend
    <3>2. m \in bus /\ bus' = (bus \ {m}) \cup {} \cup sends /\ deadLetters' = deadLetters
      BY <3>1, HandledOnce
    <3> QED
      BY <1>4, <3>2 DEF SaveThenSend
  <2>3. \A x \in InTransit : x.type \in AboutSteps => x.order # o
    BY <1>4, StepIsAwaited DEF HeldInv, AboutSteps
  <2>4. ASSUME NEW b \in Beers
        PROVE  o \notin availability[b].held
    <3>1. \A i \in DOMAIN Lines[o] : saga[o].rows[i] = "pending"
      <4>1. Shape(saga[o]) /\ DOMAIN saga[o].rows = DOMAIN Lines[o]
        BY DEF IInv, SagaShape, TypeOK
      <4> QED
        BY <1>4, <4>1 DEF Shape, allRowsIn
    <3>2. StepEvent("BeerAvailabilityUpdated", o, b) \notin InTransit
      BY <2>3, TypesOfMessages DEF AboutSteps, StepTypes
    <3> QED
      BY <3>1, <3>2 DEF HeldInv, HoldsForRow
  <2>5. \/ \A n \in sends : n.type \notin AboutSteps
        \/ \E k \in DOMAIN Lines[o] :
             /\ sends = {RowCommand("UpdateAvailabilityDueToSalesOrder", o, k)}
             /\ s.status = "running" /\ s.rows[k] = "pending"
             /\ o \notin availability[Lines[o][k].beer].held
    <3>1. CASE sends = publishOutcome(o, s)
      BY <3>1, OutcomesElsewhere
    <3>2. CASE sends = sendNextAllocation(o, s) /\ s.status = "running"
      <4>1. NextPendingRow(s) \in DOMAIN Lines[o] /\ s.rows[NextPendingRow(s)] = "pending"
        BY <2>1, <3>2, NextRowFacts
      <4> QED
        BY <2>4, <3>2, <4>1, LineFacts DEF sendNextAllocation
    <3> QED
      BY <1>4, <3>1, <3>2
  <2> HIDE DEF m
  <2>6. /\ \A i, j \in DOMAIN Lines[o] :
             Lines[o][i].beer = Lines[o][j].beer => s.rows[i] = s.rows[j]
        /\ \A x \in InTransit : x.type \in StepTypes /\ x.order = o => x = m
        /\ \A x \in InTransit : x.type = "AvailabilityCompensated" /\ x.order = o =>
             s.status \in {"compensating", "rejected"}
    BY <2>1, <2>3 DEF AboutSteps
  <2>7. SavedSoundly(o, s, m, sends)
    BY <1>2, <2>2, <2>4, <2>5, <2>6 DEF SavedSoundly
  <2> QED
    BY <2>7, HeldSaved
<1>5. CASE /\ saga[o].status = "none"
           /\ SaveThenSend(m, o, s,
                IF s.status = "completed" THEN publishOutcome(o, s)
                                          ELSE sendNextAllocation(o, s))
  <2>1. s.status \in {"running", "completed"}
    BY <1>1, LineFacts, StartFacts
  <2> QED
    BY <1>4, <1>5, <2>1
<1> QED
  BY <1>1, <1>3, <1>5 DEF OnSalesOrderCreated

\* The step under way is the one the saga's message stands for.
LEMMA StepHandled ==
  ASSUME IInv, HeldInv, NEW o \in Orders, NEW b \in Beers,
         NEW type \in {"BeerAvailabilityUpdated", "QuantityNotFound"},
         StepEvent(type, o, b) \in bus
  PROVE  /\ AwaitsStep(saga[o], Lines[o], b)
         /\ \A x \in InTransit : x.type \in StepTypes /\ x.order = o => x = StepEvent(type, o, b)
         /\ \A x \in InTransit : x.type = "AvailabilityCompensated" => x.order # o
         /\ \A c \in Beers : o \in availability[c].held =>
              \/ \E i \in DOMAIN Lines[o] : Lines[o][i].beer = c /\ saga[o].rows[i] = "allocated"
              \/ c = b /\ type = "BeerAvailabilityUpdated"
<1> DEFINE m == StepEvent(type, o, b)
<1>1. m.type = type /\ m.type \in StepTypes /\ m.order = o /\ m.beer = b /\ m \in InTransit
  BY TypesOfMessages DEF StepTypes, InTransit
<1>2. Awaits(o, b)
  BY <1>1 DEF HeldInv, StepsTrue, StepTrue
<1>3. \A x \in InTransit : x.type \in StepTypes /\ x.order = o => x = m
  BY <1>1 DEF HeldInv, OneStep
<1>4. \A x \in InTransit : x.type = "AvailabilityCompensated" => x.order # o
  BY <1>2, StepIsAwaited DEF HeldInv, Awaits
<1>5. ASSUME NEW c \in Beers, StepEvent("BeerAvailabilityUpdated", o, c) \in InTransit
      PROVE  c = b /\ type = "BeerAvailabilityUpdated"
  <2> DEFINE e == StepEvent("BeerAvailabilityUpdated", o, c)
  <2>1. e.type = "BeerAvailabilityUpdated" /\ e.order = o /\ e.beer = c /\ e.type \in StepTypes
    BY TypesOfMessages DEF StepTypes
  <2>2. e = m
    BY <1>3, <1>5, <2>1
  <2> QED
    BY <1>1, <2>1, <2>2
<1>6. AwaitsStep(saga[o], Lines[o], b)
  BY <1>2 DEF Awaits, AwaitsStep, rowInState
<1> QED
  BY <1>3, <1>4, <1>5, <1>6 DEF HeldInv, HoldsForRow

LEMMA HeldSucceeded ==
  ASSUME IInv, HeldInv, Faults \subseteq {"park"}, NEW o \in Orders, NEW b \in Beers,
         OnBeerAvailabilityUpdated(o, b)
  PROVE  HeldInv'
<1> DEFINE m == StepEvent("BeerAvailabilityUpdated", o, b)
<1>1. PICK s : s = RecordAllocationSucceeded(saga[o], Lines[o], b)
  OBVIOUS
<1>2. saga[o] \in SagaState(Lines[o]) /\ Shape(saga[o]) /\ Lines[o] \in Seq(Line)
  BY LineFacts DEF IInv, TypeOK, SagaShape, SagaState
<1>3. m \in bus
  BY DEF OnBeerAvailabilityUpdated, Ignored, SaveThenSend, Handled
<1>4. /\ AwaitsStep(saga[o], Lines[o], b)
      /\ \A x \in InTransit : x.type \in StepTypes /\ x.order = o => x = m
      /\ \A x \in InTransit : x.type = "AvailabilityCompensated" => x.order # o
      /\ \A c \in Beers : o \in availability[c].held =>
           \/ \E i \in DOMAIN Lines[o] : Lines[o][i].beer = c /\ saga[o].rows[i] = "allocated"
           \/ c = b
  BY <1>3, StepHandled
<1>5. /\ s # saga[o] /\ Rewritten(saga[o], s, Lines[o], b, "allocated")
      /\ s \in SagaState(Lines[o]) /\ Shape(s) /\ s.status \in {"running", "completed"}
  BY <1>1, <1>2, <1>4, RecordedRows, SucceededFacts
<1>6. PICK sends : /\ SaveThenSend(m, o, s, sends)
                   /\ \/ sends = publishOutcome(o, s)
                      \/ sends = sendNextAllocation(o, s) /\ s.status = "running"
  BY <1>1, <1>5 DEF OnBeerAvailabilityUpdated
<1>7. /\ bus' = (bus \ {m}) \cup sends /\ deadLetters' = deadLetters
      /\ saga' = [saga EXCEPT ![o] = s] /\ UNCHANGED availability
  <2>1. Handled(m, {}, sends)
    BY <1>6 DEF SaveThenSend
  <2>2. bus' = (bus \ {m}) \cup {} \cup sends /\ deadLetters' = deadLetters
    BY <2>1, HandledOnce
  <2> QED
    BY <1>6, <2>2 DEF SaveThenSend
<1>8. ASSUME NEW c \in Beers, o \in availability[c].held
      PROVE  \E i \in DOMAIN Lines[o] : Lines[o][i].beer = c /\ s.rows[i] = "allocated"
  <2>1. CASE c = b
    BY <1>4, <1>5, <2>1 DEF AwaitsStep, rowInState, Rewritten
  <2>2. CASE c # b
    BY <1>4, <1>5, <1>8, <2>2 DEF Rewritten
  <2> QED
    BY <2>1, <2>2
<1>9. \A i, j \in DOMAIN Lines[o] :
        Lines[o][i].beer = Lines[o][j].beer => s.rows[i] = s.rows[j]
  BY <1>5, RewrittenUniform
<1>10. \/ \A n \in sends : n.type \notin AboutSteps
       \/ \E k \in DOMAIN Lines[o] :
            /\ sends = {RowCommand("UpdateAvailabilityDueToSalesOrder", o, k)}
            /\ s.status = "running" /\ s.rows[k] = "pending"
            /\ o \notin availability[Lines[o][k].beer].held
  <2>1. CASE sends = publishOutcome(o, s)
    BY <2>1, OutcomesElsewhere
  <2>2. CASE sends = sendNextAllocation(o, s) /\ s.status = "running"
    <3>1. PICK k \in DOMAIN Lines[o] : k = NextPendingRow(s) /\ s.rows[k] = "pending"
      BY <1>2, <1>5, <2>2, NextRowFacts
    <3>2. Lines[o][k].beer \in Beers
      BY LineFacts
    <3>3. o \notin availability[Lines[o][k].beer].held
      BY <1>8, <1>9, <3>1, <3>2
    <3> QED
      BY <2>2, <3>1, <3>3 DEF sendNextAllocation
  <2> QED
    BY <1>6, <2>1, <2>2
<1>11. m.order = o
  BY TypesOfMessages
<1> HIDE DEF m
<1>12. SavedSoundly(o, s, m, sends)
  BY <1>3, <1>4, <1>7, <1>8, <1>9, <1>10, <1>11 DEF SavedSoundly
<1> QED
  BY <1>12, HeldSaved

LEMMA HeldNotFound ==
  ASSUME IInv, HeldInv, Faults \subseteq {"park"}, NEW o \in Orders, NEW b \in Beers,
         OnQuantityNotFound(o, b)
  PROVE  HeldInv'
<1> DEFINE m == StepEvent("QuantityNotFound", o, b)
<1>1. PICK s : s = RecordQuantityNotFound(saga[o], Lines[o], b)
  OBVIOUS
<1>2. saga[o] \in SagaState(Lines[o]) /\ Shape(saga[o]) /\ Lines[o] \in Seq(Line)
  BY LineFacts DEF IInv, TypeOK, SagaShape, SagaState
<1>3. m \in bus
  BY DEF OnQuantityNotFound, Ignored, SaveThenSend, Handled
<1>4. /\ AwaitsStep(saga[o], Lines[o], b)
      /\ \A x \in InTransit : x.type \in StepTypes /\ x.order = o => x = m
      /\ \A x \in InTransit : x.type = "AvailabilityCompensated" => x.order # o
      /\ \A c \in Beers : o \in availability[c].held =>
           \E i \in DOMAIN Lines[o] : Lines[o][i].beer = c /\ saga[o].rows[i] = "allocated"
      /\ o \notin availability[b].held
  <2>1. m \in InTransit /\ m.type = "QuantityNotFound" /\ m.order = o /\ m.beer = b
    BY <1>3, TypesOfMessages DEF InTransit
  <2>2. o \notin availability[b].held
    BY <2>1 DEF HeldInv, StepsTrue, StepTrue
  <2> QED
    BY <1>3, <2>2, StepHandled
<1>5. s # saga[o] /\ Rewritten(saga[o], s, Lines[o], b, "failed")
  BY <1>1, <1>2, <1>4, RecordedRows
<1>6. PICK sends : /\ SaveThenSend(m, o, s, sends)
                   /\ sends = publishOutcome(o, s) \/ sends = sendCompensations(o, s)
  BY <1>1, <1>5 DEF OnQuantityNotFound, StepFailedSends
<1>7. /\ bus' = (bus \ {m}) \cup sends /\ deadLetters' = deadLetters
      /\ saga' = [saga EXCEPT ![o] = s] /\ UNCHANGED availability
  <2>1. Handled(m, {}, sends)
    BY <1>6 DEF SaveThenSend
  <2>2. bus' = (bus \ {m}) \cup {} \cup sends /\ deadLetters' = deadLetters
    BY <2>1, HandledOnce
  <2> QED
    BY <1>6, <2>2 DEF SaveThenSend
<1>8. ASSUME NEW c \in Beers, o \in availability[c].held
      PROVE  \E i \in DOMAIN Lines[o] : Lines[o][i].beer = c /\ s.rows[i] = "allocated"
  <2>1. c # b
    BY <1>4, <1>8
  <2> QED
    BY <1>4, <1>5, <1>8, <2>1 DEF Rewritten
<1>9. \A i, j \in DOMAIN Lines[o] :
        Lines[o][i].beer = Lines[o][j].beer => s.rows[i] = s.rows[j]
  BY <1>5, RewrittenUniform
<1>10. (\A n \in sends : n.type \notin AboutSteps) /\ m.order = o
  BY <1>6, OutcomesElsewhere, TypesOfMessages
<1> HIDE DEF m
<1>11. SavedSoundly(o, s, m, sends)
  BY <1>3, <1>4, <1>7, <1>8, <1>9, <1>10 DEF SavedSoundly
<1> QED
  BY <1>11, HeldSaved

LEMMA HeldGivenBack ==
  ASSUME IInv, HeldInv, Faults \subseteq {"park"}, NEW o \in Orders, NEW b \in Beers,
         OnAvailabilityCompensated(o, b)
  PROVE  HeldInv'
<1> DEFINE m == StepEvent("AvailabilityCompensated", o, b)
<1>1. PICK s : s = RecordCompensated(saga[o], Lines[o], b)
  OBVIOUS
<1>2. saga[o] \in SagaState(Lines[o]) /\ Shape(saga[o]) /\ Lines[o] \in Seq(Line)
  BY LineFacts DEF IInv, TypeOK, SagaShape, SagaState
<1>3. m.type = "AvailabilityCompensated" /\ m.type \notin StepTypes /\ m.order = o /\ m.beer = b
  BY TypesOfMessages DEF StepTypes
<1>4. CASE Ignored(m)
  BY <1>3, <1>4, HeldIgnored
<1>5. ASSUME s # saga[o], NEW sends, SaveThenSend(m, o, s, sends),
             sends = publishOutcome(o, s) \/ sends = {}
      PROVE  HeldInv'
  <2>1. /\ saga[o].status = "compensating" /\ s.status \in {"compensating", "rejected"}
        /\ Rewritten(saga[o], s, Lines[o], b, "compensated")
    BY <1>1, <1>2, <1>5, RecordedRows, CompensatedFacts
  <2>2. /\ m \in bus /\ bus' = (bus \ {m}) \cup sends /\ deadLetters' = deadLetters
        /\ saga' = [saga EXCEPT ![o] = s] /\ UNCHANGED availability
    <3>1. Handled(m, {}, sends)
      BY <1>5 DEF SaveThenSend
    <3>2. m \in bus /\ bus' = (bus \ {m}) \cup {} \cup sends /\ deadLetters' = deadLetters
      BY <3>1, HandledOnce
    <3> QED
      BY <1>5, <3>2 DEF SaveThenSend
  <2>3. o \notin availability[b].held
    <3>1. m \in InTransit
      BY <2>2 DEF InTransit
    <3> QED
      BY <1>3, <3>1 DEF HeldInv, StepsTrue, StepTrue
  <2>4. \A x \in InTransit : x.type \in StepTypes => x.order # o
    BY <2>1, StepIsAwaited DEF HeldInv
  <2>5. ASSUME NEW c \in Beers, o \in availability[c].held
        PROVE  \E i \in DOMAIN Lines[o] : Lines[o][i].beer = c /\ s.rows[i] = "allocated"
    <3>1. c # b
      BY <2>3, <2>5
    <3>2. StepEvent("BeerAvailabilityUpdated", o, c) \notin InTransit
      BY <2>4, TypesOfMessages DEF StepTypes
    <3> QED
      BY <2>1, <2>5, <3>1, <3>2 DEF HeldInv, HoldsForRow, Rewritten
  <2>6. \A i, j \in DOMAIN Lines[o] :
          Lines[o][i].beer = Lines[o][j].beer => s.rows[i] = s.rows[j]
    BY <2>1, RewrittenUniform
  <2>7. \A n \in sends : n.type \notin AboutSteps
    BY <1>5, OutcomesElsewhere
  <2> HIDE DEF m
  <2>8. SavedSoundly(o, s, m, sends)
    BY <1>3, <2>1, <2>2, <2>4, <2>5, <2>6, <2>7 DEF SavedSoundly
  <2> QED
    BY <2>8, HeldSaved
<1>6. CASE /\ s # saga[o]
           /\ SaveThenSend(m, o, s, IF s.status = "rejected" THEN publishOutcome(o, s) ELSE {})
  BY <1>5, <1>6
<1> QED
  BY <1>1, <1>4, <1>6 DEF OnAvailabilityCompensated

LEMMA NextHeld ==
  ASSUME IInv, HeldInv, IInv', ~StepTimeout, Faults \subseteq {"park"}, [Next]_vars
  PROVE  HeldInv'
<1>1. CASE UNCHANGED vars
  <2>1. UNCHANGED <<saga, availability, bus, deadLetters>>
    BY <1>1 DEF vars
  <2>2. Elsewhere
    BY <2>1 DEF Elsewhere
  <2> QED
    BY <2>2, HeldElsewhere DEF IInv
<1>2. CASE \/ \E o \in Orders : PlaceSalesOrder(o) \/ SalesStep(o)
           \/ \E p \in Productions :
                PlaceProductionOrder(p) \/ UpdateAvailabilityDueToProductionOrder(p)
  BY <1>2, ElsewhereActions, HeldElsewhere DEF IInv
<1>3. ASSUME NEW m \in bus, Park(m)
      PROVE  HeldInv'
  BY <1>3, HeldParked DEF Park
<1>4. CASE Redrive
  BY <1>4, HeldRedriven
<1>5. ASSUME NEW o \in Orders
      PROVE  ~TimeoutInFlight(o) /\ ~ResumeInFlight
  BY DEF TimeoutInFlight, ResumeInFlight
<1>6. ~ResumeInFlight
  BY DEF ResumeInFlight
<1> QED
  BY <1>1, <1>2, <1>3, <1>4, <1>5, <1>6, HeldAllocated, HeldCompensated, HeldStarted,
     HeldSucceeded, HeldNotFound, HeldGivenBack DEF Next, RowStep, SagaStep

\* Backward recovery is complete (RecordCompensated, RowsToCompensate: "undoes
\* every already-allocated row before rejecting"): a rejected order holds no
\* stock, for any orders, rows and stock, also if messages are parked and
\* redriven, as long as none is delivered twice and the watchdog, which does
\* not wait for the answer of a step, is off.
THEOREM RejectedOrdersHoldNothing ==
  ASSUME ~StepTimeout, Faults \subseteq {"park"}
  PROVE  Spec => []RejectedOrderHoldsNothing
<1>1. Init => HeldInv
  BY DEF Init, HeldInv, OneStep, RowsUniform, StepsTrue, HoldsForRow, InTransit, NoSaga,
     NewAvailability
<1>2. IInv /\ HeldInv /\ IInv' /\ [Next]_vars => HeldInv'
  BY NextHeld
<1>3. ASSUME IInv, HeldInv, NEW o \in Orders, saga[o].status = "rejected", NEW b \in Beers
      PROVE  o \notin availability[b].held
  <2>1. \A i \in DOMAIN Lines[o] : saga[o].rows[i] # "allocated"
    BY <1>3 DEF IInv, SagaShape, Shape, TypeOK
  <2>2. StepEvent("BeerAvailabilityUpdated", o, b) \notin InTransit
    <3> DEFINE e == StepEvent("BeerAvailabilityUpdated", o, b)
    <3>1. e.type \in StepTypes /\ e.order = o
      BY TypesOfMessages DEF StepTypes
    <3> QED
      BY <1>3, <3>1, StepIsAwaited DEF HeldInv
  <2> QED
    BY <1>3, <2>1, <2>2 DEF HeldInv, HoldsForRow
<1>4. IInv /\ HeldInv => RejectedOrderHoldsNothing
  BY <1>3 DEF RejectedOrderHoldsNothing
<1> QED
  BY <1>1, <1>2, <1>4, IInvAlways, PTL DEF Spec

-----------------------------------------------------------------------------
(* Sums over finite sets.  FiniteSetsExt folds a set by taking elements off *)
(* it one by one; such a fold is a function on the subsets of the set.      *)

\* The element a sum over a set takes first.
First(s) == CHOOSE x \in s : TRUE

\* f sums the weights of the subsets of S.
Sums(f, w, S) ==
  f = [s \in SUBSET S |-> IF s = {} THEN 0 ELSE w[First(s)] + f[s \ {First(s)}]]

LEMMA TotalIsASum ==
  ASSUME NEW w, NEW S
  PROVE  Total(w, S) = (CHOOSE f : Sums(f, w, S))[S]
BY DEF Total, MapThenSumSet, MapThenFoldSet, Sums, First

LEMMA SmallestSet ==
  ASSUME NEW B, B # {}, \A s \in B : IsFiniteSet(s)
  PROVE  \E s \in B : \A r \in B : Cardinality(s) <= Cardinality(r)
<1> DEFINE sizes == {Cardinality(s) : s \in B}
<1>1. sizes \subseteq Nat /\ sizes # {}
  BY FS_CardinalityType
<1>2. PICK x \in sizes : \A y \in sizes : x <= y
  <2> HIDE DEF sizes
  <2> QED
    BY <1>1, FirstOfRows
<1> QED
  BY <1>2

LEMMA OneLess ==
  ASSUME NEW s, IsFiniteSet(s), NEW x \in s
  PROVE  /\ IsFiniteSet(s \ {x})
         /\ Cardinality(s \ {x}) \in Nat /\ Cardinality(s) \in Nat
         /\ Cardinality(s \ {x}) = Cardinality(s) - 1
         /\ s # {} /\ Cardinality(s) > 0
<1>1. IsFiniteSet(s \ {x}) /\ Cardinality(s \ {x}) = Cardinality(s) - 1
  BY FS_RemoveElement
<1>2. Cardinality(s \ {x}) \in Nat /\ Cardinality(s) \in Nat
  BY <1>1, FS_CardinalityType
<1> QED
  BY <1>1, <1>2

\* Two functions that sum the same weights agree where both are defined.
LEMMA SumsAgree ==
  ASSUME NEW w, NEW A, NEW B, NEW f, NEW g, Sums(f, w, A), Sums(g, w, B),
         NEW S, S \subseteq A, S \subseteq B, IsFiniteSet(S)
  PROVE  f[S] = g[S]
<1> DEFINE bad == {s \in SUBSET S : f[s] # g[s]}
<1>1. SUFFICES ASSUME bad # {} PROVE FALSE
  OBVIOUS
<1>2. \A s \in bad : IsFiniteSet(s)
  BY FS_Subset
<1>3. PICK s \in bad : \A r \in bad : Cardinality(s) <= Cardinality(r)
  <2> HIDE DEF bad
  <2> QED
    BY <1>1, <1>2, SmallestSet
<1>4. /\ f[s] = IF s = {} THEN 0 ELSE w[First(s)] + f[s \ {First(s)}]
      /\ g[s] = IF s = {} THEN 0 ELSE w[First(s)] + g[s \ {First(s)}]
  <2>1. s \in SUBSET A /\ s \in SUBSET B
    BY <1>3
  <2>2. f[s] = IF s = {} THEN 0 ELSE w[First(s)] + f[s \ {First(s)}]
    BY <2>1 DEF Sums
  <2>3. g[s] = IF s = {} THEN 0 ELSE w[First(s)] + g[s \ {First(s)}]
    BY <2>1 DEF Sums
  <2> QED
    BY <2>2, <2>3
<1>5. s # {} /\ f[s] # g[s]
  BY <1>3, <1>4
<1>6. First(s) \in s
  BY <1>5 DEF First
<1>7. s \ {First(s)} \in bad
  BY <1>3, <1>4, <1>5
<1> QED
  BY <1>2, <1>3, <1>6, <1>7, OneLess

\* Every finite set has a sum.
LEMMA SumExists ==
  ASSUME NEW w, NEW S, IsFiniteSet(S)
  PROVE  \E f : Sums(f, w, S)
<1> DEFINE upTo(n) == {s \in SUBSET S : Cardinality(s) <= n}
           sum(f, n) == f = [s \in upTo(n) |->
                               IF s = {} THEN 0 ELSE w[First(s)] + f[s \ {First(s)}]]
           bad == {n \in Nat : ~ \E f : sum(f, n)}
<1>1. \A s \in SUBSET S : IsFiniteSet(s) /\ Cardinality(s) \in Nat
  BY FS_Subset, FS_CardinalityType
<1>2. bad = {}
  <2>1. SUFFICES ASSUME bad # {} PROVE FALSE
    OBVIOUS
  <2>2. PICK n \in bad : \A k \in bad : n <= k
    <3>1. bad \subseteq Nat
      OBVIOUS
    <3> HIDE DEF bad
    <3> QED
      BY <2>1, <3>1, FirstOfRows
  <2>3. n # 0
    <3>1. \A s \in upTo(0) : s = {}
      BY <1>1, FS_EmptySet
    <3>2. sum([s \in upTo(0) |-> 0], 0)
      BY <3>1
    <3> QED
      BY <2>2, <3>2
  <2>4. n - 1 \in Nat /\ n - 1 \notin bad
    <3>1. n \in Nat
      OBVIOUS
    <3> HIDE DEF bad
    <3> QED
      BY <2>2, <2>3, <3>1
  <2>5. PICK f : sum(f, n - 1)
    BY <2>4
  <2>6. PICK g : g = [s \in upTo(n) |->
                        IF s = {} THEN 0 ELSE w[First(s)] + f[s \ {First(s)}]]
    OBVIOUS
  <2>7. ASSUME NEW s \in upTo(n), s # {}
        PROVE  f[s \ {First(s)}] = g[s \ {First(s)}]
    <3>1. PICK r : r = s \ {First(s)}
      OBVIOUS
    <3>2. First(s) \in s
      BY <2>7 DEF First
    <3>3. r \in SUBSET S /\ Cardinality(r) <= n - 1 /\ Cardinality(r) <= n
      BY <1>1, <2>4, <2>7, <3>1, <3>2, OneLess
    <3>4. r \in upTo(n - 1) /\ r \in upTo(n)
      BY <3>3
    <3>5. f[r] = IF r = {} THEN 0 ELSE w[First(r)] + f[r \ {First(r)}]
      BY <2>5, <3>4
    <3>6. g[r] = IF r = {} THEN 0 ELSE w[First(r)] + f[r \ {First(r)}]
      BY <2>6, <3>4
    <3> QED
      BY <3>1, <3>5, <3>6
  <2>8. sum(g, n)
    BY <2>6, <2>7
  <2> QED
    BY <2>2, <2>8
<1>3. PICK f : sum(f, Cardinality(S))
  BY <1>1, <1>2
<1>4. upTo(Cardinality(S)) = SUBSET S
  BY FS_Subset
<1> QED
  BY <1>3, <1>4 DEF Sums

LEMMA TotalUnfolds ==
  ASSUME NEW w, NEW S, IsFiniteSet(S)
  PROVE  /\ S = {} => Total(w, S) = 0
         /\ S # {} => /\ First(S) \in S
                      /\ Total(w, S) = w[First(S)] + Total(w, S \ {First(S)})
<1> DEFINE sum(R) == CHOOSE f : Sums(f, w, R)
<1>1. Sums(sum(S), w, S) /\ Total(w, S) = sum(S)[S]
  BY SumExists, TotalIsASum
<1>2. PICK f : f = sum(S)
  OBVIOUS
<1>3. Sums(f, w, S) /\ Total(w, S) = f[S]
  BY <1>1, <1>2
<1>4. f[S] = IF S = {} THEN 0 ELSE w[First(S)] + f[S \ {First(S)}]
  BY <1>3 DEF Sums
<1>5. ASSUME S # {}
      PROVE  First(S) \in S /\ f[S \ {First(S)}] = Total(w, S \ {First(S)})
  <2>1. PICK R : R = S \ {First(S)}
    OBVIOUS
  <2>2. IsFiniteSet(R) /\ R \subseteq S
    BY <2>1, FS_Subset
  <2>3. Sums(sum(R), w, R) /\ Total(w, R) = sum(R)[R]
    BY <2>2, SumExists, TotalIsASum
  <2>4. PICK g : g = sum(R)
    OBVIOUS
  <2>5. Sums(g, w, R) /\ Total(w, R) = g[R]
    BY <2>3, <2>4
  <2>6. f[R] = g[R]
    BY <1>3, <2>2, <2>5, SumsAgree
  <2> QED
    BY <1>5, <2>1, <2>5, <2>6 DEF First
<1> QED
  BY <1>3, <1>4, <1>5

\* A sum of integers is an integer
LEMMA TotalInt ==
  ASSUME NEW w, NEW S, IsFiniteSet(S), \A x \in S : w[x] \in Int
  PROVE  Total(w, S) \in Int
<1> DEFINE bad == {s \in SUBSET S : Total(w, s) \notin Int}
<1>1. SUFFICES ASSUME bad # {} PROVE FALSE
  OBVIOUS
<1>2. \A s \in bad : IsFiniteSet(s)
  BY FS_Subset
<1>3. PICK s \in bad : \A r \in bad : Cardinality(s) <= Cardinality(r)
  <2> HIDE DEF bad
  <2> QED
    BY <1>1, <1>2, SmallestSet
<1>4. s # {} /\ s \subseteq S
  BY <1>2, <1>3, TotalUnfolds
<1>5. First(s) \in s /\ Total(w, s) = w[First(s)] + Total(w, s \ {First(s)})
  BY <1>2, <1>3, <1>4, TotalUnfolds
<1>6. s \ {First(s)} \in bad
  BY <1>3, <1>4, <1>5
<1> QED
  BY <1>2, <1>3, <1>5, <1>6, OneLess

\* The sum does not depend on the order of the elements.
LEMMA TotalWithout ==
  ASSUME NEW w, NEW S, IsFiniteSet(S), \A x \in S : w[x] \in Int, NEW x \in S
  PROVE  Total(w, S) = w[x] + Total(w, S \ {x})
<1> DEFINE bad == {s \in SUBSET S : \E y \in s : Total(w, s) # w[y] + Total(w, s \ {y})}
<1>1. SUFFICES ASSUME bad # {} PROVE FALSE
  OBVIOUS
<1>2. \A s \in SUBSET S : IsFiniteSet(s) /\ Total(w, s) \in Int
  BY FS_Subset, TotalInt
<1>3. PICK s \in bad : \A r \in bad : Cardinality(s) <= Cardinality(r)
  <2>1. \A s \in bad : IsFiniteSet(s)
    BY <1>2
  <2> HIDE DEF bad
  <2> QED
    BY <1>1, <2>1, SmallestSet
<1>4. PICK y \in s : Total(w, s) # w[y] + Total(w, s \ {y})
  BY <1>3
<1>5. PICK z : z = First(s)
  OBVIOUS
<1>6. z \in s /\ Total(w, s) = w[z] + Total(w, s \ {z}) /\ y # z
  BY <1>2, <1>3, <1>4, <1>5, TotalUnfolds
<1>7. s \ {y} \notin bad /\ s \ {z} \notin bad
  <2>1. /\ Cardinality(s) \in Nat
        /\ Cardinality(s \ {y}) = Cardinality(s) - 1
        /\ Cardinality(s \ {z}) = Cardinality(s) - 1
    BY <1>2, <1>3, <1>4, <1>6, OneLess
  <2> HIDE DEF bad
  <2> QED
    BY <1>3, <2>1
<1>8. Total(w, s \ {z}) = w[y] + Total(w, s \ {y, z})
  <2>1. y \in s \ {z} /\ (s \ {z}) \ {y} = s \ {y, z} /\ s \ {z} \in SUBSET S
    BY <1>3, <1>4, <1>6
  <2> QED
    BY <1>7, <2>1
<1>9. Total(w, s \ {y}) = w[z] + Total(w, s \ {y, z})
  <2>1. z \in s \ {y} /\ (s \ {y}) \ {z} = s \ {y, z} /\ s \ {y} \in SUBSET S
    BY <1>3, <1>4, <1>6
  <2> QED
    BY <1>7, <2>1
<1>10. w[y] \in Int /\ w[z] \in Int /\ Total(w, s \ {y, z}) \in Int
  BY <1>2, <1>3, <1>4, <1>6
<1> QED
  BY <1>4, <1>6, <1>8, <1>9, <1>10

\* Only the weights of the elements matter.
LEMMA TotalSame ==
  ASSUME NEW w, NEW v, NEW S, IsFiniteSet(S), \A x \in S : w[x] = v[x]
  PROVE  Total(w, S) = Total(v, S)
<1> DEFINE bad == {s \in SUBSET S : Total(w, s) # Total(v, s)}
<1>1. SUFFICES ASSUME bad # {} PROVE FALSE
  OBVIOUS
<1>2. \A s \in bad : IsFiniteSet(s)
  BY FS_Subset
<1>3. PICK s \in bad : \A r \in bad : Cardinality(s) <= Cardinality(r)
  <2> HIDE DEF bad
  <2> QED
    BY <1>1, <1>2, SmallestSet
<1>4. s # {} /\ s \subseteq S
  BY <1>2, <1>3, TotalUnfolds
<1>5. /\ First(s) \in s
      /\ Total(w, s) = w[First(s)] + Total(w, s \ {First(s)})
      /\ Total(v, s) = v[First(s)] + Total(v, s \ {First(s)})
  BY <1>2, <1>3, <1>4, TotalUnfolds
<1>6. s \ {First(s)} \in bad
  BY <1>3, <1>4, <1>5
<1> QED
  BY <1>2, <1>3, <1>5, <1>6, OneLess

\* Weights of zero sum to zero.
LEMMA TotalOfNothing ==
  ASSUME NEW w, NEW S, IsFiniteSet(S), \A x \in S : w[x] = 0
  PROVE  Total(w, S) = 0
<1> DEFINE bad == {s \in SUBSET S : Total(w, s) # 0}
<1>1. SUFFICES ASSUME bad # {} PROVE FALSE
  OBVIOUS
<1>2. \A s \in bad : IsFiniteSet(s)
  BY FS_Subset
<1>3. PICK s \in bad : \A r \in bad : Cardinality(s) <= Cardinality(r)
  <2> HIDE DEF bad
  <2> QED
    BY <1>1, <1>2, SmallestSet
<1>4. s # {} /\ s \subseteq S
  BY <1>2, <1>3, TotalUnfolds
<1>5. First(s) \in s /\ Total(w, s) = w[First(s)] + Total(w, s \ {First(s)})
  BY <1>2, <1>3, <1>4, TotalUnfolds
<1>6. s \ {First(s)} \in bad
  BY <1>3, <1>4, <1>5
<1> QED
  BY <1>2, <1>3, <1>5, <1>6, OneLess

-----------------------------------------------------------------------------
(* Conservation of stock.                                                  *)

\* What orders may hold of beer b, and what productions added.
Requests(b) == [o \in Orders |-> RequestedQuantity(o, b)]
Produced == [p \in Productions |-> applied[p] * Output[p].quantity]
ProductionsOf(b) == {p \in Productions : Output[p].beer = b}

\* Stock is held by finitely many orders, and by orders that asked for it.
HoldersAsked ==
  \A b \in Beers :
    /\ IsFiniteSet(availability[b].held)
    /\ \A o \in availability[b].held : \E i \in DOMAIN Lines[o] : Lines[o][i].beer = b

StockInv == HoldersAsked /\ StockConservation

\* An order that names a beer once asks for what its row of that beer says.
LEMMA RequestOfRow ==
  ASSUME NEW o \in Orders, DistinctBeers(o), NEW i \in DOMAIN Lines[o], NEW b,
         Lines[o][i].beer = b
  PROVE  /\ RequestedQuantity(o, b) = Lines[o][i].quantity
         /\ Requests(b)[o] = Lines[o][i].quantity /\ Requests(b)[o] \in Int
<1> DEFINE rows == {j \in DOMAIN Lines[o] : Lines[o][j].beer = b}
<1>1. rows = {i} /\ i \in Nat /\ Lines[o][i].quantity \in Int
  BY LineFacts DEF DistinctBeers
<1>2. i = CHOOSE k \in rows : \A j \in rows : k <= j
  BY <1>1
<1>3. RequestedQuantity(o, b) = Lines[o][i].quantity
  BY <1>2 DEF RequestedQuantity
<1> QED
  BY <1>1, <1>3 DEF Requests

LEMMA RequestsAreNumbers ==
  ASSUME \A o \in Orders : DistinctBeers(o), IInv, HoldersAsked, NEW b \in Beers
  PROVE  \A o \in availability[b].held : o \in Orders /\ Requests(b)[o] \in Int
<1>1. availability[b].held \subseteq Orders
  BY DEF IInv, TypeOK
<1> QED
  BY <1>1, RequestOfRow DEF HoldersAsked

\* The stock of beer b becomes a, and what was produced does not change.
LEMMA StockMoved ==
  ASSUME IInv, StockInv, NEW b \in Beers, NEW a,
         availability' = [availability EXCEPT ![b] = a], UNCHANGED applied,
         IsFiniteSet(a.held),
         \A o \in a.held : \E i \in DOMAIN Lines[o] : Lines[o][i].beer = b,
         a.quantity + Total(Requests(b), a.held)
           = availability[b].quantity + Total(Requests(b), availability[b].held)
  PROVE  StockInv'
<1>1. availability'[b] = a /\ \A c \in Beers : c # b => availability'[c] = availability[c]
  BY DEF IInv, TypeOK
<1>2. HoldersAsked'
  BY <1>1 DEF StockInv, HoldersAsked
<1>3. ASSUME NEW c \in Beers
      PROVE  availability'[c].quantity + Total(Requests(c), availability'[c].held)
               = Total(Produced', ProductionsOf(c))
  <2>1. Produced' = Produced
    BY DEF Produced
  <2>2. availability[c].quantity + Total(Requests(c), availability[c].held)
          = Total(Produced, ProductionsOf(c))
    BY DEF StockInv, StockConservation, Requests, Produced, ProductionsOf
  <2> QED
    BY <1>1, <2>1, <2>2
<1>4. StockConservation'
  BY <1>3 DEF StockConservation, Requests, Produced, ProductionsOf
<1> QED
  BY <1>2, <1>4 DEF StockInv

LEMMA StockAllocated ==
  ASSUME \A o \in Orders : DistinctBeers(o), IInv, StockInv,
         NEW o \in Orders, NEW i \in DOMAIN Lines[o], UpdateAvailabilityDueToSalesOrder(o, i)
  PROVE  StockInv'
<1> DEFINE q == Lines[o][i].quantity
<1>1. PICK b \in Beers : b = Lines[o][i].beer
  BY LineFacts
<1>2. PICK a : a = availability[b]
  OBVIOUS
<1>3. /\ a.quantity \in Int /\ a.held \subseteq Orders /\ IsFiniteSet(a.held) /\ q \in Int
      /\ a = [stream |-> a.stream, quantity |-> a.quantity, held |-> a.held]
      /\ \A p \in a.held : \E j \in DOMAIN Lines[p] : Lines[p][j].beer = b
  BY <1>1, <1>2, LineFacts DEF IInv, TypeOK, StockInv, HoldersAsked
<1>4. ASSUME NEW c, availability' = [availability EXCEPT ![b] = c],
             c.quantity = a.quantity, c.held = a.held
      PROVE  StockInv'
  <2>1. UNCHANGED applied
    BY DEF UpdateAvailabilityDueToSalesOrder
  <2>2. /\ IsFiniteSet(c.held)
        /\ \A p \in c.held : \E j \in DOMAIN Lines[p] : Lines[p][j].beer = b
        /\ c.quantity + Total(Requests(b), c.held)
             = availability[b].quantity + Total(Requests(b), availability[b].held)
    BY <1>2, <1>3, <1>4
  <2> QED
    BY <1>4, <2>1, <2>2, StockMoved
<1>5. ASSUME NEW c, availability' = [availability EXCEPT ![b] = c], o \notin a.held,
             c.quantity = a.quantity - q, c.held = a.held \cup {o}
      PROVE  StockInv'
  <2>1. /\ IsFiniteSet(c.held) /\ c.held \ {o} = a.held /\ o \in c.held
        /\ \A p \in c.held : \E j \in DOMAIN Lines[p] : Lines[p][j].beer = b
    BY <1>1, <1>3, <1>5, FS_AddElement
  <2>2. \A p \in c.held : Requests(b)[p] \in Int
    BY <1>1, <1>2, <1>5, RequestsAreNumbers, RequestOfRow DEF StockInv
  <2>3. Requests(b)[o] = q
    BY <1>1, RequestOfRow
  <2>4. Total(Requests(b), c.held) = q + Total(Requests(b), a.held)
    BY <2>1, <2>2, <2>3, TotalWithout
  <2>5. Total(Requests(b), a.held) \in Int
    BY <1>3, <1>5, <2>2, TotalInt
  <2> HIDE DEF q
  <2>6. c.quantity + Total(Requests(b), c.held)
          = availability[b].quantity + Total(Requests(b), availability[b].held)
    BY <1>2, <1>3, <1>5, <2>4, <2>5
  <2> QED
    BY <1>5, <2>1, <2>6, StockMoved DEF UpdateAvailabilityDueToSalesOrder
<1>6. ASSUME UNCHANGED availability
      PROVE  StockInv'
  BY <1>6 DEF UpdateAvailabilityDueToSalesOrder, StockInv, StockConservation, HoldersAsked
<1>7. PICK r : r = UpdateDueToSalesOrder(a, o, q)
  OBVIOUS
<1>8. \/ r.state = a
      \/ /\ o \notin a.held
         /\ r.state.quantity = a.quantity - q /\ r.state.held = a.held \cup {o}
  BY <1>3, <1>7 DEF UpdateDueToSalesOrder
<1>9. \/ availability' = [availability EXCEPT ![b] = RefuseUnknownBeer(a)]
      \/ availability' = [availability EXCEPT ![b] = r.state]
      \/ UNCHANGED availability
  BY <1>1, <1>2, <1>7 DEF UpdateAvailabilityDueToSalesOrder
<1>10. RefuseUnknownBeer(a).quantity = a.quantity /\ RefuseUnknownBeer(a).held = a.held
  BY <1>3 DEF RefuseUnknownBeer
<1> QED
  BY <1>4, <1>5, <1>6, <1>8, <1>9, <1>10

LEMMA StockCompensated ==
  ASSUME \A o \in Orders : DistinctBeers(o), IInv, StockInv,
         NEW o \in Orders, NEW i \in DOMAIN Lines[o], CompensateAvailability(o, i)
  PROVE  StockInv'
<1> DEFINE q == Lines[o][i].quantity
<1>1. PICK b \in Beers : b = Lines[o][i].beer
  BY LineFacts
<1>2. PICK a : a = availability[b]
  OBVIOUS
<1>3. /\ a.quantity \in Int /\ a.held \subseteq Orders /\ IsFiniteSet(a.held) /\ q \in Int
      /\ a = [stream |-> a.stream, quantity |-> a.quantity, held |-> a.held]
      /\ \A p \in a.held : \E j \in DOMAIN Lines[p] : Lines[p][j].beer = b
  BY <1>1, <1>2, LineFacts DEF IInv, TypeOK, StockInv, HoldersAsked
<1>4. PICK c : c = CompensateDueToFailedAllocation(a, o, q)
  OBVIOUS
<1>5. \/ c = a
      \/ o \in a.held /\ c.quantity = a.quantity + q /\ c.held = a.held \ {o}
  BY <1>3, <1>4 DEF CompensateDueToFailedAllocation
<1>6. ASSUME UNCHANGED availability \/ availability' = [availability EXCEPT ![b] = a]
      PROVE  StockInv'
  <2>1. UNCHANGED availability
    BY <1>2, <1>6 DEF IInv, TypeOK
  <2> QED
    BY <2>1 DEF CompensateAvailability, StockInv, StockConservation, HoldersAsked
<1>7. ASSUME availability' = [availability EXCEPT ![b] = c], o \in a.held,
             c.quantity = a.quantity + q, c.held = a.held \ {o}
      PROVE  StockInv'
  <2>1. /\ IsFiniteSet(c.held)
        /\ \A p \in c.held : \E j \in DOMAIN Lines[p] : Lines[p][j].beer = b
    BY <1>3, <1>7, FS_RemoveElement
  <2>2. \A p \in a.held : Requests(b)[p] \in Int
    BY <1>2, RequestsAreNumbers DEF StockInv
  <2>3. Requests(b)[o] = q
    BY <1>1, RequestOfRow
  <2>4. Total(Requests(b), a.held) = q + Total(Requests(b), c.held)
    BY <1>3, <1>7, <2>2, <2>3, TotalWithout
  <2>5. Total(Requests(b), c.held) \in Int
    BY <1>7, <2>1, <2>2, TotalInt
  <2> HIDE DEF q
  <2>6. c.quantity + Total(Requests(b), c.held)
          = availability[b].quantity + Total(Requests(b), availability[b].held)
    BY <1>2, <1>3, <1>7, <2>4, <2>5
  <2> QED
    BY <1>7, <2>1, <2>6, StockMoved DEF CompensateAvailability
<1>8. UNCHANGED availability \/ availability' = [availability EXCEPT ![b] = c]
  BY <1>1, <1>2, <1>4 DEF CompensateAvailability
<1> QED
  BY <1>5, <1>6, <1>7, <1>8

LEMMA StockProduced ==
  ASSUME \A o \in Orders : DistinctBeers(o), IsFiniteSet(Productions), IInv, StockInv,
         NEW p \in Productions, UpdateAvailabilityDueToProductionOrder(p)
  PROVE  StockInv'
<1> DEFINE q == Output[p].quantity
<1>1. PICK b \in Beers : b = Output[p].beer
  BY AllocationAssumption DEF AllocationAssumption, Line
<1>2. PICK a : a = availability[b]
  OBVIOUS
<1>3. /\ a.quantity \in Int /\ q \in Int /\ applied[p] \in Nat
      /\ a = [stream |-> a.stream, quantity |-> a.quantity, held |-> a.held]
  BY <1>2, AllocationAssumption DEF IInv, TypeOK, AllocationAssumption, Line
<1>4. CASE UNCHANGED <<availability, applied>>
  BY <1>4 DEF StockInv, StockConservation, HoldersAsked
<1>5. ASSUME availability' = [availability EXCEPT ![b] = UpdateDueToProductionOrder(a, q)],
             applied' = [applied EXCEPT ![p] = applied[p] + 1]
      PROVE  StockInv'
  <2>1. /\ availability'[b].quantity = a.quantity + q /\ availability'[b].held = a.held
        /\ \A c \in Beers : c # b => availability'[c] = availability[c]
    BY <1>2, <1>3, <1>5 DEF UpdateDueToProductionOrder, IInv, TypeOK
  <2>2. HoldersAsked'
    BY <1>2, <2>1 DEF StockInv, HoldersAsked
  <2>3. /\ \A c \in Beers : IsFiniteSet(ProductionsOf(c))
        /\ \A r \in Productions : Produced[r] \in Int
        /\ \A r \in Productions : r # p => Produced'[r] = Produced[r]
        /\ Produced[p] = applied[p] * q /\ Produced'[p] = (applied[p] + 1) * q
    <3>1. \A c \in Beers : IsFiniteSet(ProductionsOf(c))
      BY FS_Subset DEF ProductionsOf
    <3>2. \A r \in Productions : Output[r].quantity \in Int /\ applied[r] \in Int
      BY AllocationAssumption DEF IInv, TypeOK, AllocationAssumption, Line
    <3>3. \A r \in Productions : Produced[r] \in Int
      BY <3>2 DEF Produced
    <3>4. \A r \in Productions : r # p => applied'[r] = applied[r]
      BY <1>5 DEF IInv, TypeOK
    <3>5. applied'[p] = applied[p] + 1
      BY <1>5 DEF IInv, TypeOK
    <3> QED
      BY <3>1, <3>3, <3>4, <3>5 DEF Produced
  <2>4. Produced'[p] = Produced[p] + q
    <3> HIDE DEF q
    <3> QED
      BY <1>3, <2>3
  <2>5. ASSUME NEW c \in Beers
        PROVE  availability'[c].quantity + Total(Requests(c), availability'[c].held)
                 = Total(Produced', ProductionsOf(c))
    <3>1. /\ availability[c].quantity \in Int
          /\ availability[c].quantity + Total(Requests(c), availability[c].held)
               = Total(Produced, ProductionsOf(c))
      BY DEF StockInv, StockConservation, Requests, Produced, ProductionsOf, IInv, TypeOK
    <3>2. CASE c # b
      <4>1. Total(Produced', ProductionsOf(c)) = Total(Produced, ProductionsOf(c))
        BY <1>1, <2>3, <3>2, TotalSame DEF ProductionsOf
      <4> QED
        BY <2>1, <3>1, <3>2, <4>1
    <3>3. CASE c = b
      <4>1. PICK S : S = ProductionsOf(c)
        OBVIOUS
      <4>2. /\ p \in S /\ IsFiniteSet(S) /\ IsFiniteSet(S \ {p}) /\ S \subseteq Productions
            /\ \A r \in S : Produced[r] \in Int /\ Produced'[r] \in Int
        <5>1. p \in S /\ IsFiniteSet(S) /\ S \subseteq Productions
          BY <1>1, <2>3, <3>3, <4>1 DEF ProductionsOf
        <5>2. IsFiniteSet(S \ {p})
          BY <5>1, FS_RemoveElement
        <5>3. Produced'[p] \in Int
          BY <1>3, <2>3, <2>4
        <5> QED
          BY <2>3, <5>1, <5>2, <5>3
      <4>3. PICK v, w : v = Produced /\ w = Produced'
        OBVIOUS
      <4>4. /\ Total(v, S) = v[p] + Total(v, S \ {p})
            /\ Total(w, S) = w[p] + Total(w, S \ {p})
        BY <4>2, <4>3, TotalWithout
      <4>5. Total(v, S \ {p}) = Total(w, S \ {p}) /\ Total(v, S \ {p}) \in Int
        BY <2>3, <4>2, <4>3, TotalSame, TotalInt
      <4>6. Total(w, S) = Total(v, S) + q
        <5>1. w[p] = v[p] + q /\ v[p] \in Int /\ q \in Int
          BY <1>3, <2>3, <2>4, <4>3
        <5> HIDE DEF q
        <5> QED
          BY <4>4, <4>5, <5>1
      <4>7. Total(Requests(c), availability[c].held) \in Int
        BY RequestsAreNumbers, TotalInt DEF StockInv, HoldersAsked
      <4> HIDE DEF q
      <4> QED
        BY <1>2, <1>3, <2>1, <3>1, <3>3, <4>1, <4>3, <4>6, <4>7
    <3> QED
      BY <3>2, <3>3
  <2>6. StockConservation'
    BY <2>5 DEF StockConservation, Requests, Produced, ProductionsOf
  <2> QED
    BY <2>2, <2>6 DEF StockInv
<1>6. \/ UNCHANGED <<availability, applied>>
      \/ /\ availability' = [availability EXCEPT ![b] = UpdateDueToProductionOrder(a, q)]
         /\ applied' = [applied EXCEPT ![p] = applied[p] + 1]
  BY <1>1, <1>2 DEF UpdateAvailabilityDueToProductionOrder
<1> QED
  BY <1>4, <1>5, <1>6

LEMMA NextStock ==
  ASSUME \A o \in Orders : DistinctBeers(o), IsFiniteSet(Productions),
         IInv, StockInv, [Next]_vars
  PROVE  StockInv'
<1>1. CASE UNCHANGED <<availability, applied>>
  BY <1>1 DEF StockInv, StockConservation, HoldersAsked
<1>2. ASSUME NEW o \in Orders,
             \/ PlaceSalesOrder(o) \/ SalesStep(o) \/ OnSalesOrderCreated(o)
             \/ TimeoutInFlight(o) \/ \E b \in Beers : SagaStep(o, b)
      PROVE  UNCHANGED <<availability, applied>>
  BY <1>2 DEF PlaceSalesOrder, SalesStep, CreateSalesOrder, PublishSalesOrderCreated,
     OnAllocationCompleted, OnAllocationRejected, MarkAllocated, MarkAllocationRejected,
     MarkSettled, OnSalesOrderCreated, TimeoutInFlight, SagaStep, OnBeerAvailabilityUpdated,
     OnQuantityNotFound, OnAvailabilityCompensated, SaveThenSend, Ignored
<1>3. CASE \/ ResumeInFlight \/ Redrive \/ UNCHANGED vars
           \/ \E m \in bus : Park(m)
           \/ \E p \in Productions : PlaceProductionOrder(p)
  BY <1>1, <1>3 DEF ResumeInFlight, Redrive, Park, PlaceProductionOrder, vars
<1> QED
  BY <1>1, <1>2, <1>3, StockAllocated, StockCompensated, StockProduced DEF Next, RowStep

\* Handling a command twice, late or after a compensation neither makes nor
\* destroys stock (UpdateDueToSalesOrder and CompensateDueToFailedAllocation
\* check held): for any finite number of production orders and for orders that
\* name a beer once, what is for sale plus what orders hold is what production
\* added, under every fault of the model, restarts and the watchdog included.
THEOREM StockIsConserved ==
  ASSUME \A o \in Orders : DistinctBeers(o), IsFiniteSet(Productions)
  PROVE  Spec => []StockConservation
<1>1. ASSUME Init
      PROVE  StockInv
  <2>1. \A b \in Beers : availability[b].quantity = 0 /\ availability[b].held = {}
    BY <1>1 DEF Init, NewAvailability
  <2>2. HoldersAsked
    BY <2>1, FS_EmptySet DEF HoldersAsked
  <2>3. ASSUME NEW b \in Beers
        PROVE  availability[b].quantity + Total(Requests(b), availability[b].held)
                 = Total(Produced, ProductionsOf(b))
    <3>1. Total(Requests(b), {}) = 0
      BY TotalUnfolds, FS_EmptySet
    <3>2. IsFiniteSet(ProductionsOf(b))
      BY FS_Subset DEF ProductionsOf
    <3>3. \A p \in ProductionsOf(b) : Produced[p] = 0
      BY <1>1, AllocationAssumption DEF Init, Produced, ProductionsOf, AllocationAssumption, Line
    <3>4. Total(Produced, ProductionsOf(b)) = 0
      BY <3>2, <3>3, TotalOfNothing
    <3>5. Total(Requests(b), availability[b].held) = 0 /\ availability[b].quantity = 0
      BY <2>1, <3>1
    <3> QED
      BY <3>4, <3>5
  <2>4. StockConservation
    BY <2>3 DEF StockConservation, Requests, Produced, ProductionsOf
  <2> QED
    BY <2>2, <2>4 DEF StockInv
<1>2. IInv /\ StockInv /\ [Next]_vars => StockInv'
  BY NextStock
<1>3. StockInv => StockConservation
  BY DEF StockInv
<1> QED
  BY <1>1, <1>2, <1>3, IInvAlways, PTL DEF Spec
=============================================================================
