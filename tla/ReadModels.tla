----------------------------- MODULE ReadModels -----------------------------
(***************************************************************************)
(* The read models: the sales-order projection (SalesOrderCreatedEvent-    *)
(* Handler, AllocationStatusProjector), the availability projection        *)
(* (AvailabilityProjector), both over their Postgres tables, and the       *)
(* rebuild command that replays the streams while the API keeps running.   *)
(* Without a database they are maps in memory, which nobody rebuilds.      *)
(*                                                                         *)
(* Every event type is a topic with a queue of its own for each projector: *)
(* a queue keeps the order of a stream's events, different queues do not,  *)
(* and GoChannel, which hands each message to a goroutine, keeps none.     *)
(* An event is named by its stream and version.  waiting is what the       *)
(* outbox and the queues still hold; late is what comes out of turn: a     *)
(* second delivery (an aborted outbox batch, a crash before the            *)
(* acknowledgement), or a dead letter that a redrive brings back.  lost is *)
(* history: messages that are gone, because nothing but RabbitMQ and the   *)
(* outbox keeps them.  (A process without a database that restarts has     *)
(* forgotten its streams too: that is left out.)                           *)
(***************************************************************************)
EXTENDS Integers, FiniteSets, Sequences

CONSTANTS Orders, Beers,   \* the aggregates with a projection
          Modes,           \* which of DB_URL and BROKER_URL may be set
          MaxVersion,      \* bound on the length of an Availability stream
          MaxFaults,       \* bound on the number of faults
          MaxRebuilds      \* bound on the number of rebuilds

ASSUME ReadModelsAssumption ==
  /\ Modes \subseteq [durable : BOOLEAN, broker : BOOLEAN]
  /\ Orders \cap Beers = {}      \* stream names carry the aggregate's prefix
  /\ MaxVersion \in Nat

VARIABLES mode,      \* whether DB_URL and BROKER_URL are set
          stream,    \* stream[k]: the events of aggregate k
          waiting,   \* events not yet projected: [key, version]
          late,      \* events delivered out of turn
          lost,      \* events whose message is gone
          row,       \* row[o]: the sales_orders row of order o
          quantity,  \* quantity[b]: the availabilities row of beer b
          rebuild,   \* progress of the rebuild command
          faults,    \* faults so far
          rebuilds   \* rebuilds so far

queueVars == <<waiting, late, lost>>
vars == <<mode, stream, queueVars, row, quantity, rebuild, faults, rebuilds>>

Keys == Orders \cup Beers

NoRow == [kind |-> "none", status |-> "pending"]

NoQuantity == -1

\* A crash, or an error of the database or the broker; a second delivery.
Fault ==
  /\ faults < MaxFaults
  /\ faults' = faults + 1

Idle == [model |-> "none", listed |-> FALSE, left |-> {}, todo |-> << >>]

-----------------------------------------------------------------------------
(* The read-model services.                                                *)

\* The upsert leaves the status alone; a new row gets the column's default.  (What
\* it does to an order it cannot store is Fails, below.)
PostgresCreateSalesOrder(r) == [r EXCEPT !.kind = "order"]

\* The map's entry is replaced, except for a status that is not pending.
InMemoryCreateSalesOrder(r) ==
  [kind |-> "order",
   status |-> IF r.kind # "none" /\ r.status # "pending" THEN r.status ELSE "pending"]

\* Mutant: the upsert writes the status column too.
CreateSalesOrderOverwriting(r) == [kind |-> "order", status |-> "pending"]

CreateSalesOrder(r) ==
  IF mode.durable THEN PostgresCreateSalesOrder(r) ELSE InMemoryCreateSalesOrder(r)

\* A stub row takes the status of an order that has no row yet: the insert of an
\* upsert, or an entry added to the map first.
PostgresUpdateAllocationStatus(r, status) ==
  IF r = NoRow THEN [kind |-> "stub", status |-> status] ELSE [r EXCEPT !.status = status]

InMemoryUpdateAllocationStatus(r, status) ==
  [kind |-> IF r.kind = "none" THEN "stub" ELSE r.kind, status |-> status]

UpdateAllocationStatus(r, status) ==
  IF mode.durable THEN PostgresUpdateAllocationStatus(r, status)
                  ELSE InMemoryUpdateAllocationStatus(r, status)

\* The row of a beer is overwritten, whatever it says.
UpsertAvailability(old, e) == e.quantity

\* What the projector of e's type does to the row of order o.
ProjectedRow(r, e) ==
  CASE e.type = "SalesOrderCreated" -> CreateSalesOrder(r)
    [] e.type = "SalesOrderAllocated" -> UpdateAllocationStatus(r, "allocated")
    [] e.type = "SalesOrderAllocationRejected" -> UpdateAllocationStatus(r, "rejected")

\* Event e of aggregate k reaches its projector; every stock event carries the
\* new cumulative quantity, so projecting is a plain upsert.
Project(k, e) ==
  /\ row' = IF k \in Orders THEN [row EXCEPT ![k] = ProjectedRow(@, e)] ELSE row
  /\ quantity' = IF k \in Beers THEN [quantity EXCEPT ![k] = UpsertAvailability(@, e)] ELSE quantity

-----------------------------------------------------------------------------
(* The write side, as far as the projections see it.                       *)

\* With a database the event and its outbox row are one transaction.  Without one
\* the event is published after it was appended: if that fails, nobody repeats it.
Commit(k, e) ==
  LET m == [key |-> k, version |-> Len(stream[k]) + 1]
  IN  /\ stream' = [stream EXCEPT ![k] = Append(@, e)]
      /\ \/ waiting' = waiting \cup {m} /\ UNCHANGED <<lost, faults>>
         \/ ~mode.durable /\ Fault /\ lost' = lost \cup {m} /\ UNCHANGED waiting
      /\ UNCHANGED <<mode, late, row, quantity, rebuild, rebuilds>>

\* Nothing keeps an order from naming a beer in two of its rows.
OrderCreated(o) ==
  /\ stream[o] = << >>
  /\ \E twice \in BOOLEAN : Commit(o, [type |-> "SalesOrderCreated", twice |-> twice])

OrderSettled(o) ==
  /\ Len(stream[o]) = 1
  /\ \E type \in {"SalesOrderAllocated", "SalesOrderAllocationRejected"} :
       Commit(o, [type |-> type])

\* The quantity on hand, and the quantity orders hold; one unit at a time.
Stock(b) == IF stream[b] = << >> THEN 0 ELSE stream[b][Len(stream[b])].quantity

Held(b) ==
  Cardinality({v \in DOMAIN stream[b] :
    stream[b][v].type = "AvailabilityUpdatedDueToProductionOrder"}) - Stock(b)

\* A production, an allocation the stock allows, or the undoing of one; the
\* event carries the new quantity.  A repeated allocation or compensation
\* re-emits its event with the quantity unchanged.  (A refusal changes no
\* quantity and has no projector: it is left out.)
StockChanged(b) ==
  /\ Len(stream[b]) < MaxVersion
  /\ \/ Commit(b, [type |-> "AvailabilityUpdatedDueToProductionOrder", quantity |-> Stock(b) + 1])
     \/ /\ Stock(b) > 0
        /\ Commit(b, [type |-> "BeerAvailabilityUpdated", quantity |-> Stock(b) - 1])
     \/ /\ Held(b) > 0
        /\ \/ Commit(b, [type |-> "AvailabilityCompensated", quantity |-> Stock(b) + 1])
           \/ Commit(b, [type |-> "BeerAvailabilityUpdated", quantity |-> Stock(b)])
     \/ /\ stream[b] # << >>
        /\ Commit(b, [type |-> "AvailabilityCompensated", quantity |-> Stock(b)])

-----------------------------------------------------------------------------
(* Delivery.                                                               *)

EventOf(m) == stream[m.key][m.version]

\* The rows of an order have its id and the beer's as primary key: the insert of
\* the second row for a beer fails, now and always, and the upsert with it.
Fails(m) ==
  /\ mode.durable
  /\ EventOf(m).type = "SalesOrderCreated"
  /\ EventOf(m).twice

\* No earlier event of the stream is ahead of m in m's queue, if there are queues.
AtHead(m) ==
  mode.broker =>
    \A n \in waiting :
      n.key = m.key /\ EventOf(n).type = EventOf(m).type => m.version <= n.version

\* m leaves its queue, or one copy of it the others.
Taken(m) ==
  \/ m \in waiting /\ AtHead(m) /\ waiting' = waiting \ {m} /\ UNCHANGED late
  \/ m \in late /\ late' = late \ {m} /\ UNCHANGED waiting

Deliver(m) ==
  /\ ~Fails(m)
  /\ Taken(m)
  /\ Project(m.key, EventOf(m))
  /\ UNCHANGED <<mode, stream, lost, rebuild, faults, rebuilds>>

\* The projector gives m up after its retries.  A redrive brings it back, but
\* needs the broker: without one the archive keeps the letter for good.
Park(m) ==
  /\ mode.durable
  /\ \/ Fails(m) /\ UNCHANGED faults
     \/ Fault
  /\ \/ /\ mode.broker
        /\ m \in waiting /\ AtHead(m)
        /\ waiting' = waiting \ {m}
        /\ late' = late \cup {m}
        /\ UNCHANGED lost
     \/ /\ ~mode.broker
        /\ Taken(m)
        /\ lost' = lost \cup {m}
  /\ UNCHANGED <<mode, stream, row, quantity, rebuild, rebuilds>>

\* The process ends while GoChannel holds m.
Lose(m) ==
  /\ mode.durable /\ ~mode.broker
  /\ Fault
  /\ Taken(m)
  /\ lost' = lost \cup {m}
  /\ UNCHANGED <<mode, stream, row, quantity, rebuild, rebuilds>>

DeliverAgain(k) ==
  /\ mode.durable \/ mode.broker
  /\ Fault
  /\ \E v \in DOMAIN stream[k] : late' = late \cup {[key |-> k, version |-> v]}
  /\ UNCHANGED <<mode, stream, waiting, lost, row, quantity, rebuild, rebuilds>>

-----------------------------------------------------------------------------
(* cmd/rebuild: the sales read model, then the availabilities.             *)

\* Mutant: both rebuilds list the streams of one aggregate.
SalesKeysOf(model) == Orders

KeysOf(model) == IF model = "sales" THEN Orders ELSE Beers

Rebuilding == rebuild.model \in {"sales", "warehouses"}

ResetSales ==
  /\ mode.durable
  /\ rebuild.model \in {"none", "failed"}
  /\ rebuilds < MaxRebuilds
  /\ rebuilds' = rebuilds + 1
  /\ row' = [o \in Orders |-> NoRow]
  /\ rebuild' = [Idle EXCEPT !.model = "sales"]
  /\ lost' = {m \in lost : m.key \notin Orders}     \* the streams have them
  /\ UNCHANGED <<mode, stream, waiting, late, quantity, faults>>

\* Mutant: lists the streams of every aggregate, whatever their prefix.
ListAllStreams ==
  /\ Rebuilding
  /\ ~rebuild.listed
  /\ rebuild' = [rebuild EXCEPT !.listed = TRUE,
                                !.left = {k \in Keys : stream[k] # << >>}]
  /\ UNCHANGED <<mode, stream, queueVars, row, quantity, faults, rebuilds>>

ListStreams ==
  /\ Rebuilding
  /\ ~rebuild.listed
  /\ rebuild' = [rebuild EXCEPT !.listed = TRUE,
                                !.left = {k \in KeysOf(rebuild.model) : stream[k] # << >>}]
  /\ UNCHANGED <<mode, stream, queueVars, row, quantity, faults, rebuilds>>

ReadStream(k) ==
  /\ rebuild.todo = << >>
  /\ k \in rebuild.left
  /\ rebuild' = [rebuild EXCEPT !.left = @ \ {k},
                                !.todo = [v \in DOMAIN stream[k] |-> [key |-> k, version |-> v]]]
  /\ UNCHANGED <<mode, stream, queueVars, row, quantity, faults, rebuilds>>

Replay ==
  /\ rebuild.todo # << >>
  /\ ~Fails(Head(rebuild.todo))
  /\ Project(Head(rebuild.todo).key, EventOf(Head(rebuild.todo)))
  /\ rebuild' = [rebuild EXCEPT !.todo = Tail(@)]
  /\ UNCHANGED <<mode, stream, queueVars, faults, rebuilds>>

Replayed == rebuild.listed /\ rebuild.left = {} /\ rebuild.todo = << >>

ResetAvailabilities ==
  /\ rebuild.model = "sales"
  /\ Replayed
  /\ quantity' = [b \in Beers |-> NoQuantity]
  /\ rebuild' = [Idle EXCEPT !.model = "warehouses"]
  /\ lost' = {m \in lost : m.key \notin Beers}
  /\ UNCHANGED <<mode, stream, waiting, late, row, faults, rebuilds>>

RebuildCompleted ==
  /\ rebuild.model = "warehouses"
  /\ Replayed
  /\ rebuild' = Idle
  /\ UNCHANGED <<mode, stream, queueVars, row, quantity, faults, rebuilds>>

\* An event cannot be projected, a query or an upsert fails, or the command is
\* stopped: the tables stay as they are until an operator runs it again.
RebuildFailed ==
  /\ Rebuilding
  /\ \/ rebuild.todo # << >> /\ Fails(Head(rebuild.todo)) /\ UNCHANGED faults
     \/ Fault
  /\ rebuild' = [Idle EXCEPT !.model = "failed"]
  /\ UNCHANGED <<mode, stream, queueVars, row, quantity, rebuilds>>

Init ==
  /\ mode \in Modes
  /\ stream = [k \in Keys |-> << >>]
  /\ waiting = {} /\ late = {} /\ lost = {}
  /\ row = [o \in Orders |-> NoRow]
  /\ quantity = [b \in Beers |-> NoQuantity]
  /\ rebuild = Idle
  /\ faults = 0
  /\ rebuilds = 0

Next ==
  \/ \E o \in Orders : OrderCreated(o) \/ OrderSettled(o)
  \/ \E b \in Beers : StockChanged(b)
  \/ \E m \in waiting \cup late : Deliver(m) \/ Park(m) \/ Lose(m)
  \/ \E k \in Keys : DeliverAgain(k) \/ ReadStream(k)
  \/ ResetSales
  \/ ListStreams
  \/ Replay
  \/ ResetAvailabilities
  \/ RebuildCompleted
  \/ RebuildFailed

Spec == Init /\ [][Next]_vars

-----------------------------------------------------------------------------
\* The rows, the queues and the rebuild hold what they may hold.
TypeOK ==
  /\ mode \in Modes
  /\ \A m \in waiting \cup late \cup lost : m.key \in Keys /\ m.version \in DOMAIN stream[m.key]
  /\ row \in [Orders -> [kind : {"none", "stub", "order"},
                         status : {"pending", "allocated", "rejected"}]]
  /\ quantity \in [Beers -> 0..MaxVersion \cup {NoQuantity}]
  /\ rebuild.model \in {"none", "sales", "warehouses", "failed"}
  /\ rebuild.left \subseteq KeysOf(rebuild.model)

\* Nothing about k is on its way to the read model, no rebuild of it is under way
\* or has failed, and, unless there are both a database and a broker, nothing
\* about it was lost since it was last rebuilt.
Quiet(k) ==
  /\ \A m \in waiting \cup late : m.key # k
  /\ rebuild.model # "failed"
  /\ Rebuilding => k \notin KeysOf(rebuild.model)
  /\ (mode.durable /\ mode.broker) \/ \A m \in lost : m.key # k

\* What the stream of an order says its row should be.
ExpectedRow(o) ==
  LET s == stream[o]
  IN  IF s = << >> THEN NoRow
      ELSE [kind |-> "order",
            status |-> CASE Len(s) = 1 -> "pending"
                         [] s[Len(s)].type = "SalesOrderAllocated" -> "allocated"
                         [] OTHER -> "rejected"]

\* Once its events are delivered, an order's row is what its stream says,
\* whatever came first, twice or was parked and redriven, and although a rebuild
\* ran meanwhile.  (Without a database or a broker, unless an event was lost.  An
\* order that cannot be stored is never quiet: its creation stays undelivered.)
SalesConverges == \A o \in Orders : Quiet(o) => row[o] = ExpectedRow(o)

\* A client that polls never sees a settled order pending again, except while
\* a rebuild has emptied the table.
SettledStatusKept ==
  [][\A o \in Orders :
       row[o].status # "pending" => row'[o].status = row[o].status \/ row'[o] = NoRow]_vars

\* A beer whose events are delivered is in the list of availabilities, whatever
\* it says there: no rebuild that ran between its events has swept it away.
BeersListed ==
  \A b \in Beers : Quiet(b) /\ ~Rebuilding /\ stream[b] # << >> => quantity[b] # NoQuantity

\* "The read model can be reconstructed from the source of truth at any time": a
\* rebuild fails only if the database did, or somebody stopped it.
RebuildReconstructs == rebuild.model = "failed" => faults > 0

\* The read side "lags the write side by a heartbeat": once its events are
\* delivered, a beer's row shows the quantity of its last event.
AvailabilityConverges ==
  \A b \in Beers : Quiet(b) /\ stream[b] # << >>
    => quantity[b] = stream[b][Len(stream[b])].quantity
=============================================================================
