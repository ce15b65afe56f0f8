-------------------------- MODULE ReadModelsProofs --------------------------
(***************************************************************************)
(* Proofs about ReadModels, for any orders, beers, modes, lengths of the   *)
(* streams, faults and rebuilds.                                           *)
(*                                                                         *)
(* The argument: an event of a stream has left its mark on the row, or it  *)
(* is still coming, from a queue, as a dead letter or from a rebuild, or   *)
(* it was lost (EventsCount), which a database and a broker rule out       *)
(* (NothingLost); and no mark on an order's row is ever undone, because    *)
(* the row only shows what the stream says (RowsTrue).  The mark on a      *)
(* beer's row is that there is one.                                        *)
(***************************************************************************)
EXTENDS ReadModels, TLAPS

Rows == [kind : {"none", "stub", "order"}, status : {"pending", "allocated", "rejected"}]

Settling == {"SalesOrderAllocated", "SalesOrderAllocationRejected"}

Creating == [type : {"SalesOrderCreated"}, twice : BOOLEAN]

OrderEvents == Creating \cup [type : Settling]

StockEvents ==
  [type : {"AvailabilityUpdatedDueToProductionOrder", "BeerAvailabilityUpdated",
           "AvailabilityCompensated"},
   quantity : Int]

Entries == [key : Keys, version : Int]

\* The status a settling event brings.
StatusOf(e) == IF e.type = "SalesOrderAllocated" THEN "allocated" ELSE "rejected"

\* An order is created and settled, in that order; a stock event has a quantity
\* no greater than its version.
StreamsTrue ==
  /\ stream \in [Keys -> Seq(OrderEvents \cup StockEvents)]
  /\ \A o \in Orders :
       /\ Len(stream[o]) <= 2
       /\ Len(stream[o]) >= 1 => stream[o][1] \in Creating
       /\ Len(stream[o]) = 2 => stream[o][2] \in [type : Settling]
  /\ \A b \in Beers :
       /\ Len(stream[b]) <= MaxVersion
       /\ \A v \in 1..Len(stream[b]) :
            stream[b][v] \in StockEvents /\ stream[b][v].quantity \in 0..v

\* An entry of a queue or of a rebuild names an event of a stream.
Points(m) == m \in Entries /\ m.version \in 1..Len(stream[m.key])

\* The messages there are and those that are gone.
Sent == waiting \cup late \cup lost

EntriesTrue ==
  /\ \A m \in Sent : Points(m)
  /\ rebuild \in [model : {"none", "sales", "warehouses", "failed"}, listed : BOOLEAN,
                  left : SUBSET Keys, todo : Seq(Entries)]
  /\ rebuild.left \subseteq KeysOf(rebuild.model)
  /\ \A i \in 1..Len(rebuild.todo) : Points(rebuild.todo[i])

\* A row shows nothing that the stream does not say.
RowTrue(o) ==
  /\ row[o].kind = "none" => row[o].status = "pending"
  /\ stream[o] = << >> => row[o] = NoRow
  /\ row[o].status # "pending" => Len(stream[o]) = 2 /\ row[o].status = StatusOf(stream[o][2])

RowsTrue ==
  /\ row \in [Orders -> Rows]
  /\ \A o \in Orders : RowTrue(o)

StockTrue == quantity \in [Beers -> 0..MaxVersion \cup {NoQuantity}]

Entry(k, v) == [key |-> k, version |-> v]

\* The read model of k is being rebuilt.
Rebuilt(k) ==
  \/ rebuild.model = "sales" /\ k \in Orders
  \/ rebuild.model = "warehouses" /\ k \in Beers

\* Event v of k will be projected, now or by a rebuild, unless it was lost.
Coming(k, v) ==
  \/ Entry(k, v) \in Sent
  \/ rebuild.model = "failed"
  \/ rebuild.model = "sales" /\ k \in Beers
  \/ /\ Rebuilt(k)
     /\ \/ ~rebuild.listed
        \/ k \in rebuild.left
        \/ \E i \in 1..Len(rebuild.todo) : rebuild.todo[i] = Entry(k, v)

\* The mark event v of k leaves on its row.
Marked(k, v) ==
  IF k \in Beers THEN quantity[k] # NoQuantity
  ELSE IF v = 1 THEN row[k].kind = "order" ELSE row[k].status = StatusOf(stream[k][v])

EventsCount ==
  \A k \in Keys : \A v \in 1..Len(stream[k]) : Coming(k, v) \/ Marked(k, v)

\* The outbox and RabbitMQ keep every message.
NothingLost == mode.durable /\ mode.broker => lost = {}

Inv ==
  /\ mode \in Modes
  /\ NothingLost
  /\ StreamsTrue
  /\ EntriesTrue
  /\ RowsTrue
  /\ StockTrue
  /\ EventsCount

-----------------------------------------------------------------------------
(* Operators.                                                              *)

LEMMA ConstantFacts ==
  /\ Orders \cap Beers = {} /\ MaxVersion \in Nat
  /\ Orders \subseteq Keys /\ Beers \subseteq Keys
  /\ NoRow \in Rows /\ NoRow.kind = "none" /\ NoRow.status = "pending"
BY ReadModelsAssumption DEF Keys, NoRow, Rows

\* What the upserts of both stores do to a row: the order's event brings the
\* order and keeps the status, a settling event brings its status and keeps the
\* order.
LEMMA ProjectedFacts ==
  ASSUME NEW r \in Rows, r.kind = "none" => r.status = "pending", NEW e \in OrderEvents
  PROVE  LET p == ProjectedRow(r, e)
         IN  /\ p \in Rows /\ p.kind # "none"
             /\ e.type = "SalesOrderCreated" => p.kind = "order" /\ p.status = r.status
             /\ e.type # "SalesOrderCreated" =>
                  p.status = StatusOf(e) /\ (r.kind = "order" => p.kind = "order")
<1>1. r.kind = "none" => r = NoRow
  BY DEF NoRow, Rows
<1>2. LET p == CreateSalesOrder(r)
      IN  p \in Rows /\ p.kind = "order" /\ p.status = r.status
  <2>1. LET p == PostgresCreateSalesOrder(r)
        IN  p \in Rows /\ p.kind = "order" /\ p.status = r.status
    BY DEF PostgresCreateSalesOrder, Rows
  <2>2. LET p == InMemoryCreateSalesOrder(r)
        IN  p \in Rows /\ p.kind = "order" /\ p.status = r.status
    BY DEF InMemoryCreateSalesOrder, Rows
  <2> QED
    BY <2>1, <2>2 DEF CreateSalesOrder
<1>3. ASSUME NEW status \in {"allocated", "rejected"}
      PROVE  LET p == UpdateAllocationStatus(r, status)
             IN  /\ p \in Rows /\ p.kind # "none" /\ p.status = status
                 /\ r.kind = "order" => p.kind = "order"
  <2>1. LET p == PostgresUpdateAllocationStatus(r, status)
        IN  /\ p \in Rows /\ p.kind # "none" /\ p.status = status
            /\ r.kind = "order" => p.kind = "order"
    <3>1. CASE r = NoRow
      BY <3>1 DEF PostgresUpdateAllocationStatus, Rows, NoRow
    <3>2. CASE r # NoRow
      BY <1>1, <3>2 DEF PostgresUpdateAllocationStatus, Rows
    <3> QED
      BY <3>1, <3>2
  <2>2. LET p == InMemoryUpdateAllocationStatus(r, status)
        IN  /\ p \in Rows /\ p.kind # "none" /\ p.status = status
            /\ r.kind = "order" => p.kind = "order"
    BY DEF InMemoryUpdateAllocationStatus, Rows
  <2> QED
    BY <2>1, <2>2 DEF UpdateAllocationStatus
<1>4. CASE e.type = "SalesOrderCreated"
  BY <1>2, <1>4 DEF ProjectedRow
<1>5. CASE e.type = "SalesOrderAllocated"
  BY <1>3, <1>5 DEF ProjectedRow, StatusOf
<1>6. CASE e.type = "SalesOrderAllocationRejected"
  BY <1>3, <1>6 DEF ProjectedRow, StatusOf
<1> QED
  BY <1>4, <1>5, <1>6 DEF OrderEvents, Creating, Settling

\* The events of an order's stream, by version.
LEMMA OrderStreamFacts ==
  ASSUME StreamsTrue, NEW o \in Orders, NEW v \in 1..Len(stream[o])
  PROVE  /\ stream[o][v] \in OrderEvents
         /\ v \in {1, 2}
         /\ v = 1 => stream[o][v].type = "SalesOrderCreated"
         /\ v = 2 => Len(stream[o]) = 2 /\ stream[o][v].type # "SalesOrderCreated"
<1>1. stream[o] \in Seq(OrderEvents \cup StockEvents)
  BY ConstantFacts DEF StreamsTrue
<1>2. Len(stream[o]) \in Nat /\ Len(stream[o]) <= 2
  BY <1>1 DEF StreamsTrue
<1>3. v \in {1, 2} /\ (v = 2 => Len(stream[o]) = 2) /\ Len(stream[o]) >= 1
  <2>1. ASSUME NEW n \in Nat, n <= 2, NEW w \in 1..n
        PROVE  (w = 1 \/ w = 2) /\ (w = 2 => n = 2) /\ n >= 1
    BY <2>1
  <2> QED
    BY <1>2, <2>1
<1>4. CASE v = 1
  BY <1>3, <1>4 DEF StreamsTrue, OrderEvents, Creating
<1>5. CASE v = 2
  BY <1>3, <1>5 DEF StreamsTrue, OrderEvents, Settling
<1> QED
  BY <1>3, <1>4, <1>5

\* Projecting an event of an order's stream leaves its mark, leaves the other
\* marks alone, and keeps a settled status.
LEMMA ProjectOrder ==
  ASSUME Inv, NEW m, Points(m), Project(m.key, EventOf(m)), UNCHANGED <<mode, stream>>
  PROVE  /\ RowsTrue' /\ StockTrue'
         /\ Marked(m.key, m.version)'
         /\ \A k \in Keys : \A v \in 1..Len(stream[k]) : Marked(k, v) => Marked(k, v)'
         /\ \A o \in Orders : row[o].status # "pending" => row'[o].status = row[o].status
<1>1. /\ m.key \in Keys /\ m.version \in 1..Len(stream[m.key])
      /\ row \in [Orders -> Rows] /\ \A o \in Orders : RowTrue(o)
      /\ StreamsTrue /\ stream' = stream /\ StockTrue
  BY DEF Inv, Points, Entries, RowsTrue
<1>2. CASE m.key \in Orders
  <2> DEFINE k == m.key
             e == stream[k][m.version]
             p == ProjectedRow(row[k], e)
  <2>1. k \notin Beers /\ e = EventOf(m)
    BY <1>2, ConstantFacts DEF EventOf
  <2>2. row' = [row EXCEPT ![k] = p] /\ quantity' = quantity
    BY <1>2, <2>1 DEF Project
  <2>3. /\ e \in OrderEvents /\ m.version \in {1, 2}
        /\ m.version = 1 => e.type = "SalesOrderCreated"
        /\ m.version = 2 => Len(stream[k]) = 2 /\ e.type # "SalesOrderCreated"
    BY <1>1, <1>2, OrderStreamFacts
  <2>4. /\ p \in Rows /\ p.kind # "none"
        /\ e.type = "SalesOrderCreated" => p.kind = "order" /\ p.status = row[k].status
        /\ e.type # "SalesOrderCreated" =>
             p.status = StatusOf(e) /\ (row[k].kind = "order" => p.kind = "order")
    BY <1>1, <1>2, <2>3, ProjectedFacts DEF RowTrue
  <2>5. row' \in [Orders -> Rows] /\ row'[k] = p
    BY <1>1, <1>2, <2>2, <2>4
  <2>6. \A o \in Orders : o # k => row'[o] = row[o]
    BY <1>1, <1>2, <2>2
  <2>7. stream[k] # << >>
    BY <1>1
  <2>8. /\ p.status # "pending" => Len(stream[k]) = 2 /\ p.status = StatusOf(stream[k][2])
        /\ row[k].status # "pending" => p.status = row[k].status
    BY <1>1, <1>2, <2>3, <2>4 DEF RowTrue
  <2>9. RowTrue(k)'
    BY <1>1, <2>4, <2>5, <2>7, <2>8 DEF RowTrue
  <2>10. \A o \in Orders : o # k => RowTrue(o)'
    BY <1>1, <2>6 DEF RowTrue
  <2>11. Marked(k, m.version)'
    BY <1>1, <2>1, <2>3, <2>4, <2>5 DEF Marked
  <2>12. ASSUME NEW v \in 1..Len(stream[k]), Marked(k, v)
         PROVE  Marked(k, v)'
    <3>1. v = 1 \/ (v = 2 /\ Len(stream[k]) = 2)
      BY <1>1, <1>2, OrderStreamFacts
    <3>2. CASE v = 1
      BY <2>1, <2>3, <2>4, <2>5, <2>12, <3>2 DEF Marked
    <3>3. CASE v = 2
      <4>1. row[k].status = StatusOf(stream[k][2])
        BY <2>1, <2>12, <3>3 DEF Marked
      <4>2. row[k].status # "pending"
        BY <4>1 DEF StatusOf
      <4> QED
        BY <1>1, <2>1, <2>5, <2>8, <3>3, <4>1, <4>2 DEF Marked
    <3> QED
      BY <3>1, <3>2, <3>3
  <2>13. \A j \in Keys : j # k => \A v \in 1..Len(stream[j]) : Marked(j, v) => Marked(j, v)'
    BY <1>1, <2>2, <2>6 DEF Marked, Keys
  <2>14. StockTrue'
    BY <1>1, <2>2 DEF StockTrue
  <2> QED
    BY <1>1, <2>5, <2>6, <2>8, <2>9, <2>10, <2>11, <2>12, <2>13, <2>14 DEF RowsTrue
<1>3. CASE m.key \notin Orders
  <2>1. m.key \in Beers /\ row' = row
    BY <1>1, <1>3 DEF Keys, Project
  <2>2. quantity' = [quantity EXCEPT ![m.key] = stream[m.key][m.version].quantity]
    BY <2>1 DEF Project, EventOf, UpsertAvailability
  <2>3. stream[m.key] \in Seq(OrderEvents \cup StockEvents)
    BY <1>1 DEF StreamsTrue
  <2>4. Len(stream[m.key]) \in Nat /\ Len(stream[m.key]) <= MaxVersion
    BY <1>1, <2>1, <2>3 DEF StreamsTrue
  <2>5. stream[m.key][m.version].quantity \in 0..m.version
    BY <1>1, <2>1 DEF StreamsTrue
  <2>6. stream[m.key][m.version].quantity \in 0..MaxVersion
    BY <1>1, <2>4, <2>5, ConstantFacts
  <2>7. StockTrue'
    BY <1>1, <2>1, <2>2, <2>6 DEF StockTrue
  <2>8. RowsTrue'
    BY <1>1, <2>1 DEF RowsTrue, RowTrue
  <2>9. quantity'[m.key] # NoQuantity /\ \A b \in Beers : b # m.key => quantity'[b] = quantity[b]
    BY <1>1, <2>1, <2>2, <2>6, ConstantFacts DEF StockTrue, NoQuantity
  <2>10. Marked(m.key, m.version)'
    BY <2>1, <2>9 DEF Marked
  <2>11. \A k \in Keys : \A v \in 1..Len(stream[k]) : Marked(k, v) => Marked(k, v)'
    BY <1>1, <2>1, <2>9 DEF Marked
  <2> QED
    BY <1>1, <2>1, <2>7, <2>8, <2>10, <2>11
<1> QED
  BY <1>2, <1>3

-----------------------------------------------------------------------------
(* The steps.                                                              *)

\* Committing an event puts it in the queues and leaves the rest of the streams
\* as they were.
LEMMA CommitStep ==
  ASSUME Inv, NEW k \in Keys, NEW e \in OrderEvents \cup StockEvents, Commit(k, e),
         k \in Orders => \/ stream[k] = << >> /\ e \in Creating
                         \/ Len(stream[k]) = 1 /\ e \in [type : Settling],
         k \in Beers => /\ Len(stream[k]) < MaxVersion
                        /\ e \in StockEvents /\ e.quantity \in 0..(Len(stream[k]) + 1)
  PROVE  Inv' /\ row' = row
<1> DEFINE n == Len(stream[k])
           s == Append(stream[k], e)
<1>1. /\ stream \in [Keys -> Seq(OrderEvents \cup StockEvents)]
      /\ stream' = [stream EXCEPT ![k] = s]
      /\ Sent' = Sent \cup {Entry(k, n + 1)}
      /\ UNCHANGED <<mode, row, quantity, rebuild>>
  BY DEF Inv, StreamsTrue, Commit, Entry, Sent
<1>2. /\ stream[k] \in Seq(OrderEvents \cup StockEvents) /\ n \in Nat
      /\ s \in Seq(OrderEvents \cup StockEvents) /\ Len(s) = n + 1
      /\ \A v \in 1..n : s[v] = stream[k][v]
      /\ s[n + 1] = e
  BY <1>1
<1>3. /\ stream' \in [Keys -> Seq(OrderEvents \cup StockEvents)]
      /\ stream'[k] = s /\ \A j \in Keys : j # k => stream'[j] = stream[j]
  BY <1>1, <1>2
<1>4. \A j \in Keys : /\ Len(stream[j]) \in Nat /\ Len(stream'[j]) \in Nat
                      /\ Len(stream[j]) <= Len(stream'[j])
                      /\ \A v \in 1..Len(stream[j]) : stream'[j][v] = stream[j][v]
  <2>1. ASSUME NEW j \in Keys
        PROVE  stream[j] \in Seq(OrderEvents \cup StockEvents)
    BY <1>1
  <2> QED
    BY <1>2, <1>3, <2>1
<1> HIDE DEF n, s
<1>5. StreamsTrue'
  <2>1. ASSUME NEW o \in Orders
        PROVE  /\ Len(stream'[o]) <= 2
               /\ Len(stream'[o]) >= 1 => stream'[o][1] \in Creating
               /\ Len(stream'[o]) = 2 => stream'[o][2] \in [type : Settling]
    <3>1. /\ Len(stream[o]) <= 2
          /\ Len(stream[o]) >= 1 => stream[o][1] \in Creating
          /\ Len(stream[o]) = 2 => stream[o][2] \in [type : Settling]
      BY DEF Inv, StreamsTrue
    <3>2. CASE o # k
      BY <1>3, <3>1, <3>2, ConstantFacts
    <3>3. CASE o = k
      <4>1. CASE stream[k] = << >> /\ e \in Creating
        <5>1. n = 0
          BY <4>1 DEF n
        <5>2. Len(s) = 1 /\ s[1] = e
          BY <1>2, <5>1
        <5>3. stream'[o] = s
          BY <1>3, <3>3
        <5>4. Len(stream'[o]) = 1 /\ stream'[o][1] \in Creating
          BY <4>1, <5>2, <5>3
        <5> QED
          BY <5>4
      <4>2. CASE Len(stream[k]) = 1 /\ e \in [type : Settling]
        <5>1. n = 1
          BY <4>2 DEF n
        <5>2. Len(s) = 2 /\ s[2] = e /\ s[1] = stream[k][1]
          BY <1>2, <5>1
        <5>3. stream'[o] = s
          BY <1>3, <3>3
        <5>4. /\ Len(stream'[o]) = 2 /\ stream'[o][2] \in [type : Settling]
              /\ stream'[o][1] \in Creating
          BY <3>1, <3>3, <4>2, <5>2, <5>3
        <5> QED
          BY <5>4
      <4> QED
        BY <3>3, <4>1, <4>2
    <3> QED
      BY <3>2, <3>3
  <2>2. ASSUME NEW b \in Beers
        PROVE  /\ Len(stream'[b]) <= MaxVersion
               /\ \A v \in 1..Len(stream'[b]) :
                    stream'[b][v] \in StockEvents /\ stream'[b][v].quantity \in 0..v
    <3>1. /\ Len(stream[b]) <= MaxVersion
          /\ \A v \in 1..Len(stream[b]) :
               stream[b][v] \in StockEvents /\ stream[b][v].quantity \in 0..v
      BY DEF Inv, StreamsTrue
    <3>2. CASE b # k
      BY <1>3, <3>1, <3>2, ConstantFacts
    <3>3. CASE b = k
      <4>1. n < MaxVersion /\ e \in StockEvents /\ e.quantity \in 0..(n + 1)
        BY <3>3 DEF n
      <4>2. \A v \in 1..n : s[v] \in StockEvents /\ s[v].quantity \in 0..v
        BY <1>2, <3>1, <3>3 DEF n
      <4>3. \A v \in 1..(n + 1) : v \in 1..n \/ v = n + 1
        BY <1>2
      <4>4. n + 1 <= MaxVersion
        BY <1>2, <4>1, ConstantFacts
      <4> QED
        BY <1>2, <1>3, <3>3, <4>1, <4>2, <4>3, <4>4
    <3> QED
      BY <3>2, <3>3
  <2> QED
    BY <1>3, <2>1, <2>2 DEF StreamsTrue
<1>6. ASSUME NEW m, Points(m)
      PROVE  Points(m)'
  <2>1. m \in Entries /\ m.version \in 1..Len(stream[m.key]) /\ m.key \in Keys
    BY <1>6 DEF Points, Entries
  <2>2. m.version \in 1..Len(stream'[m.key])
    BY <1>4, <2>1
  <2> QED
    BY <2>1, <2>2 DEF Points
<1>7. EntriesTrue'
  <2>1. ASSUME NEW m, m = Entry(k, n + 1)
        PROVE  Points(m)'
    <3>1. n + 1 \in 1..Len(stream'[k])
      BY <1>2, <1>3
    <3>2. m \in Entries /\ m.key = k /\ m.version = n + 1
      BY <1>2, <2>1 DEF Entry, Entries
    <3> QED
      BY <3>1, <3>2 DEF Points
  <2>2. \A m \in Sent' : Points(m)'
    BY <1>1, <1>6, <2>1 DEF Inv, EntriesTrue
  <2>3. \A i \in 1..Len(rebuild.todo) : \A m : m = rebuild.todo[i] => Points(m)'
    BY <1>6 DEF Inv, EntriesTrue
  <2>4. \A i \in 1..Len(rebuild'.todo) : Points(rebuild.todo[i])'
    <3>1. ASSUME NEW i \in 1..Len(rebuild.todo)
          PROVE  /\ rebuild.todo[i] \in Entries
                 /\ rebuild.todo[i].version \in 1..Len(stream'[rebuild.todo[i].key])
      BY <1>6, <2>3 DEF Points
    <3> QED
      BY <1>1, <3>1 DEF Points
  <2>5. rebuild' = rebuild
    BY <1>1
  <2> QED
    BY <2>2, <2>4, <2>5 DEF Inv, EntriesTrue, KeysOf
<1>8. RowsTrue'
  <2>1. ASSUME NEW o \in Orders
        PROVE  RowTrue(o)'
    <3>1. RowTrue(o) /\ row'[o] = row[o] /\ o \in Keys
      BY <1>1, ConstantFacts DEF Inv, RowsTrue
    <3>2. CASE o # k
      BY <1>3, <3>1, <3>2 DEF RowTrue
    <3>3. CASE o = k
      <4>1. n \in {0, 1}
        BY <3>3 DEF n
      <4>2. row[o].status = "pending"
        BY <3>1, <3>3, <4>1 DEF RowTrue, n
      <4>3. stream'[o] # << >>
        BY <1>2, <1>3, <3>3
      <4> QED
        BY <3>1, <4>2, <4>3 DEF RowTrue
    <3> QED
      BY <3>2, <3>3
  <2> QED
    BY <1>1, <2>1 DEF Inv, RowsTrue
<1>9. EventsCount'
  <2>1. ASSUME NEW o \in Keys, NEW v \in 1..Len(stream'[o])
        PROVE  Coming(o, v)' \/ Marked(o, v)'
    <3>1. CASE v \in 1..Len(stream[o])
      <4>1. stream'[o][v] = stream[o][v]
        BY <1>4, <3>1, ConstantFacts
      <4>2. Coming(o, v) \/ Marked(o, v)
        BY <3>1 DEF Inv, EventsCount
      <4>3. Coming(o, v) => Coming(o, v)'
        BY <1>1 DEF Coming, Rebuilt
      <4>4. Marked(o, v) => Marked(o, v)'
        BY <1>1, <4>1 DEF Marked
      <4> QED
        BY <4>2, <4>3, <4>4
    <3>2. CASE v \notin 1..Len(stream[o])
      <4>1. o = k
        BY <1>3, <3>2, ConstantFacts
      <4>2. v = n + 1
        BY <1>2, <1>3, <3>2, <4>1 DEF n
      <4> QED
        BY <1>1, <4>1, <4>2 DEF Coming
    <3> QED
      BY <3>1, <3>2
  <2> QED
    BY <2>1 DEF EventsCount
<1>10. StockTrue' /\ mode' \in Modes
  BY <1>1 DEF Inv, StockTrue
<1>11. NothingLost'
  BY DEF Inv, NothingLost, Commit
<1> QED
  BY <1>1, <1>5, <1>7, <1>8, <1>9, <1>10, <1>11 DEF Inv

LEMMA OrderStep ==
  ASSUME Inv, NEW o \in Orders, OrderCreated(o) \/ OrderSettled(o)
  PROVE  Inv' /\ row' = row
<1>1. o \in Keys /\ o \notin Beers
  BY ConstantFacts
<1>2. CASE OrderCreated(o)
  <2>0. PICK twice \in BOOLEAN : Commit(o, [type |-> "SalesOrderCreated", twice |-> twice])
    BY <1>2 DEF OrderCreated
  <2> DEFINE e == [type |-> "SalesOrderCreated", twice |-> twice]
  <2>1. e \in OrderEvents \cup StockEvents /\ e \in Creating
    BY DEF OrderEvents, Creating
  <2>2. stream[o] = << >> /\ Commit(o, e)
    BY <1>2, <2>0 DEF OrderCreated
  <2> QED
    BY <1>1, <2>1, <2>2, CommitStep
<1>3. CASE OrderSettled(o)
  <2>1. PICK type \in Settling : Commit(o, [type |-> type])
    BY <1>3 DEF OrderSettled, Settling
  <2> DEFINE e == [type |-> type]
  <2>2. e \in OrderEvents \cup StockEvents /\ e \in [type : Settling]
    BY DEF OrderEvents
  <2>3. Len(stream[o]) = 1 /\ Commit(o, e)
    BY <1>3, <2>1 DEF OrderSettled
  <2> QED
    BY <1>1, <2>2, <2>3, CommitStep
<1> QED
  BY <1>2, <1>3

LEMMA StockFacts ==
  ASSUME StreamsTrue, NEW b \in Beers
  PROVE  Len(stream[b]) \in Nat /\ Stock(b) \in 0..Len(stream[b])
<1>1. stream[b] \in Seq(OrderEvents \cup StockEvents)
  BY ConstantFacts DEF StreamsTrue
<1>2. CASE stream[b] = << >>
  BY <1>1, <1>2 DEF Stock
<1>3. CASE stream[b] # << >>
  <2>1. Len(stream[b]) \in 1..Len(stream[b])
    BY <1>1, <1>3
  <2>2. stream[b][Len(stream[b])].quantity \in 0..Len(stream[b])
    BY <2>1 DEF StreamsTrue
  <2> QED
    BY <1>1, <1>3, <2>2 DEF Stock
<1> QED
  BY <1>2, <1>3

LEMMA StockStep ==
  ASSUME Inv, NEW b \in Beers, StockChanged(b)
  PROVE  Inv' /\ row' = row
<1>1. b \in Keys /\ b \notin Orders
  BY ConstantFacts
<1>2. Len(stream[b]) \in Nat /\ Stock(b) \in 0..Len(stream[b])
  BY StockFacts DEF Inv
<1>3. Len(stream[b]) < MaxVersion
  BY DEF StockChanged
<1>4. ASSUME NEW type \in {"AvailabilityUpdatedDueToProductionOrder", "BeerAvailabilityUpdated",
                           "AvailabilityCompensated"},
             NEW q \in 0..(Len(stream[b]) + 1),
             Commit(b, [type |-> type, quantity |-> q])
      PROVE  Inv' /\ row' = row
  <2> DEFINE e == [type |-> type, quantity |-> q]
  <2>1. e \in StockEvents /\ e.quantity \in 0..(Len(stream[b]) + 1)
    BY <1>2 DEF StockEvents
  <2>2. e \in OrderEvents \cup StockEvents /\ Commit(b, e)
    BY <1>4, <2>1
  <2> HIDE DEF e
  <2> QED
    BY <1>1, <1>3, <2>1, <2>2, CommitStep
<1>5. /\ Stock(b) + 1 \in 0..(Len(stream[b]) + 1)
      /\ Stock(b) \in 0..(Len(stream[b]) + 1)
      /\ Stock(b) > 0 => Stock(b) - 1 \in 0..(Len(stream[b]) + 1)
  BY <1>2
<1> QED
  BY <1>4, <1>5 DEF StockChanged

\* A step that leaves the streams and the rows alone, and after which no entry
\* is missing.
LEMMA EntriesStep ==
  ASSUME Inv, UNCHANGED <<mode, stream, row>>, StockTrue', EntriesTrue', NothingLost',
         \A k \in Keys : \A v \in 1..Len(stream[k]) : Coming(k, v) => Coming(k, v)',
         \/ quantity' = quantity
         \/ \A b \in Beers : \A v \in 1..Len(stream[b]) : Coming(b, v)'
  PROVE  Inv'
<1>1. StreamsTrue' /\ RowsTrue' /\ mode' \in Modes
  BY DEF Inv, StreamsTrue, RowsTrue, RowTrue
<1>2. ASSUME NEW k \in Keys, NEW v \in 1..Len(stream[k])
      PROVE  Coming(k, v)' \/ Marked(k, v)'
  BY DEF Inv, EventsCount, Marked
<1>3. EventsCount'
  BY <1>2 DEF EventsCount
<1> QED
  BY <1>1, <1>3 DEF Inv

\* A message leaves a queue; other copies of it may remain.
LEMMA TakenFacts ==
  ASSUME NEW m, Taken(m)
  PROVE  m \in waiting \cup late /\ waiting' \cup late' \subseteq waiting \cup late
         /\ waiting \cup late \subseteq waiting' \cup late' \cup {m}
BY DEF Taken

LEMMA DeliverStep ==
  ASSUME Inv, NEW m \in waiting \cup late, Deliver(m)
  PROVE  Inv' /\ \A o \in Orders : row[o].status # "pending" => row'[o].status = row[o].status
<1>1. /\ Points(m) /\ Project(m.key, EventOf(m))
      /\ UNCHANGED <<mode, stream, lost, rebuild>>
  BY DEF Inv, EntriesTrue, Deliver, Sent
<1>2. /\ RowsTrue' /\ StockTrue'
      /\ Marked(m.key, m.version)'
      /\ \A k \in Keys : \A v \in 1..Len(stream[k]) : Marked(k, v) => Marked(k, v)'
      /\ \A o \in Orders : row[o].status # "pending" => row'[o].status = row[o].status
  BY <1>1, ProjectOrder
<1>3. StreamsTrue' /\ NothingLost' /\ mode' \in Modes
  BY <1>1 DEF Inv, StreamsTrue, NothingLost
<1>4. Sent' \subseteq Sent /\ Sent \subseteq Sent' \cup {m}
  BY <1>1, TakenFacts DEF Deliver, Sent
<1>5. EntriesTrue'
  BY <1>1, <1>4 DEF Inv, EntriesTrue, Points, KeysOf
<1>6. ASSUME NEW o \in Keys, NEW v \in 1..Len(stream[o])
      PROVE  Coming(o, v)' \/ Marked(o, v)'
  <2>1. Coming(o, v) \/ Marked(o, v)
    BY DEF Inv, EventsCount
  <2>2. CASE m = Entry(o, v)
    BY <1>2, <2>2 DEF Entry
  <2>3. CASE m # Entry(o, v)
    BY <1>1, <1>2, <1>4, <2>1, <2>3 DEF Coming, Rebuilt
  <2> QED
    BY <2>2, <2>3
<1>7. EventsCount'
  BY <1>1, <1>6 DEF EventsCount
<1> QED
  BY <1>2, <1>3, <1>5, <1>7 DEF Inv

\* A message that a projector cannot handle, or that ends with the process, is
\* parked or counted as lost.
LEMMA DropStep ==
  ASSUME Inv, NEW m \in waiting \cup late, Park(m) \/ Lose(m)
  PROVE  Inv' /\ row' = row
<1>1. UNCHANGED <<mode, stream, row, quantity, rebuild>>
  BY DEF Park, Lose
<1>2. Sent' = Sent
  BY TakenFacts DEF Park, Lose, Sent
<1>3. NothingLost'
  BY DEF Inv, NothingLost, Park, Lose
<1>4. EntriesTrue' /\ StockTrue'
  BY <1>1, <1>2 DEF Inv, EntriesTrue, Points, KeysOf, StockTrue
<1>5. \A k \in Keys : \A v \in 1..Len(stream[k]) : Coming(k, v) => Coming(k, v)'
  BY <1>1, <1>2 DEF Coming, Rebuilt
<1> QED
  BY <1>1, <1>3, <1>4, <1>5, EntriesStep

LEMMA DeliverAgainStep ==
  ASSUME Inv, NEW k \in Keys, DeliverAgain(k)
  PROVE  Inv' /\ row' = row
<1>1. PICK v \in DOMAIN stream[k] : late' = late \cup {Entry(k, v)}
  BY DEF DeliverAgain, Entry
<1>2. UNCHANGED <<mode, stream, waiting, lost, row, quantity, rebuild>>
  BY DEF DeliverAgain
<1>3. stream[k] \in Seq(OrderEvents \cup StockEvents)
  BY DEF Inv, StreamsTrue
<1>4. v \in 1..Len(stream[k]) /\ v \in Int
  BY <1>1, <1>3
<1>5. Points(Entry(k, v))
  BY <1>4 DEF Points, Entries, Entry
<1>6. Sent' = Sent \cup {Entry(k, v)}
  BY <1>1, <1>2 DEF Sent
<1>7. EntriesTrue'
  BY <1>2, <1>5, <1>6 DEF Inv, EntriesTrue, Points, KeysOf
<1>8. \A j \in Keys : \A w \in 1..Len(stream[j]) : Coming(j, w) => Coming(j, w)'
  BY <1>2, <1>6 DEF Coming, Rebuilt
<1>9. StockTrue' /\ NothingLost'
  BY <1>2 DEF Inv, StockTrue, NothingLost
<1> QED
  BY <1>2, <1>7, <1>8, <1>9, EntriesStep

LEMMA ReplayStep ==
  ASSUME Inv, Replay
  PROVE  Inv' /\ \A o \in Orders : row[o].status # "pending" => row'[o].status = row[o].status
<1> DEFINE todo == rebuild.todo
<1>1. /\ todo \in Seq(Entries) /\ todo # << >>
      /\ \A i \in 1..Len(todo) : Points(todo[i])
  BY DEF Inv, EntriesTrue, Replay
<1>2. /\ UNCHANGED <<mode, stream, lost>> /\ Sent' = Sent
      /\ rebuild' = [rebuild EXCEPT !.todo = Tail(todo)]
  BY DEF Replay, queueVars, Sent
<1>3. PICK m : m = Head(todo)
  OBVIOUS
<1>4. /\ m = todo[1] /\ 1 \in 1..Len(todo) /\ Len(todo) \in Nat
      /\ Tail(todo) \in Seq(Entries) /\ Len(Tail(todo)) = Len(todo) - 1
      /\ \A i \in 1..Len(Tail(todo)) : Tail(todo)[i] = todo[i + 1] /\ i + 1 \in 1..Len(todo)
      /\ \A i \in 1..Len(todo) : i # 1 => i - 1 \in 1..Len(Tail(todo)) /\ Tail(todo)[i - 1] = todo[i]
  BY <1>1, <1>3
<1>5. Points(m) /\ Project(m.key, EventOf(m))
  BY <1>1, <1>3, <1>4 DEF Replay
<1>6. /\ RowsTrue' /\ StockTrue'
      /\ Marked(m.key, m.version)'
      /\ \A k \in Keys : \A v \in 1..Len(stream[k]) : Marked(k, v) => Marked(k, v)'
      /\ \A o \in Orders : row[o].status # "pending" => row'[o].status = row[o].status
  BY <1>2, <1>5, ProjectOrder
<1>7. StreamsTrue' /\ NothingLost' /\ mode' \in Modes
  BY <1>2 DEF Inv, StreamsTrue, NothingLost
<1> HIDE DEF todo
<1>8. /\ rebuild' \in [model : {"none", "sales", "warehouses", "failed"}, listed : BOOLEAN,
                       left : SUBSET Keys, todo : Seq(Entries)]
      /\ rebuild'.model = rebuild.model /\ rebuild'.listed = rebuild.listed
      /\ rebuild'.left = rebuild.left /\ rebuild'.todo = Tail(todo)
  BY <1>2, <1>4 DEF Inv, EntriesTrue
<1>9. EntriesTrue'
  <2>1. \A i \in 1..Len(Tail(todo)) : Points(Tail(todo)[i])
    BY <1>1, <1>4
  <2>2. \A i \in 1..Len(rebuild'.todo) : Points(rebuild.todo[i])'
    BY <1>2, <1>8, <2>1 DEF Points
  <2> QED
    BY <1>2, <1>8, <2>2 DEF Inv, EntriesTrue, Points, KeysOf
<1>10. ASSUME NEW o \in Keys, NEW v \in 1..Len(stream[o])
       PROVE  Coming(o, v)' \/ Marked(o, v)'
  <2>1. Coming(o, v) \/ Marked(o, v)
    BY DEF Inv, EventsCount
  <2>2. CASE m = Entry(o, v)
    BY <1>6, <2>2 DEF Entry
  <2>3. ASSUME m # Entry(o, v), NEW i \in 1..Len(todo), todo[i] = Entry(o, v)
        PROVE  \E j \in 1..Len(rebuild'.todo) : rebuild'.todo[j] = Entry(o, v)
    <3>1. i # 1
      BY <1>4, <2>3
    <3> QED
      BY <1>4, <1>8, <2>3, <3>1
  <2>4. CASE m # Entry(o, v)
    BY <1>2, <1>6, <1>8, <2>1, <2>3, <2>4 DEF Coming, Rebuilt, todo
  <2> QED
    BY <2>2, <2>4
<1>11. EventsCount'
  BY <1>2, <1>10 DEF EventsCount
<1> QED
  BY <1>6, <1>7, <1>9, <1>11 DEF Inv

\* A rebuild that starts, moves on to the next table or stops has nothing listed.
LEMMA IdleFacts ==
  ASSUME NEW name \in {"none", "sales", "warehouses", "failed"},
         rebuild' = [Idle EXCEPT !.model = name], Sent' \subseteq Sent, stream' = stream, Inv
  PROVE  EntriesTrue' /\ rebuild'.model = name /\ rebuild'.listed = FALSE
<1>1. /\ rebuild' = [model |-> name, listed |-> FALSE, left |-> {}, todo |-> << >>]
  BY DEF Idle
<1>2. << >> \in Seq(Entries) /\ Len(<< >>) = 0
  OBVIOUS
<1>3. /\ rebuild' \in [model : {"none", "sales", "warehouses", "failed"}, listed : BOOLEAN,
                       left : SUBSET Keys, todo : Seq(Entries)]
      /\ rebuild'.model = name /\ rebuild'.listed = FALSE /\ rebuild'.left = {}
      /\ Len(rebuild'.todo) = 0
  <2>1. PICK empty : empty = << >> /\ empty \in Seq(Entries) /\ Len(empty) = 0
    BY <1>2
  <2>2. rebuild' = [model |-> name, listed |-> FALSE, left |-> {}, todo |-> empty]
    BY <1>1, <2>1
  <2>3. empty \in Seq(Entries) /\ Len(empty) = 0
    BY <2>1
  <2>4. rebuild'.model = name /\ rebuild'.left = {} /\ Len(rebuild'.todo) = 0
    BY <2>2, <2>3
  <2>5. rebuild'.listed = FALSE
    BY <2>2
  <2>6. rebuild' \in [model : {"none", "sales", "warehouses", "failed"}, listed : BOOLEAN,
                      left : SUBSET Keys, todo : Seq(Entries)]
    <3>1. ASSUME NEW listed \in BOOLEAN, NEW left \in SUBSET Keys, NEW todo \in Seq(Entries)
          PROVE  [model |-> name, listed |-> listed, left |-> left, todo |-> todo]
                   \in [model : {"none", "sales", "warehouses", "failed"}, listed : BOOLEAN,
                        left : SUBSET Keys, todo : Seq(Entries)]
      OBVIOUS
    <3>2. FALSE \in BOOLEAN /\ {} \in SUBSET Keys
      OBVIOUS
    <3>3. [model |-> name, listed |-> FALSE, left |-> {}, todo |-> empty]
            \in [model : {"none", "sales", "warehouses", "failed"}, listed : BOOLEAN,
                 left : SUBSET Keys, todo : Seq(Entries)]
      BY <2>3, <3>1, <3>2, Zenon
    <3> QED
      BY <2>2, <3>3, Zenon
  <2> QED
    BY <2>4, <2>5, <2>6
<1>4. \A i \in 1..Len(rebuild'.todo) : Points(rebuild.todo[i])'
  BY <1>3
<1>5. \A m \in Sent' : Points(m)'
  BY DEF Inv, EntriesTrue, Points
<1> QED
  BY <1>3, <1>4, <1>5 DEF EntriesTrue

LEMMA ResetSalesStep ==
  ASSUME Inv, ResetSales
  PROVE  Inv' /\ row' = [o \in Orders |-> NoRow]
<1>1. /\ row' = [o \in Orders |-> NoRow] /\ rebuild' = [Idle EXCEPT !.model = "sales"]
      /\ lost' \subseteq lost /\ UNCHANGED <<mode, stream, waiting, late, quantity>>
  BY DEF ResetSales
<1>2. EntriesTrue' /\ rebuild'.model = "sales" /\ rebuild'.listed = FALSE
  BY <1>1, IdleFacts DEF Sent
<1>3. EventsCount'
  BY <1>2 DEF EventsCount, Coming, Rebuilt, Keys
<1>4. RowsTrue'
  BY <1>1, ConstantFacts DEF RowsTrue, RowTrue
<1>5. StreamsTrue' /\ StockTrue' /\ NothingLost' /\ mode' \in Modes
  BY <1>1 DEF Inv, StreamsTrue, StockTrue, NothingLost
<1> QED
  BY <1>1, <1>2, <1>3, <1>4, <1>5 DEF Inv

LEMMA ListStep ==
  ASSUME Inv, ListStreams
  PROVE  Inv' /\ row' = row
<1> DEFINE left == {k \in KeysOf(rebuild.model) : stream[k] # << >>}
<1>1. /\ rebuild' = [rebuild EXCEPT !.listed = TRUE, !.left = left]
      /\ UNCHANGED <<mode, stream, lost, row, quantity>> /\ Sent' = Sent
  BY DEF ListStreams, queueVars, Sent
<1>2. left \subseteq Keys /\ left \subseteq KeysOf(rebuild.model)
  BY DEF KeysOf, Keys
<1>3. /\ rebuild' \in [model : {"none", "sales", "warehouses", "failed"}, listed : BOOLEAN,
                       left : SUBSET Keys, todo : Seq(Entries)]
      /\ rebuild'.model = rebuild.model /\ rebuild'.left = left /\ rebuild'.todo = rebuild.todo
  BY <1>1, <1>2 DEF Inv, EntriesTrue
<1>4. EntriesTrue'
  BY <1>1, <1>2, <1>3 DEF Inv, EntriesTrue, Points
<1>5. ASSUME NEW o \in Keys, NEW v \in 1..Len(stream[o]), Coming(o, v)
      PROVE  Coming(o, v)'
  <2>1. stream[o] \in Seq(OrderEvents \cup StockEvents)
    BY ConstantFacts DEF Inv, StreamsTrue
  <2>2. stream[o] # << >>
    BY <2>1
  <2>3. Rebuilt(o) => o \in left
    BY <2>2 DEF KeysOf, Rebuilt
  <2> QED
    BY <1>1, <1>3, <1>5, <2>3 DEF Coming, Rebuilt
<1>6. StockTrue' /\ NothingLost'
  BY <1>1 DEF Inv, StockTrue, NothingLost
<1> QED
  BY <1>1, <1>4, <1>5, <1>6, EntriesStep

LEMMA ReadStep ==
  ASSUME Inv, NEW k \in Keys, ReadStream(k)
  PROVE  Inv' /\ row' = row
<1> DEFINE all == [v \in DOMAIN stream[k] |-> [key |-> k, version |-> v]]
<1>1. /\ rebuild.todo = << >> /\ k \in rebuild.left
      /\ rebuild' = [rebuild EXCEPT !.left = @ \ {k}, !.todo = all]
      /\ UNCHANGED <<mode, stream, lost, row, quantity>> /\ Sent' = Sent
  BY DEF ReadStream, queueVars, Sent
<1>2. stream[k] \in Seq(OrderEvents \cup StockEvents)
  BY DEF Inv, StreamsTrue
<1>3. DOMAIN stream[k] = 1..Len(stream[k]) /\ Len(stream[k]) \in Nat
  BY <1>2
<1>4. /\ all \in Seq(Entries) /\ Len(all) = Len(stream[k])
      /\ \A v \in 1..Len(stream[k]) : all[v] = Entry(k, v)
  <2>1. \A v \in 1..Len(stream[k]) : [key |-> k, version |-> v] \in Entries
    BY <1>3 DEF Entries
  <2>2. all = [v \in 1..Len(stream[k]) |-> [key |-> k, version |-> v]]
    BY <1>3
  <2>3. all \in [1..Len(stream[k]) -> Entries]
    BY <2>1, <2>2
  <2> QED
    BY <1>3, <2>2, <2>3 DEF Entry
<1> HIDE DEF all
<1>5. /\ rebuild' \in [model : {"none", "sales", "warehouses", "failed"}, listed : BOOLEAN,
                       left : SUBSET Keys, todo : Seq(Entries)]
      /\ rebuild'.model = rebuild.model /\ rebuild'.listed = rebuild.listed
      /\ rebuild'.left = rebuild.left \ {k} /\ rebuild'.todo = all
  BY <1>1, <1>4 DEF Inv, EntriesTrue
<1>6. EntriesTrue'
  <2>1. \A v \in 1..Len(stream[k]) : Points(Entry(k, v))
    BY <1>3 DEF Points, Entries, Entry
  <2>2. \A i \in 1..Len(rebuild'.todo) : Points(rebuild.todo[i])'
    BY <1>1, <1>4, <1>5, <2>1 DEF Points
  <2> QED
    BY <1>1, <1>5, <2>2 DEF Inv, EntriesTrue, Points, KeysOf
<1>7. ASSUME NEW o \in Keys, NEW v \in 1..Len(stream[o]), Coming(o, v)
      PROVE  Coming(o, v)'
  <2>1. ~ \E i \in 1..Len(rebuild.todo) : rebuild.todo[i] = Entry(o, v)
    BY <1>1
  <2>2. CASE o = k
    <3>1. \E i \in 1..Len(rebuild'.todo) : rebuild'.todo[i] = Entry(o, v)
      BY <1>4, <1>5, <2>2
    <3> QED
      BY <1>1, <1>5, <1>7, <3>1 DEF Coming, Rebuilt
  <2>3. CASE o # k
    BY <1>1, <1>5, <1>7, <2>1, <2>3 DEF Coming, Rebuilt
  <2> QED
    BY <2>2, <2>3
<1>8. StockTrue' /\ NothingLost'
  BY <1>1 DEF Inv, StockTrue, NothingLost
<1> QED
  BY <1>1, <1>6, <1>7, <1>8, EntriesStep

\* The rebuild turns to the availabilities: everything listed of the orders is
\* replayed, and everything of the beers will be.
LEMMA ResetAvailabilitiesStep ==
  ASSUME Inv, ResetAvailabilities
  PROVE  Inv' /\ row' = row
<1>1. /\ UNCHANGED <<mode, stream, row>> /\ lost' \subseteq lost
      /\ Sent' \subseteq Sent /\ \A m \in Sent : m.key \notin Beers => m \in Sent'
      /\ rebuild.model = "sales" /\ rebuild.listed /\ rebuild.left = {} /\ rebuild.todo = << >>
      /\ rebuild' = [Idle EXCEPT !.model = "warehouses"]
      /\ quantity' = [b \in Beers |-> NoQuantity]
  BY DEF ResetAvailabilities, Sent, Replayed
<1>2. EntriesTrue' /\ rebuild'.model = "warehouses" /\ rebuild'.listed = FALSE
  BY <1>1, IdleFacts
<1>3. ASSUME NEW k \in Keys, NEW v \in 1..Len(stream[k])
      PROVE  /\ k \in Beers => Coming(k, v)'
             /\ Coming(k, v) => Coming(k, v)'
  <2>1. CASE k \in Beers
    BY <1>2, <2>1 DEF Coming, Rebuilt
  <2>2. CASE k \notin Beers
    <3>1. ~ \E i \in 1..Len(rebuild.todo) : rebuild.todo[i] = Entry(k, v)
      BY <1>1
    <3>2. Entry(k, v) \in Sent => Entry(k, v) \in Sent'
      BY <1>1, <2>2 DEF Entry
    <3> QED
      BY <1>1, <2>2, <3>1, <3>2 DEF Coming
  <2> QED
    BY <2>1, <2>2
<1>4. StockTrue' /\ NothingLost'
  BY <1>1 DEF Inv, StockTrue, NothingLost
<1>5. \A b \in Beers : \A v \in 1..Len(stream[b]) : Coming(b, v)'
  BY <1>3, ConstantFacts
<1> QED
  BY <1>1, <1>2, <1>3, <1>4, <1>5, EntriesStep

\* The rebuild ends only when everything listed is replayed, or fails and must be
\* repeated.
LEMMA RebuildEndStep ==
  ASSUME Inv, RebuildCompleted \/ RebuildFailed
  PROVE  Inv' /\ row' = row
<1>1. UNCHANGED <<mode, stream, row, quantity, lost>> /\ Sent' = Sent
  BY DEF RebuildCompleted, RebuildFailed, queueVars, Sent
<1>2. PICK name \in {"none", "failed"} :
        /\ rebuild' = [Idle EXCEPT !.model = name]
        /\ name # "failed" => rebuild.model = "warehouses" /\ Replayed
  <2>1. Idle = [Idle EXCEPT !.model = "none"]
    BY DEF Idle
  <2>2. CASE RebuildCompleted
    BY <2>1, <2>2 DEF RebuildCompleted
  <2>3. CASE RebuildFailed
    BY <2>3 DEF RebuildFailed
  <2> QED
    BY <2>2, <2>3
<1>3. EntriesTrue' /\ rebuild'.model = name
  BY <1>1, <1>2, IdleFacts
<1>4. ASSUME NEW k \in Keys, NEW v \in 1..Len(stream[k]), Coming(k, v)
      PROVE  Coming(k, v)'
  <2>1. CASE name = "failed"
    BY <1>3, <2>1 DEF Coming
  <2>2. CASE name # "failed"
    <3>1. rebuild.model = "warehouses" /\ rebuild.listed /\ rebuild.left = {} /\ rebuild.todo = << >>
      BY <1>2, <2>2 DEF Replayed
    <3>2. ~ \E i \in 1..Len(rebuild.todo) : rebuild.todo[i] = Entry(k, v)
      BY <3>1
    <3> QED
      BY <1>1, <1>4, <3>1, <3>2 DEF Coming
  <2> QED
    BY <2>1, <2>2
<1>5. StockTrue' /\ NothingLost'
  BY <1>1 DEF Inv, StockTrue, NothingLost
<1> QED
  BY <1>1, <1>3, <1>4, <1>5, EntriesStep

\* Every step keeps the invariant, and the status of a row that shows one,
\* unless it empties the table.
LEMMA InvStep ==
  ASSUME Inv, [Next]_vars
  PROVE  /\ Inv'
         /\ \A o \in Orders :
              row[o].status # "pending" => row'[o].status = row[o].status \/ row'[o] = NoRow
<1>1. CASE UNCHANGED vars
  <2>1. UNCHANGED <<mode, stream, lost, row, quantity, rebuild>> /\ Sent' = Sent
    BY <1>1 DEF vars, queueVars, Sent
  <2>2. EntriesTrue' /\ StockTrue' /\ NothingLost'
    BY <2>1 DEF Inv, EntriesTrue, Points, KeysOf, StockTrue, NothingLost
  <2>3. \A k \in Keys : \A v \in 1..Len(stream[k]) : Coming(k, v) => Coming(k, v)'
    BY <2>1 DEF Coming, Rebuilt
  <2> QED
    BY <2>1, <2>2, <2>3, EntriesStep
<1>2. CASE Next
  <2>1. ASSUME row' = row \/ row' = [o \in Orders |-> NoRow]
        PROVE  \A o \in Orders :
                 row[o].status # "pending" => row'[o].status = row[o].status \/ row'[o] = NoRow
    BY <2>1
  <2> QED
    BY <1>2, <2>1, OrderStep, StockStep, DeliverStep, DropStep, DeliverAgainStep, ReadStep,
       ResetSalesStep, ListStep, ReplayStep, ResetAvailabilitiesStep,
       RebuildEndStep DEF Next
<1> QED
  BY <1>1, <1>2

LEMMA InvInit == Init => Inv
<1>1. SUFFICES ASSUME Init PROVE Inv
  OBVIOUS
<1>2. \A k \in Keys : stream[k] = << >> /\ Len(stream[k]) = 0
  BY <1>1 DEF Init
<1>3. StreamsTrue
  <2>1. << >> \in Seq(OrderEvents \cup StockEvents)
    OBVIOUS
  <2>2. stream \in [Keys -> Seq(OrderEvents \cup StockEvents)]
    BY <1>1, <2>1 DEF Init
  <2> QED
    BY <1>2, <2>2, ConstantFacts DEF StreamsTrue
<1>4. EntriesTrue
  <2>1. << >> \in Seq(Entries) /\ Len(<< >>) = 0
    OBVIOUS
  <2> QED
    BY <1>1, <2>1 DEF Init, EntriesTrue, Idle, Sent
<1>5. RowsTrue /\ StockTrue /\ NothingLost
  BY <1>1, ConstantFacts DEF Init, RowsTrue, RowTrue, StockTrue, NothingLost
<1>6. EventsCount
  BY <1>2, ConstantFacts DEF EventsCount
<1> QED
  BY <1>1, <1>3, <1>4, <1>5, <1>6 DEF Inv, Init

LEMMA InvHolds == Spec => []Inv
<1>1. Inv /\ [Next]_vars => Inv'
  BY InvStep
<1> QED
  BY <1>1, InvInit, PTL DEF Spec

-----------------------------------------------------------------------------
(* The theorems.                                                           *)

\* The rows, the queues and the rebuild hold what they may hold, for any
\* constants: in particular the rebuild of a read model lists only its own
\* streams, and every entry of a queue names an event of a stream.
THEOREM TypeCorrect == Spec => []TypeOK
<1>1. Inv => TypeOK
  <2>1. ASSUME Inv, NEW m \in waiting \cup late \cup lost
        PROVE  m.key \in Keys /\ m.version \in DOMAIN stream[m.key]
    <3>1. Points(m)
      BY <2>1 DEF Inv, EntriesTrue, Sent
    <3>2. m.key \in Keys /\ m.version \in 1..Len(stream[m.key])
      BY <3>1 DEF Points, Entries
    <3>3. stream[m.key] \in Seq(OrderEvents \cup StockEvents)
      BY <2>1, <3>2 DEF Inv, StreamsTrue
    <3> QED
      BY <3>2, <3>3
  <2>2. ASSUME Inv
        PROVE  /\ rebuild.model \in {"none", "sales", "warehouses", "failed"}
               /\ rebuild.left \subseteq KeysOf(rebuild.model)
    BY <2>2 DEF Inv, EntriesTrue
  <2> QED
    BY <2>1, <2>2 DEF Inv, RowsTrue, Rows, StockTrue, TypeOK
<1> QED
  BY <1>1, InvHolds, PTL

\* Once its events are projected, an order's row in sales_orders is what its
\* stream says, for any order in which the projectors of its event types met
\* them, any second deliveries, parkings and redrives, and any rebuilds that ran,
\* failed and were repeated meanwhile.  With a database and a broker that is all;
\* in the other modes, where Commit may fail to publish and GoChannel's messages
\* die with the process, it is so unless an event of the order was lost.
THEOREM SalesReadModelConverges == Spec => []SalesConverges
<1>1. ASSUME Inv, NEW o \in Orders, Quiet(o)
      PROVE  row[o] = ExpectedRow(o)
  <2>1. stream[o] \in Seq(OrderEvents \cup StockEvents) /\ row[o] \in Rows /\ RowTrue(o)
    BY <1>1, ConstantFacts DEF Inv, StreamsTrue, RowsTrue
  <2>2. Len(stream[o]) \in Nat /\ Len(stream[o]) <= 2
        /\ (stream[o] = << >> <=> Len(stream[o]) = 0)
    BY <1>1, <2>1 DEF Inv, StreamsTrue
  <2>3. ASSUME NEW v \in 1..Len(stream[o])
        PROVE  Marked(o, v)
    <3>1. Entry(o, v) \notin Sent
      BY <1>1 DEF Quiet, Entry, Sent, Inv, NothingLost
    <3>2. rebuild.model # "failed" /\ rebuild.model # "sales" /\ o \notin Beers
      BY <1>1, ConstantFacts DEF Quiet, Rebuilding, KeysOf
    <3>3. Coming(o, v) \/ Marked(o, v)
      BY <1>1, ConstantFacts DEF Inv, EventsCount
    <3> QED
      BY <3>1, <3>2, <3>3 DEF Coming, Rebuilt
  <2>4. CASE Len(stream[o]) = 0
    BY <2>1, <2>2, <2>4 DEF ExpectedRow, RowTrue
  <2>5. CASE Len(stream[o]) = 1
    <3>1. Marked(o, 1)
      BY <2>3, <2>5
    <3>2. row[o].kind = "order" /\ row[o].status = "pending"
      BY <2>1, <2>5, <3>1, ConstantFacts DEF Marked, RowTrue
    <3>3. row[o] = [kind |-> "order", status |-> "pending"]
      BY <2>1, <3>2 DEF Rows
    <3>4. stream[o][1].type # "SalesOrderAllocated"
      BY <1>1, <2>5, OrderStreamFacts DEF Inv
    <3>5. ExpectedRow(o) = [kind |-> "order", status |-> "pending"]
      BY <2>2, <2>5, <3>4 DEF ExpectedRow
    <3> QED
      BY <3>3, <3>5
  <2>6. CASE Len(stream[o]) = 2
    <3>1. Marked(o, 1) /\ Marked(o, 2)
      BY <2>3, <2>6
    <3>2. row[o].kind = "order" /\ row[o].status = StatusOf(stream[o][2])
      BY <3>1, ConstantFacts DEF Marked
    <3>3. row[o] = [kind |-> "order", status |-> StatusOf(stream[o][2])]
      BY <2>1, <3>2 DEF Rows
    <3>4. ExpectedRow(o) = [kind |-> "order", status |-> StatusOf(stream[o][2])]
      BY <2>2, <2>6 DEF ExpectedRow, StatusOf
    <3> QED
      BY <3>3, <3>4
  <2>7. \A n \in Nat : n <= 2 => n = 0 \/ n = 1 \/ n = 2
    OBVIOUS
  <2> QED
    BY <2>2, <2>4, <2>5, <2>6, <2>7
<1>2. Inv => SalesConverges
  BY <1>1 DEF SalesConverges
<1> QED
  BY <1>2, InvHolds, PTL

\* Once its events are projected, a beer of which there is or was stock is in the
\* list of availabilities, for any order of its events, second deliveries, parkings
\* and redrives, although rebuilds have emptied the table and replayed streams that
\* they had listed before the beer's first event, or failed on the way.
THEOREM ProducedBeersListed == Spec => []BeersListed
<1>1. ASSUME Inv, NEW b \in Beers, Quiet(b), ~Rebuilding, stream[b] # << >>
      PROVE  quantity[b] # NoQuantity
  <2>1. stream[b] \in Seq(OrderEvents \cup StockEvents) /\ b \in Keys
    BY <1>1, ConstantFacts DEF Inv, StreamsTrue
  <2>2. 1 \in 1..Len(stream[b])
    BY <1>1, <2>1
  <2>3. Entry(b, 1) \notin Sent
    BY <1>1 DEF Quiet, Entry, Sent, Inv, NothingLost
  <2>4. rebuild.model # "failed" /\ rebuild.model # "sales" /\ rebuild.model # "warehouses"
    BY <1>1 DEF Quiet, Rebuilding
  <2>5. Coming(b, 1) \/ Marked(b, 1)
    BY <1>1, <2>1, <2>2 DEF Inv, EventsCount
  <2> QED
    BY <2>3, <2>4, <2>5 DEF Coming, Rebuilt, Marked
<1>2. Inv => BeersListed
  BY <1>1 DEF BeersListed
<1> QED
  BY <1>2, InvHolds, PTL

\* A client that polls GET /v1/sales never sees a settled order pending again,
\* unless a rebuild has emptied the table, whatever is delivered late or twice.
THEOREM SettledStaysSettled == Spec => SettledStatusKept
<1>1. Inv /\ [Next]_vars =>
        [\A o \in Orders :
           row[o].status # "pending" => row'[o].status = row[o].status \/ row'[o] = NoRow]_vars
  BY InvStep
<1> QED
  BY <1>1, InvHolds, PTL DEF Spec, SettledStatusKept
=============================================================================
