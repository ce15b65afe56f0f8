-------------------------- MODULE OutboxRelayProofs --------------------------
(***************************************************************************)
(* Proofs about the event store and the outbox relay, for any number of    *)
(* streams, writers and relays.                                            *)
(*                                                                         *)
(* The heart is Exclusive: a transaction that has inserted a row works on  *)
(* top of the head of its stream, and no other open transaction has        *)
(* inserted a row of that stream.  The head check alone does not give      *)
(* this, since two transactions may pass it together; the primary key      *)
(* does, because the second insert of a version waits or fails.            *)
(***************************************************************************)
EXTENDS OutboxRelay, FiniteSetTheorems, TLAPS

Row == [id : Nat, stream : Streams, version : Nat]

TxState == [pc : {"idle", "loaded", "insert", "enqueue", "commit"},
            expected : Int, size : Int, inserted : Int, queued : SUBSET Row]

\* A stream has the versions 1 to head and no other.
StreamOK(s) == /\ head(s) \in 0..MaxVersion
               /\ DOMAIN events[s] = 1..head(s)
               /\ \A v \in 1..head(s) : events[s][v] \in Writers

\* How far a writer is and what it holds.
TxOK(w) ==
  /\ tx[w] \in TxState
  /\ tx[w].pc = "idle" => tx[w] = Idle
  /\ tx[w].pc # "idle" => /\ tx[w].expected \in 0..head(stream(w))
                          /\ tx[w].size \in 1..MaxBatch
                          /\ tx[w].inserted \in 0..tx[w].size
                          /\ tx[w].expected + tx[w].size <= MaxVersion
  /\ tx[w].pc = "loaded" => tx[w].inserted = 0
  /\ tx[w].pc = "insert" => tx[w].inserted < tx[w].size
  /\ tx[w].pc = "enqueue" => tx[w].inserted > 0
  /\ tx[w].pc = "commit" => tx[w].inserted = tx[w].size

\* A transaction that has inserted a row is alone on its stream, at its head.
Exclusive(w) ==
  tx[w].inserted > 0 =>
    /\ tx[w].expected = head(stream(w))
    /\ \A u \in Writers \ {w} : stream(u) = stream(w) => tx[u].inserted = 0

\* How many of the events inserted have their outbox row.
enqueued(w) == IF tx[w].pc = "enqueue" THEN tx[w].inserted - 1 ELSE tx[w].inserted

\* The outbox rows of a transaction are those of its events, in their order,
\* and come after the committed rows of the stream.
QueuedOK(w) ==
  /\ \A q \in tx[w].queued :
       /\ q.stream = stream(w)
       /\ q.version \in (tx[w].expected + 1)..(tx[w].expected + enqueued(w))
       /\ q.id \in 1..(nextId - 1)
  /\ \A v \in (tx[w].expected + 1)..(tx[w].expected + enqueued(w)) :
       \E q \in tx[w].queued : q.version = v
  /\ \A p, q \in tx[w].queued : p.version < q.version => p.id < q.id
  /\ \A p \in outbox, q \in tx[w].queued : p.stream = stream(w) => p.id < q.id

OutboxOK ==
  /\ nextId \in Nat \ {0}
  /\ \A p \in outbox : /\ p \in Row
                       /\ p.id < nextId
                       /\ p.id > 0
                       /\ p.version \in 1..head(p.stream)

StoreInv ==
  /\ DOMAIN events = Streams
  /\ DOMAIN tx = Writers
  /\ \A s \in Streams : StreamOK(s)
  /\ \A w \in Writers : TxOK(w)
  /\ \A w \in Writers : Exclusive(w)
  /\ \A w \in Writers : QueuedOK(w)
  /\ OutboxOK
  /\ OutboxFollowsStream

-----------------------------------------------------------------------------
\* SELECT max(version), and the number of events a replay applies, are the
\* length of a stream without gaps.
LEMMA HeadOfInterval ==
  ASSUME NEW n \in Nat
  PROVE  Max((1..n) \cup {0}) = n /\ Cardinality(1..n) = n
<1>1. Max((1..n) \cup {0}) = n
  BY DEF Max
<1>2. Cardinality(1..n) = n
  BY FS_Interval
<1>. QED  BY <1>1, <1>2

\* What GetByID and CheckHead read agrees: the replayed length is the head.
LEMMA LengthIsHead ==
  ASSUME NEW s \in Streams, StreamOK(s)
  PROVE  /\ Cardinality(DOMAIN events[s]) = head(s)
         /\ Log!Length(events[s]) = head(s)
<1>1. head(s) \in Nat /\ DOMAIN events[s] = 1..head(s)
  BY EventStoreAssumption DEF StreamOK
<1>2. Log!Length(events[s]) = head(s)
  BY <1>1 DEF Log!Length
<1>. QED  BY <1>1, <1>2, HeadOfInterval

\* Empty tables and idle writers satisfy the invariant.
LEMMA StoreInvInit == StoreInit => StoreInv
<1>. SUFFICES ASSUME StoreInit PROVE StoreInv
  OBVIOUS
<1>1. \A s \in Streams : head(s) = 0 /\ events[s] = << >>
  <2>1. (DOMAIN << >>) \cup {0} = (1..0) \cup {0}
    OBVIOUS
  <2>. QED  BY <2>1, HeadOfInterval DEF StoreInit, head
<1>2. \A s \in Streams : StreamOK(s)
  BY <1>1, EventStoreAssumption DEF StreamOK
<1>3. \A w \in Writers : tx[w] = Idle
  BY DEF StoreInit
<1>4. \A w \in Writers : TxOK(w)
  BY <1>3 DEF TxOK, TxState, Idle
<1>5. \A w \in Writers : Exclusive(w) /\ QueuedOK(w)
  BY <1>3 DEF Exclusive, QueuedOK, enqueued, Idle
<1>6. OutboxOK /\ OutboxFollowsStream /\ DOMAIN events = Streams /\ DOMAIN tx = Writers
  BY DEF StoreInit, OutboxOK, OutboxFollowsStream
<1>. QED  BY <1>2, <1>4, <1>5, <1>6 DEF StoreInv

-----------------------------------------------------------------------------
\* Heads and streams that do not change.
LEMMA SameStreams ==
  ASSUME events' = events
  PROVE  \A s \in Streams : head(s)' = head(s) /\ (StreamOK(s)' <=> StreamOK(s))
BY DEF head, StreamOK

\* A writer that loads, fails or ends without a commit leaves the tables alone
\* and holds nothing: the others cannot notice.
LEMMA StoreInvReleased ==
  ASSUME StoreInv, NEW w \in Writers,
         UNCHANGED <<events, outbox, nextId>>,
         NEW t, tx' = [tx EXCEPT ![w] = t],
         t.inserted = 0, t.queued = {}, TxOK(w)'
  PROVE  StoreInv'
<1>1. \A s \in Streams : head(s)' = head(s) /\ StreamOK(s)'
  BY SameStreams DEF StoreInv
<1>2. tx'[w] = t /\ \A u \in Writers \ {w} : tx'[u] = tx[u]
  BY DEF StoreInv
<1>3. \A u \in Writers : stream(u) \in Streams /\ stream(u)' = stream(u)
  BY EventStoreAssumption DEF stream
<1>4. \A u \in Writers : TxOK(u)'
  BY <1>1, <1>2, <1>3 DEF StoreInv, TxOK
<1>5. \A u \in Writers : Exclusive(u)'
  BY <1>1, <1>2, <1>3 DEF StoreInv, Exclusive
<1>6. \A u \in Writers \ {w} : QueuedOK(u)'
  BY <1>2, <1>3 DEF StoreInv, QueuedOK, enqueued
<1>7. QueuedOK(w)'
  <2>1. tx'[w].expected \in Int /\ enqueued(w)' = 0 /\ tx'[w].queued = {}
    BY <1>2 DEF TxOK, TxState, enqueued
  <2>. QED  BY <2>1 DEF QueuedOK
<1>8. OutboxOK' /\ OutboxFollowsStream'
  BY <1>1 DEF StoreInv, OutboxOK, OutboxFollowsStream, Row
<1>. QED  BY <1>1, <1>4, <1>5, <1>6, <1>7, <1>8 DEF StoreInv

\* The reads and the failures: GetByID, a CheckHead or InsertEvent that meets
\* a conflict, and Rollback.
LEMMA StoreInvLoad ==
  ASSUME StoreInv, NEW w \in Writers, GetByID(w)
  PROVE  StoreInv'
<1>1. PICK size \in 1..MaxBatch :
        /\ head(stream(w)) + size <= MaxVersion
        /\ tx' = [tx EXCEPT ![w] = [Idle EXCEPT
                    !.pc = "loaded",
                    !.expected = Cardinality(DOMAIN events[stream(w)]),
                    !.size = size]]
  BY DEF GetByID
<1>2. stream(w) \in Streams /\ stream(w)' = stream(w)
  BY EventStoreAssumption DEF stream
<1>3. head(stream(w)) \in Nat /\ Cardinality(DOMAIN events[stream(w)]) = head(stream(w))
  BY <1>2, LengthIsHead, EventStoreAssumption DEF StoreInv, StreamOK
<1>4. tx'[w] = [pc |-> "loaded", expected |-> head(stream(w)), size |-> size,
                inserted |-> 0, queued |-> {}]
  BY <1>1, <1>3 DEF StoreInv, Idle
<1>5. head(stream(w))' = head(stream(w)) /\ UNCHANGED <<events, outbox, nextId>>
  BY <1>2, SameStreams DEF GetByID
<1>6. TxOK(w)'
  <2>1. tx'[w] \in TxState /\ tx'[w].pc = "loaded"
    BY <1>3, <1>4, EventStoreAssumption DEF TxState
  <2>2. tx'[w].expected = head(stream(w)) /\ tx'[w].size = size /\ tx'[w].inserted = 0
    BY <1>4
  <2>3. tx'[w].expected \in 0..head(stream(w))'
    BY <1>3, <1>5, <2>2
  <2>4. tx'[w].inserted \in 0..tx'[w].size /\ tx'[w].expected + tx'[w].size <= MaxVersion
    BY <1>1, <2>2
  <2>. QED  BY <2>1, <2>2, <2>3, <2>4 DEF TxOK
<1>7. tx' = [tx EXCEPT ![w] = tx'[w]]
  BY <1>1, <1>4 DEF StoreInv
<1>. QED  BY <1>4, <1>5, <1>6, <1>7, StoreInvReleased

\* A writer that gives up leaves nothing behind.
LEMMA StoreInvGivesUp ==
  ASSUME StoreInv, NEW w \in Writers, tx' = [tx EXCEPT ![w] = Idle],
         UNCHANGED <<events, outbox, nextId>>
  PROVE  StoreInv'
<1>1. tx'[w] = Idle
  BY DEF StoreInv
<1>2. TxOK(w)'
  BY <1>1 DEF TxOK, TxState, Idle
<1>3. Idle.inserted = 0 /\ Idle.queued = {}
  BY DEF Idle
<1>. QED  BY <1>2, <1>3, StoreInvReleased

\* The head check: a writer that passes it goes on with what it loaded.
LEMMA StoreInvCheckHead ==
  ASSUME StoreInv, NEW w \in Writers, CheckHead(w)
  PROVE  StoreInv'
<1>1. UNCHANGED <<events, outbox, nextId>> /\ tx[w].pc = "loaded"
  BY DEF CheckHead
<1>2. CASE head(stream(w)) # tx[w].expected
  BY <1>1, <1>2, StoreInvGivesUp DEF CheckHead
<1>3. CASE head(stream(w)) = tx[w].expected
  <2>1. tx' = [tx EXCEPT ![w] = [tx[w] EXCEPT !.pc = "insert"]]
    BY <1>3 DEF CheckHead
  <2>2. tx'[w] = [tx[w] EXCEPT !.pc = "insert"] /\ tx[w] \in TxState
    BY <2>1 DEF StoreInv, TxOK
  <2>3. stream(w) \in Streams /\ stream(w)' = stream(w) /\ head(stream(w))' = head(stream(w))
    BY <1>1, SameStreams, EventStoreAssumption DEF stream
  <2>4. TxOK(w)
    BY DEF StoreInv
  <2>5. TxOK(w)'
    BY <1>1, <2>2, <2>3, <2>4, EventStoreAssumption DEF TxOK, TxState
  <2>6. tx[w].inserted = 0 /\ tx[w].queued = {}
    <3>1. tx[w].inserted = 0 /\ tx[w].expected \in Int
      BY <1>1, <2>4 DEF TxOK, TxState
    <3>2. enqueued(w) = 0
      BY <1>1, <3>1 DEF enqueued
    <3>. QED  BY <3>1, <3>2 DEF StoreInv, QueuedOK
  <2>7. tx'[w].inserted = 0 /\ tx'[w].queued = {}
    BY <2>2, <2>6 DEF TxState
  <2>8. tx' = [tx EXCEPT ![w] = tx'[w]]
    BY <2>1, <2>2
  <2>. QED  BY <1>1, <2>5, <2>7, <2>8, StoreInvReleased
<1>. QED  BY <1>2, <1>3

\* Waiting for the key, or failing on it, is what keeps a stream's open
\* transactions apart: the one that inserts is at the head and alone.
LEMMA StoreInvInsertEvent ==
  ASSUME StoreInv, NEW w \in Writers, InsertEvent(w)
  PROVE  StoreInv'
<1>1. UNCHANGED <<events, outbox, nextId>> /\ tx[w].pc = "insert"
  BY DEF InsertEvent
<1>2. CASE nextVersion(w) \in DOMAIN events[stream(w)]
  BY <1>1, <1>2, StoreInvGivesUp DEF InsertEvent
<1>3. CASE nextVersion(w) \notin DOMAIN events[stream(w)]
  <2>1. tx' = [tx EXCEPT ![w] = [tx[w] EXCEPT !.inserted = @ + 1, !.pc = "enqueue"]]
    BY <1>3 DEF InsertEvent
  <2>2. TxOK(w) /\ tx[w] \in TxState
    BY DEF StoreInv, TxOK
  <2>3. /\ tx'[w] \in TxState
        /\ tx'[w].pc = "enqueue"
        /\ tx'[w].inserted = tx[w].inserted + 1
        /\ tx'[w].expected = tx[w].expected
        /\ tx'[w].size = tx[w].size
        /\ tx'[w].queued = tx[w].queued
        /\ \A u \in Writers \ {w} : tx'[u] = tx[u]
    <3>1. /\ tx'[w] = [tx[w] EXCEPT !.inserted = @ + 1, !.pc = "enqueue"]
          /\ \A u \in Writers \ {w} : tx'[u] = tx[u]
      BY <2>1 DEF StoreInv
    <3>2. tx'[w] = [pc |-> "enqueue", expected |-> tx[w].expected, size |-> tx[w].size,
                    inserted |-> tx[w].inserted + 1, queued |-> tx[w].queued]
      BY <2>2, <3>1 DEF TxState
    <3>3. tx[w].expected \in Int /\ tx[w].size \in Int /\ tx[w].inserted + 1 \in Int
          /\ tx[w].queued \in SUBSET Row
      BY <2>2 DEF TxState
    <3>. QED  BY <3>1, <3>2, <3>3 DEF TxState
  <2>4. \A s \in Streams : head(s)' = head(s) /\ StreamOK(s)'
    BY <1>1, SameStreams DEF StoreInv
  <2>5. \A u \in Writers : stream(u) \in Streams /\ stream(u)' = stream(u)
    BY EventStoreAssumption DEF stream
  <2>6. /\ tx[w].expected \in 0..head(stream(w))
        /\ tx[w].inserted \in Nat
        /\ tx[w].inserted < tx[w].size
        /\ tx[w].size \in 1..MaxBatch
        /\ tx[w].expected + tx[w].size <= MaxVersion
        /\ head(stream(w)) \in Nat
        /\ DOMAIN events[stream(w)] = 1..head(stream(w))
    BY <1>1, <2>2, <2>5, EventStoreAssumption DEF StoreInv, TxOK, StreamOK
  <2>7. TxOK(w)'
    BY <2>3, <2>4, <2>5, <2>6, EventStoreAssumption DEF TxOK
  <2>8. \A u \in Writers : TxOK(u)'
    BY <2>3, <2>4, <2>5, <2>7 DEF StoreInv, TxOK
  <2>9. tx[w].expected = head(stream(w))
    BY <1>3, <2>6 DEF nextVersion, StoreInv, Exclusive
  <2>10. ASSUME NEW u \in Writers \ {w}, stream(u) = stream(w), tx[u].inserted # 0
         PROVE  FALSE
    <3>1. TxOK(u) /\ tx[u] \in TxState /\ tx[u].pc # "idle"
      BY <2>10 DEF StoreInv, TxOK, Idle
    <3>2. tx[u].inserted > 0
      BY <2>10, <3>1 DEF TxOK, TxState
    <3>3. tx[u].expected = head(stream(w)) /\ tx[w].inserted = 0
      BY <2>10, <3>2 DEF StoreInv, Exclusive
    <3>4. nextVersion(w) \in versions(u)
      BY <2>6, <2>9, <3>1, <3>2, <3>3 DEF nextVersion, versions, TxState
    <3>. QED  BY <2>10, <3>4 DEF InsertEvent, Locked
  <2>11. \A u \in Writers : Exclusive(u)'
    BY <2>3, <2>4, <2>5, <2>6, <2>9, <2>10 DEF StoreInv, Exclusive
  <2>12. \A u \in Writers \ {w} : QueuedOK(u)'
    BY <1>1, <2>3, <2>5 DEF StoreInv, QueuedOK, enqueued
  <2>13. QueuedOK(w)'
    <3>1. enqueued(w)' = enqueued(w)
      BY <1>1, <2>3, <2>6 DEF enqueued
    <3>. QED  BY <1>1, <2>3, <2>5, <3>1 DEF StoreInv, QueuedOK
  <2>14. OutboxOK' /\ OutboxFollowsStream'
    BY <1>1, <2>4 DEF StoreInv, OutboxOK, OutboxFollowsStream, Row
  <2>15. DOMAIN events' = Streams /\ DOMAIN tx' = Writers
    BY <1>1, <2>1 DEF StoreInv
  <2>. QED  BY <2>4, <2>8, <2>11, <2>12, <2>13, <2>14, <2>15 DEF StoreInv
<1>. QED  BY <1>2, <1>3

\* An event gets its outbox row, with a number above all numbers drawn before.
LEMMA StoreInvEnqueue ==
  ASSUME StoreInv, NEW w \in Writers, Enqueue(w)
  PROVE  StoreInv'
<1>1. UNCHANGED <<events, outbox>> /\ tx[w].pc = "enqueue" /\ nextId' = nextId + 1
  BY DEF Enqueue
<1>2. tx' = [tx EXCEPT ![w] = [tx[w] EXCEPT !.queued = @ \cup {outboxRow(w)}, !.pc = afterEnqueue(w)]]
  BY DEF Enqueue
<1>3. TxOK(w) /\ tx[w] \in TxState
  BY DEF StoreInv, TxOK
<1>4. \A u \in Writers : stream(u) \in Streams /\ stream(u)' = stream(u)
  BY EventStoreAssumption DEF stream
<1>5. /\ tx[w].expected \in Nat
      /\ tx[w].expected \in 0..head(stream(w))
      /\ tx[w].inserted \in Nat
      /\ tx[w].inserted > 0
      /\ tx[w].inserted \in 0..tx[w].size
      /\ tx[w].size \in 1..MaxBatch
      /\ tx[w].expected + tx[w].size <= MaxVersion
      /\ nextId \in Nat \ {0}
  BY <1>1, <1>3, <1>4, EventStoreAssumption DEF StoreInv, TxOK, StreamOK, OutboxOK
<1>6. outboxRow(w) \in Row
  BY <1>4, <1>5 DEF outboxRow, Row
<1>7. /\ tx'[w] \in TxState
      /\ tx'[w].pc = afterEnqueue(w)
      /\ tx'[w].inserted = tx[w].inserted
      /\ tx'[w].expected = tx[w].expected
      /\ tx'[w].size = tx[w].size
      /\ tx'[w].queued = tx[w].queued \cup {outboxRow(w)}
      /\ \A u \in Writers \ {w} : tx'[u] = tx[u]
  <2>1. /\ tx'[w] = [tx[w] EXCEPT !.queued = @ \cup {outboxRow(w)}, !.pc = afterEnqueue(w)]
        /\ \A u \in Writers \ {w} : tx'[u] = tx[u]
    BY <1>2 DEF StoreInv
  <2>2. afterEnqueue(w) \in {"insert", "commit"}
    BY DEF afterEnqueue
  <2>3. tx'[w] = [pc |-> afterEnqueue(w), expected |-> tx[w].expected, size |-> tx[w].size,
                  inserted |-> tx[w].inserted, queued |-> tx[w].queued \cup {outboxRow(w)}]
    BY <1>3, <2>1 DEF TxState
  <2>4. tx[w].expected \in Int /\ tx[w].size \in Int /\ tx[w].inserted \in Int
        /\ tx[w].queued \cup {outboxRow(w)} \in SUBSET Row
    BY <1>3, <1>6 DEF TxState
  <2>. QED  BY <2>1, <2>2, <2>3, <2>4 DEF TxState
<1>8. \A s \in Streams : head(s)' = head(s) /\ StreamOK(s)'
  BY <1>1, SameStreams DEF StoreInv
<1>9. TxOK(w)'
  BY <1>4, <1>5, <1>7, <1>8, EventStoreAssumption DEF TxOK, afterEnqueue
<1>10. \A u \in Writers : TxOK(u)'
  BY <1>4, <1>7, <1>8, <1>9 DEF StoreInv, TxOK
<1>11. \A u \in Writers : Exclusive(u)'
  BY <1>4, <1>7, <1>8 DEF StoreInv, Exclusive
<1>12. ASSUME NEW u \in Writers \ {w}
       PROVE  QueuedOK(u)'
  BY <1>1, <1>4, <1>5, <1>7 DEF StoreInv, QueuedOK, enqueued
<1>13. QueuedOK(w)'
  <2>1. enqueued(w) = tx[w].inserted - 1 /\ enqueued(w)' = tx[w].inserted
    BY <1>1, <1>7 DEF enqueued, afterEnqueue
  <2>2. /\ outboxRow(w).stream = stream(w)
        /\ outboxRow(w).version = tx[w].expected + tx[w].inserted
        /\ outboxRow(w).id = nextId
    BY DEF outboxRow
  <2>3. QueuedOK(w)
    BY DEF StoreInv
  <2>4. \A q \in tx'[w].queued :
          /\ q.stream = stream(w)
          /\ q.version \in (tx[w].expected + 1)..(tx[w].expected + tx[w].inserted)
          /\ q.id \in 1..(nextId' - 1)
    BY <1>1, <1>5, <1>7, <2>1, <2>2, <2>3 DEF QueuedOK
  <2>5. \A v \in (tx[w].expected + 1)..(tx[w].expected + tx[w].inserted) :
          \E q \in tx'[w].queued : q.version = v
    <3>. SUFFICES ASSUME NEW v \in (tx[w].expected + 1)..(tx[w].expected + tx[w].inserted)
                  PROVE  \E q \in tx'[w].queued : q.version = v
      OBVIOUS
    <3>1. CASE v = tx[w].expected + tx[w].inserted
      BY <1>7, <2>2, <3>1
    <3>2. CASE v # tx[w].expected + tx[w].inserted
      <4>1. v \in (tx[w].expected + 1)..(tx[w].expected + enqueued(w))
        BY <1>5, <2>1, <3>2
      <4>. QED  BY <1>7, <2>3, <4>1 DEF QueuedOK
    <3>. QED  BY <3>1, <3>2
  <2>6. \A p, q \in tx'[w].queued : p.version < q.version => p.id < q.id
    <3>. SUFFICES ASSUME NEW p \in tx'[w].queued, NEW q \in tx'[w].queued, p.version < q.version
                  PROVE  p.id < q.id
      OBVIOUS
    <3>1. CASE q \in tx[w].queued
      <4>1. p # outboxRow(w)
        BY <1>5, <2>1, <2>2, <2>3, <3>1 DEF QueuedOK
      <4>. QED  BY <1>7, <2>3, <3>1, <4>1 DEF QueuedOK
    <3>2. CASE q = outboxRow(w)
      <4>1. p # outboxRow(w)
        BY <1>5, <2>2, <3>2
      <4>2. p \in tx[w].queued
        BY <1>7, <4>1
      <4>. QED  BY <1>5, <2>2, <2>3, <3>2, <4>2 DEF QueuedOK
    <3>. QED  BY <1>7, <3>1, <3>2
  <2>7. \A p \in outbox, q \in tx'[w].queued : p.stream = stream(w) => p.id < q.id
    BY <1>5, <1>7, <2>2, <2>3 DEF QueuedOK, StoreInv, OutboxOK
  <2>. QED  BY <1>1, <1>4, <1>7, <2>1, <2>4, <2>5, <2>6, <2>7 DEF QueuedOK
<1>14. OutboxOK' /\ OutboxFollowsStream'
  BY <1>1, <1>5, <1>8 DEF StoreInv, OutboxOK, OutboxFollowsStream, Row
<1>15. DOMAIN events' = Streams /\ DOMAIN tx' = Writers
  BY <1>1, <1>2 DEF StoreInv
<1>. QED  BY <1>8, <1>10, <1>11, <1>12, <1>13, <1>14, <1>15 DEF StoreInv

\* What a commit does to the streams: the one written grows to the last version
\* inserted, without a gap, and the others stay.
LEMMA CommittedStream ==
  ASSUME StoreInv, NEW w \in Writers, Commit(w)
  PROVE  /\ head(stream(w))' = tx[w].expected + tx[w].inserted
         /\ head(stream(w)) = tx[w].expected
         /\ tx[w].inserted \in 1..MaxBatch
         /\ tx[w].expected \in Nat
         /\ tx[w].expected + tx[w].inserted <= MaxVersion
         /\ versions(w) = (tx[w].expected + 1)..(tx[w].expected + tx[w].inserted)
         /\ DOMAIN events'[stream(w)] = 1..(tx[w].expected + tx[w].inserted)
         /\ \A v \in DOMAIN events'[stream(w)] :
              events'[stream(w)][v] = IF v > tx[w].expected THEN w ELSE events[stream(w)][v]
         /\ \A s \in Streams \ {stream(w)} : events'[s] = events[s] /\ head(s)' = head(s)
         /\ DOMAIN events' = Streams
<1>1. stream(w) \in Streams /\ stream(w)' = stream(w)
  BY EventStoreAssumption DEF stream
<1>2. TxOK(w) /\ Exclusive(w) /\ StreamOK(stream(w)) /\ tx[w].pc = "commit"
  BY <1>1 DEF StoreInv, Commit
<1>3. /\ tx[w].inserted \in 1..MaxBatch
      /\ tx[w].expected \in Nat
      /\ tx[w].expected + tx[w].inserted <= MaxVersion
      /\ head(stream(w)) = tx[w].expected
      /\ DOMAIN events[stream(w)] = 1..tx[w].expected
  BY <1>2, EventStoreAssumption DEF TxOK, Exclusive, StreamOK
<1>4. versions(w) = (tx[w].expected + 1)..(tx[w].expected + tx[w].inserted)
  BY DEF versions
<1>5. /\ DOMAIN events' = Streams
      /\ \A s \in Streams \ {stream(w)} : events'[s] = events[s]
      /\ events'[stream(w)] = [v \in DOMAIN events[stream(w)] \cup versions(w) |->
                                 IF v \in versions(w) THEN w ELSE events[stream(w)][v]]
  BY <1>1 DEF Commit, StoreInv
<1>6. DOMAIN events[stream(w)] \cup versions(w) = 1..(tx[w].expected + tx[w].inserted)
  BY <1>3, <1>4
<1>7. DOMAIN events'[stream(w)] = 1..(tx[w].expected + tx[w].inserted)
  BY <1>5, <1>6
<1>8. \A v \in DOMAIN events'[stream(w)] :
        events'[stream(w)][v] = IF v > tx[w].expected THEN w ELSE events[stream(w)][v]
  BY <1>3, <1>4, <1>5, <1>6, <1>7
<1>9. head(stream(w))' = tx[w].expected + tx[w].inserted
  <2>1. tx[w].expected + tx[w].inserted \in Nat
    BY <1>3, EventStoreAssumption
  <2>. QED  BY <1>1, <1>7, <2>1, HeadOfInterval DEF head
<1>10. \A s \in Streams \ {stream(w)} : head(s)' = head(s)
  BY <1>5 DEF head
<1>. QED  BY <1>3, <1>4, <1>5, <1>7, <1>8, <1>9, <1>10

\* A commit: nobody else is on the stream, so nothing that others hold is
\* overtaken, neither a version nor an outbox number.
LEMMA StoreInvCommit ==
  ASSUME StoreInv, NEW w \in Writers, Commit(w)
  PROVE  StoreInv'
<1>1. /\ tx[w].pc = "commit"
      /\ outbox' = outbox \cup tx[w].queued
      /\ nextId' = nextId
      /\ tx' = [tx EXCEPT ![w] = Idle]
  BY DEF Commit
<1>2. /\ head(stream(w))' = tx[w].expected + tx[w].inserted
      /\ head(stream(w)) = tx[w].expected
      /\ tx[w].inserted \in 1..MaxBatch
      /\ tx[w].expected \in Nat
      /\ tx[w].expected + tx[w].inserted <= MaxVersion
      /\ DOMAIN events'[stream(w)] = 1..(tx[w].expected + tx[w].inserted)
      /\ \A v \in DOMAIN events'[stream(w)] :
           events'[stream(w)][v] = IF v > tx[w].expected THEN w ELSE events[stream(w)][v]
      /\ \A s \in Streams \ {stream(w)} : events'[s] = events[s] /\ head(s)' = head(s)
      /\ DOMAIN events' = Streams
  BY CommittedStream
<1>3. \A u \in Writers : stream(u) \in Streams /\ stream(u)' = stream(u)
  BY EventStoreAssumption DEF stream
<1>4. tx'[w] = Idle /\ (\A u \in Writers \ {w} : tx'[u] = tx[u]) /\ DOMAIN tx' = Writers
  BY <1>1 DEF StoreInv
<1>5. \A s \in Streams : /\ head(s) \in Nat
                         /\ head(s)' \in Nat
                         /\ head(s) <= head(s)'
  <2>1. \A s \in Streams : head(s) \in Nat
    BY EventStoreAssumption DEF StoreInv, StreamOK
  <2>. QED  BY <1>2, <1>3, <2>1, EventStoreAssumption
<1>6. \A s \in Streams : StreamOK(s)'
  <2>1. StreamOK(stream(w))'
    <3>1. ASSUME NEW v \in 1..(tx[w].expected + tx[w].inserted)
          PROVE  events'[stream(w)][v] \in Writers
      <4>1. StreamOK(stream(w))
        BY <1>3 DEF StoreInv
      <4>2. CASE v > tx[w].expected
        BY <1>2, <4>2
      <4>3. CASE ~(v > tx[w].expected)
        <5>1. v \in 1..head(stream(w))
          BY <1>2, <4>3, EventStoreAssumption
        <5>. QED  BY <1>2, <4>1, <4>3, <5>1 DEF StreamOK
      <4>. QED  BY <4>2, <4>3
    <3>. QED  BY <1>2, <1>3, <3>1, EventStoreAssumption DEF StreamOK
  <2>2. ASSUME NEW s \in Streams \ {stream(w)}
        PROVE  StreamOK(s)'
    BY <1>2 DEF StoreInv, StreamOK
  <2>. QED  BY <1>3, <2>1, <2>2
<1>7. \A u \in Writers : TxOK(u)'
  <2>1. TxOK(w)'
    BY <1>4 DEF TxOK, TxState, Idle
  <2>2. ASSUME NEW u \in Writers \ {w}
        PROVE  TxOK(u)'
    <3>1. TxOK(u)
      BY DEF StoreInv
    <3>2. tx[u].expected \in 0..head(stream(u)) => tx[u].expected \in 0..head(stream(u))'
      BY <1>3, <1>5
    <3>. QED  BY <1>3, <1>4, <3>1, <3>2 DEF TxOK
  <2>. QED  BY <2>1, <2>2
<1>8. ASSUME NEW u \in Writers \ {w}, stream(u) = stream(w)
      PROVE  tx[u].inserted = 0 /\ tx[u].queued = {}
  <2>1. tx[u].inserted = 0
    BY <1>2, <1>8, EventStoreAssumption DEF StoreInv, Exclusive
  <2>2. TxOK(u) /\ QueuedOK(u)
    BY DEF StoreInv
  <2>3. tx[u].expected \in Int /\ enqueued(u) = 0
    BY <2>1, <2>2 DEF TxOK, TxState, enqueued
  <2>. QED  BY <2>1, <2>2, <2>3 DEF QueuedOK
<1>9. \A u \in Writers : Exclusive(u)'
  <2>1. Exclusive(w)'
    BY <1>4 DEF Exclusive, Idle
  <2>2. ASSUME NEW u \in Writers \ {w}, tx[u].inserted > 0
        PROVE  /\ tx[u].expected = head(stream(u))'
               /\ \A x \in Writers \ {u} : stream(x) = stream(u) => tx'[x].inserted = 0
    <3>1. stream(u) # stream(w)
      BY <1>8, <2>2
    <3>2. head(stream(u))' = head(stream(u))
      BY <1>2, <1>3, <3>1
    <3>. QED  BY <1>3, <1>4, <2>2, <3>1, <3>2 DEF StoreInv, Exclusive
  <2>. QED  BY <1>3, <1>4, <2>1, <2>2 DEF Exclusive
<1>10. QueuedOK(w)
  BY DEF StoreInv
<1>11. \A u \in Writers : QueuedOK(u)'
  <2>1. QueuedOK(w)'
    BY <1>4 DEF QueuedOK, enqueued, Idle
  <2>2. ASSUME NEW u \in Writers \ {w}
        PROVE  QueuedOK(u)'
    <3>1. QueuedOK(u)
      BY DEF StoreInv
    <3>2. \A p \in outbox', q \in tx[u].queued : p.stream = stream(u) => p.id < q.id
      BY <1>1, <1>8, <1>10, <3>1 DEF QueuedOK
    <3>3. enqueued(u)' = enqueued(u)
      BY <1>4 DEF enqueued
    <3>. QED  BY <1>1, <1>3, <1>4, <3>1, <3>2, <3>3 DEF QueuedOK
  <2>. QED  BY <2>1, <2>2
<1>12. enqueued(w) = tx[w].inserted
  BY <1>1 DEF enqueued
<1>13. OutboxOK'
  <2>1. \A p \in outbox : p \in Row /\ p.version \in 1..head(p.stream)'
    BY <1>5 DEF StoreInv, OutboxOK, Row
  <2>2. \A q \in tx[w].queued : q \in Row
    BY DEF StoreInv, TxOK, TxState
  <2>3. \A q \in tx[w].queued : q.version \in 1..head(q.stream)'
    BY <1>2, <1>3, <1>10, <1>12, EventStoreAssumption DEF QueuedOK
  <2>4. nextId \in Nat \ {0} /\ \A p \in outbox' : p.id < nextId /\ p.id > 0
    BY <1>1, <1>10 DEF QueuedOK, StoreInv, OutboxOK
  <2>. QED  BY <1>1, <2>1, <2>2, <2>3, <2>4 DEF OutboxOK
<1>14. OutboxFollowsStream'
  <2>. SUFFICES ASSUME NEW p \in outbox', NEW q \in outbox',
                       p.stream = q.stream, p.version < q.version
                PROVE  p.id < q.id
    BY DEF OutboxFollowsStream
  <2>1. CASE p \in outbox /\ q \in outbox
    BY <2>1 DEF StoreInv, OutboxFollowsStream
  <2>2. CASE p \in tx[w].queued /\ q \in tx[w].queued
    BY <1>10, <2>2 DEF QueuedOK
  <2>3. CASE p \in outbox /\ q \in tx[w].queued
    BY <1>10, <2>3 DEF QueuedOK
  <2>4. CASE p \in tx[w].queued /\ q \in outbox
    <3>1. p.stream = stream(w) /\ p.version \in (tx[w].expected + 1)..(tx[w].expected + tx[w].inserted)
      BY <1>10, <1>12, <2>4 DEF QueuedOK
    <3>2. q.version \in 1..tx[w].expected
      BY <1>2, <2>4, <3>1 DEF StoreInv, OutboxOK
    <3>. QED  BY <1>2, <3>1, <3>2, EventStoreAssumption
  <2>. QED  BY <1>1, <2>1, <2>2, <2>3, <2>4
<1>. QED  BY <1>2, <1>4, <1>6, <1>7, <1>9, <1>11, <1>13, <1>14 DEF StoreInv

\* The relay only takes rows away from the outbox.
LEMMA StoreInvOutboxShrinks ==
  ASSUME StoreInv, outbox' \subseteq outbox, UNCHANGED <<events, nextId, tx>>
  PROVE  StoreInv'
<1>1. \A s \in Streams : head(s)' = head(s) /\ StreamOK(s)'
  BY SameStreams DEF StoreInv
<1>2. \A u \in Writers : stream(u) \in Streams /\ stream(u)' = stream(u)
  BY EventStoreAssumption DEF stream
<1>3. \A u \in Writers : TxOK(u)' /\ Exclusive(u)'
  BY <1>1, <1>2 DEF StoreInv, TxOK, Exclusive
<1>4. \A u \in Writers : QueuedOK(u)'
  BY <1>2 DEF StoreInv, QueuedOK, enqueued
<1>5. OutboxOK' /\ OutboxFollowsStream'
  BY <1>1 DEF StoreInv, OutboxOK, OutboxFollowsStream, Row
<1>. QED  BY <1>1, <1>3, <1>4, <1>5 DEF StoreInv

\* Every step of the store and of the relays preserves the store's invariant.
LEMMA StoreInvNext == StoreInv /\ [Next]_vars => StoreInv'
<1>. SUFFICES ASSUME StoreInv, [Next]_vars PROVE StoreInv'
  OBVIOUS
<1>1. ASSUME NEW w \in Writers, GetByID(w)
      PROVE  StoreInv'
  BY <1>1, StoreInvLoad
<1>2. ASSUME NEW w \in Writers, Save(w)
      PROVE  StoreInv'
  BY <1>2, StoreInvCheckHead, StoreInvInsertEvent, StoreInvEnqueue, StoreInvCommit DEF Save
<1>3. ASSUME NEW w \in Writers, Rollback(w)
      PROVE  StoreInv'
  BY <1>3, StoreInvGivesUp DEF Rollback
<1>4. ASSUME NEW r \in Relays, DispatchPending(r) \/ AbortBatch(r)
      PROVE  StoreInv'
  <2>1. outbox' \subseteq outbox /\ UNCHANGED <<events, nextId, tx>>
    BY <1>4 DEF DispatchPending, Claim, Publish, PublishRow, CommitBatch, AbortBatch, EndBatch
  <2>. QED  BY <2>1, StoreInvOutboxShrinks
<1>5. CASE UNCHANGED vars
  BY <1>5, StoreInvOutboxShrinks DEF vars
<1>. QED  BY <1>1, <1>2, <1>3, <1>4, <1>5 DEF Next

-----------------------------------------------------------------------------
\* The relays hold disjoint parts of the outbox, and have published what they
\* have deleted.
RelayOK ==
  /\ batch \in [Relays -> SUBSET outbox]
  /\ deleted \in [Relays -> SUBSET outbox]
  /\ \A r \in Relays : /\ deleted[r] \subseteq batch[r]
                       /\ \A q \in Relays \ {r} : batch[q] \cap batch[r] = {}
                       /\ \A row \in deleted[r] : Event(row) \in OnBroker
  /\ published \in Seq([stream : Streams, version : Nat])
  /\ faults \in 0..MaxFaults

\* The inductive invariant of the specification.
IInv == StoreInv /\ RelayOK /\ NoEventLost

\* Appending to a sequence of any kind of element.
LEMMA AppendFacts ==
  ASSUME NEW S, NEW q \in Seq(S), NEW e \in S
  PROVE  /\ Append(q, e) \in Seq(S)
         /\ DOMAIN Append(q, e) = (DOMAIN q) \cup {Len(q) + 1}
         /\ Append(q, e)[Len(q) + 1] = e
         /\ \A i \in DOMAIN q : Append(q, e)[i] = q[i]
OBVIOUS

\* The first publication of an event adds it to the broker; a repeated one
\* changes nothing.
LEMMA PublishAdds ==
  ASSUME NEW S, NEW e \in S, published \in Seq(S),
         published' = IF e \in OnBroker THEN published ELSE Append(published, e)
  PROVE  published' \in Seq(S) /\ OnBroker' = OnBroker \cup {e}
<1>1. CASE e \in OnBroker
  BY <1>1 DEF OnBroker
<1>2. CASE e \notin OnBroker
  <2>1. published' = Append(published, e)
    BY <1>2
  <2>2. /\ published' \in Seq(S)
        /\ DOMAIN published' = (DOMAIN published) \cup {Len(published) + 1}
        /\ published'[Len(published) + 1] = e
        /\ \A i \in DOMAIN published : published'[i] = published[i]
    BY <2>1, AppendFacts
  <2>3. ASSUME NEW x
        PROVE  x \in OnBroker' <=> x \in OnBroker \/ x = e
    <3>1. x \in OnBroker' <=> \E i \in DOMAIN published' : x = published'[i]
      BY DEF OnBroker
    <3>2. x \in OnBroker <=> \E i \in DOMAIN published : x = published[i]
      BY DEF OnBroker
    <3>. QED  BY <2>2, <3>1, <3>2, Zenon
  <2>. QED  BY <2>2, <2>3
<1>. QED  BY <1>1, <1>2

\* The committed events after a commit.
LEMMA CommitAddsEvents ==
  ASSUME StoreInv, NEW w \in Writers, Commit(w)
  PROVE  CommittedEvents' = CommittedEvents \cup {Event(row) : row \in tx[w].queued}
<1>1. /\ DOMAIN events'[stream(w)] = 1..(tx[w].expected + tx[w].inserted)
      /\ \A s \in Streams \ {stream(w)} : events'[s] = events[s]
      /\ head(stream(w)) = tx[w].expected
      /\ tx[w].expected \in Nat
      /\ tx[w].inserted \in 1..MaxBatch
  BY CommittedStream
<1>2. stream(w) \in Streams /\ QueuedOK(w) /\ StreamOK(stream(w))
  BY EventStoreAssumption DEF stream, StoreInv
<1>3. enqueued(w) = tx[w].inserted
  BY DEF Commit, enqueued
<1>4. DOMAIN events'[stream(w)] = DOMAIN events[stream(w)] \cup {row.version : row \in tx[w].queued}
  <2>1. DOMAIN events[stream(w)] = 1..tx[w].expected
    BY <1>1, <1>2 DEF StreamOK
  <2>2. {row.version : row \in tx[w].queued}
          = (tx[w].expected + 1)..(tx[w].expected + tx[w].inserted)
    BY <1>2, <1>3 DEF QueuedOK
  <2>3. 1..(tx[w].expected + tx[w].inserted)
          = (1..tx[w].expected) \cup ((tx[w].expected + 1)..(tx[w].expected + tx[w].inserted))
    BY <1>1, EventStoreAssumption
  <2>. QED  BY <1>1, <2>1, <2>2, <2>3
<1>5. {Event(row) : row \in tx[w].queued}
        = {[stream |-> stream(w), version |-> v] : v \in {row.version : row \in tx[w].queued}}
  BY <1>2 DEF QueuedOK, Event
<1>6. ASSUME NEW e
      PROVE  e \in CommittedEvents' <=> e \in CommittedEvents \/ e \in {Event(row) : row \in tx[w].queued}
  <2>1. e \in CommittedEvents' <=> \E s \in Streams : \E v \in DOMAIN events'[s] : e = [stream |-> s, version |-> v]
    BY DEF CommittedEvents
  <2>2. e \in CommittedEvents <=> \E s \in Streams : \E v \in DOMAIN events[s] : e = [stream |-> s, version |-> v]
    BY DEF CommittedEvents
  <2>3. e \in {Event(row) : row \in tx[w].queued} <=>
          \E v \in {row.version : row \in tx[w].queued} : e = [stream |-> stream(w), version |-> v]
    BY <1>5, Zenon
  <2>4. (\E s \in Streams : \E v \in DOMAIN events'[s] : e = [stream |-> s, version |-> v])
          <=> \/ \E s \in Streams : \E v \in DOMAIN events[s] : e = [stream |-> s, version |-> v]
              \/ \E v \in {row.version : row \in tx[w].queued} : e = [stream |-> stream(w), version |-> v]
    BY <1>1, <1>2, <1>4, Zenon
  <2>. QED  BY <2>1, <2>2, <2>3, <2>4
<1>. QED  BY <1>6

\* A step that leaves the streams alone leaves the committed events alone.
LEMMA SameEvents == events' = events => CommittedEvents' = CommittedEvents
BY DEF CommittedEvents

\* What a writer does cannot disturb the relays, and what it commits waits in
\* the outbox.
LEMMA WriterKeepsRelays ==
  ASSUME IInv, NEW w \in Writers, GetByID(w) \/ Save(w) \/ Rollback(w), UNCHANGED relayVars
  PROVE  RelayOK' /\ NoEventLost'
<1>1. outbox \subseteq outbox' /\ faults' \in 0..MaxFaults
  <2>1. outbox \subseteq outbox' /\ (faults' = faults \/ Fault)
    BY DEF GetByID, Save, Rollback, CheckHead, InsertEvent, Enqueue, Commit
  <2>2. faults \in 0..MaxFaults
    BY DEF IInv, RelayOK
  <2>. QED  BY <2>1, <2>2, EventStoreAssumption DEF Fault
<1>2. batch' = batch /\ deleted' = deleted /\ published' = published /\ OnBroker' = OnBroker
  BY DEF relayVars, OnBroker
<1>3. RelayOK'
  BY <1>1, <1>2 DEF IInv, RelayOK, Event
<1>4. CASE Commit(w)
  <2>1. CommittedEvents' = CommittedEvents \cup {Event(row) : row \in tx[w].queued}
    BY <1>4, CommitAddsEvents DEF IInv
  <2>2. outbox' = outbox \cup tx[w].queued
    BY <1>4 DEF Commit
  <2>3. {Event(row) : row \in outbox'} = {Event(row) : row \in outbox} \cup {Event(row) : row \in tx[w].queued}
    BY <2>2
  <2>. QED  BY <1>2, <1>3, <2>1, <2>3 DEF IInv, NoEventLost, Event
<1>5. CASE ~Commit(w)
  <2>1. events' = events /\ outbox' = outbox
    BY <1>5 DEF GetByID, Save, Rollback, CheckHead, InsertEvent, Enqueue
  <2>. QED  BY <1>2, <1>3, <2>1, SameEvents DEF IInv, NoEventLost, Event
<1>. QED  BY <1>4, <1>5

\* What a relay does keeps its rows apart from the others', and a row leaves
\* the outbox for good only after its event was published.
LEMMA RelayKeepsEvents ==
  ASSUME IInv, NEW r \in Relays, DispatchPending(r) \/ AbortBatch(r)
  PROVE  RelayOK' /\ NoEventLost'
<1>1. CASE Claim(r)
  <2>1. FirstRows(Unlocked, Limit) \subseteq Unlocked
    BY DEF FirstRows
  <2>2. /\ batch' = [batch EXCEPT ![r] = FirstRows(Unlocked, Limit)]
        /\ UNCHANGED <<deleted, published, events, outbox, faults>>
        /\ batch[r] = {}
    BY <1>1 DEF Claim
  <2>3. OnBroker' = OnBroker /\ CommittedEvents' = CommittedEvents
    BY <2>2, SameEvents DEF OnBroker
  <2>4. RelayOK'
    BY <2>1, <2>2, <2>3 DEF IInv, RelayOK, Unlocked, Event
  <2>. QED  BY <2>2, <2>3, <2>4 DEF IInv, NoEventLost, Event
<1>2. CASE Publish(r)
  <2>1. PICK row \in batch[r] \ deleted[r] : PublishRow(r, row)
    BY <1>2 DEF Publish
  <2>2. row \in outbox /\ Event(row) \in [stream : Streams, version : Nat]
    BY DEF IInv, RelayOK, StoreInv, OutboxOK, Row, Event
  <2>3. /\ published' \in Seq([stream : Streams, version : Nat])
        /\ OnBroker' = OnBroker \cup {Event(row)}
    BY <2>1, <2>2, PublishAdds DEF PublishRow, IInv, RelayOK
  <2>4. /\ deleted' = [deleted EXCEPT ![r] = @ \cup {row}]
        /\ UNCHANGED <<batch, events, outbox, faults>>
    BY <2>1 DEF PublishRow
  <2>5. RelayOK'
    BY <2>2, <2>3, <2>4 DEF IInv, RelayOK, Event
  <2>6. CommittedEvents' = CommittedEvents
    BY <2>4, SameEvents
  <2>. QED  BY <2>2, <2>3, <2>4, <2>5, <2>6 DEF IInv, NoEventLost, Event
<1>3. CASE CommitBatch(r)
  <2>1. /\ outbox' = outbox \ deleted[r]
        /\ batch[r] = deleted[r]
        /\ batch' = [batch EXCEPT ![r] = {}]
        /\ deleted' = [deleted EXCEPT ![r] = {}]
        /\ UNCHANGED <<published, events, faults>>
    BY <1>3 DEF CommitBatch, EndBatch
  <2>2. OnBroker' = OnBroker /\ CommittedEvents' = CommittedEvents
    BY <2>1, SameEvents DEF OnBroker
  <2>3. RelayOK'
    BY <2>1, <2>2 DEF IInv, RelayOK, Event
  <2>4. \A row \in deleted[r] : Event(row) \in OnBroker
    BY DEF IInv, RelayOK
  <2>. QED  BY <2>1, <2>2, <2>3, <2>4 DEF IInv, NoEventLost, Event
<1>4. CASE AbortBatch(r)
  <2>1. /\ batch' = [batch EXCEPT ![r] = {}]
        /\ deleted' = [deleted EXCEPT ![r] = {}]
        /\ UNCHANGED <<published, events, outbox>>
        /\ faults' \in 0..MaxFaults
    BY <1>4, EventStoreAssumption DEF AbortBatch, EndBatch, Fault, IInv, RelayOK
  <2>2. OnBroker' = OnBroker /\ CommittedEvents' = CommittedEvents
    BY <2>1, SameEvents DEF OnBroker
  <2>3. RelayOK'
    BY <2>1, <2>2 DEF IInv, RelayOK, Event
  <2>. QED  BY <2>1, <2>2, <2>3 DEF IInv, NoEventLost, Event
<1>. QED  BY <1>1, <1>2, <1>3, <1>4 DEF DispatchPending

-----------------------------------------------------------------------------
\* The invariant holds throughout, for any number of writers and relays.
THEOREM IInvAlways == Spec => []IInv
<1>1. Init => IInv
  <2>. SUFFICES ASSUME Init PROVE IInv
    OBVIOUS
  <2>1. StoreInv
    BY StoreInvInit DEF Init
  <2>2. OnBroker = {}
    BY DEF Init, OnBroker
  <2>3. RelayOK
    <3>1. published \in Seq([stream : Streams, version : Nat])
      BY DEF Init
    <3>2. batch \in [Relays -> SUBSET outbox] /\ deleted \in [Relays -> SUBSET outbox]
      BY DEF Init
    <3>3. faults \in 0..MaxFaults
      BY EventStoreAssumption DEF Init, StoreInit
    <3>. QED  BY <3>1, <3>2, <3>3 DEF Init, RelayOK
  <2>4. NoEventLost
    BY <2>2 DEF Init, StoreInit, NoEventLost, CommittedEvents
  <2>. QED  BY <2>1, <2>3, <2>4 DEF IInv
<1>2. IInv /\ [Next]_vars => IInv'
  <2>. SUFFICES ASSUME IInv, [Next]_vars PROVE IInv'
    OBVIOUS
  <2>1. StoreInv'
    BY StoreInvNext DEF IInv
  <2>2. ASSUME NEW w \in Writers, GetByID(w) \/ Save(w) \/ Rollback(w), UNCHANGED relayVars
        PROVE  RelayOK' /\ NoEventLost'
    BY <2>2, WriterKeepsRelays
  <2>3. ASSUME NEW r \in Relays, DispatchPending(r) \/ AbortBatch(r)
        PROVE  RelayOK' /\ NoEventLost'
    BY <2>3, RelayKeepsEvents
  <2>4. CASE UNCHANGED vars
    <3>1. OnBroker' = OnBroker /\ CommittedEvents' = CommittedEvents
      BY <2>4, SameEvents DEF vars, OnBroker
    <3>. QED  BY <2>1, <2>4, <3>1 DEF vars, IInv, RelayOK, NoEventLost, Event
  <2>. QED  BY <2>1, <2>2, <2>3, <2>4 DEF IInv, Next
<1>. QED  BY <1>1, <1>2, PTL DEF Spec

\* Tables, transactions and batches are well formed; in particular the relays
\* of any number of replicas claim disjoint rows (FOR UPDATE SKIP LOCKED).
THEOREM TypeCorrect == Spec => []TypeOK
<1>1. IInv => TypeOK
  <2>. SUFFICES ASSUME IInv PROVE TypeOK
    OBVIOUS
  <2>1. \A s \in Streams : /\ DOMAIN events[s] \subseteq 1..MaxVersion
                           /\ \A v \in DOMAIN events[s] : events[s][v] \in Writers
    BY EventStoreAssumption DEF IInv, StoreInv, StreamOK
  <2>2. \A row \in outbox : /\ row.id \in 1..(nextId - 1)
                            /\ row.stream \in Streams
                            /\ row.version \in 1..MaxVersion
    <3>. SUFFICES ASSUME NEW row \in outbox
                  PROVE  /\ row.id \in 1..(nextId - 1)
                         /\ row.stream \in Streams
                         /\ row.version \in 1..MaxVersion
      OBVIOUS
    <3>1. /\ row.id \in Nat /\ row.stream \in Streams /\ row.version \in 1..head(row.stream)
          /\ row.id < nextId /\ row.id > 0 /\ nextId \in Nat
      BY DEF IInv, StoreInv, OutboxOK, Row
    <3>2. head(row.stream) \in 0..MaxVersion
      BY <3>1 DEF IInv, StoreInv, StreamOK
    <3>. QED  BY <3>1, <3>2, EventStoreAssumption
  <2>3. ASSUME NEW w \in Writers
        PROVE  /\ tx[w].pc \in {"idle", "loaded", "insert", "enqueue", "commit"}
               /\ tx[w].expected \in -1..MaxVersion
               /\ tx[w].size \in 0..MaxBatch
               /\ tx[w].inserted \in 0..tx[w].size
               /\ versions(w) \subseteq 1..MaxVersion
    <3>1. TxOK(w)
      BY DEF IInv, StoreInv
    <3>2. CASE tx[w].pc = "idle"
      <4>1. tx[w] = Idle
        BY <3>1, <3>2 DEF TxOK
      <4>. QED  BY <3>2, <4>1, EventStoreAssumption DEF Idle, versions
    <3>3. CASE tx[w].pc # "idle"
      <4>1. /\ tx[w].expected \in Nat
            /\ tx[w].size \in 1..MaxBatch
            /\ tx[w].inserted \in 0..tx[w].size
            /\ tx[w].expected + tx[w].size <= MaxVersion
            /\ tx[w].pc \in {"idle", "loaded", "insert", "enqueue", "commit"}
        BY <3>1, <3>3 DEF TxOK, TxState
      <4>. QED  BY <4>1, EventStoreAssumption DEF versions
    <3>. QED  BY <3>2, <3>3
  <2>4. faults \in 0..MaxFaults
    BY DEF IInv, RelayOK
  <2>5. StoreTypeOK
    BY <2>1, <2>2, <2>3, <2>4 DEF StoreTypeOK
  <2>. QED  BY <2>5 DEF TypeOK, IInv, RelayOK
<1>. QED  BY <1>1, IInvAlways, PTL

\* "A crash between append and publish can no longer lose an event": whatever
\* transactions and relay batches fail, and however many relays run.
THEOREM NoEventIsLost == Spec => []NoEventLost
<1>1. IInv => NoEventLost
  BY DEF IInv
<1>. QED  BY <1>1, IInvAlways, PTL

\* The outbox numbers of an aggregate's events follow their versions.
THEOREM OutboxKeepsStreamOrder == Spec => []OutboxFollowsStream
<1>1. IInv => OutboxFollowsStream
  BY DEF IInv, StoreInv
<1>. QED  BY <1>1, IInvAlways, PTL

-----------------------------------------------------------------------------
\* A step that does not touch what w expects of its stream is no step of the
\* log; one that resets it is a refusal.
LEMMA GivingUpRefuses ==
  ASSUME StoreInv, NEW w \in Writers, tx[w].pc # "idle",
         tx' = [tx EXCEPT ![w] = Idle], events' = events
  PROVE  Log!Refuse(w)
<1>1. tx[w].expected \in Nat
  BY EventStoreAssumption DEF StoreInv, TxOK, stream, StreamOK
<1>2. [u \in Writers |-> tx'[u].expected]
        = [[u \in Writers |-> tx[u].expected] EXCEPT ![w] = -1]
  BY DEF Idle, StoreInv
<1>. QED  BY <1>1, <1>2 DEF Log!Refuse, Log!NotLoaded

\* One step per action of the store: a read, an append of all the events of a
\* Save, a refusal, or nothing that the log can see.
LEMMA StoreStepIsLogStep ==
  ASSUME StoreInv, NEW w \in Writers, GetByID(w) \/ Save(w) \/ Rollback(w)
  PROVE  [Log!LogNext]_(Log!logVars)
<1>0. DOMAIN tx = Writers /\ stream(w) = Target[w] /\ stream(w) \in Streams
  BY EventStoreAssumption DEF StoreInv, stream
<1>1. CASE GetByID(w)
  <2>1. PICK size \in 1..MaxBatch :
          tx' = [tx EXCEPT ![w] = [Idle EXCEPT
                  !.pc = "loaded",
                  !.expected = Cardinality(DOMAIN events[stream(w)]),
                  !.size = size]]
    BY <1>1 DEF GetByID
  <2>2. [u \in Writers |-> tx'[u].expected]
          = [[u \in Writers |-> tx[u].expected] EXCEPT ![w] = Log!Length(events[Target[w]])]
    BY <1>0, <2>1, LengthIsHead DEF Idle, StoreInv
  <2>3. Log!ReadStream(w)
    BY <1>1, <2>2 DEF GetByID, Log!ReadStream
  <2>. QED  BY <2>3 DEF Log!LogNext
<1>2. CASE CheckHead(w)
  <2>1. events' = events /\ tx[w].pc # "idle"
    BY <1>2 DEF CheckHead
  <2>2. CASE tx' = [tx EXCEPT ![w] = Idle]
    BY <2>1, <2>2, GivingUpRefuses DEF Log!LogNext
  <2>3. CASE tx' = [tx EXCEPT ![w].pc = "insert"]
    <3>1. [u \in Writers |-> tx'[u].expected] = [u \in Writers |-> tx[u].expected]
      BY <1>0, <2>3
    <3>. QED  BY <2>1, <3>1 DEF Log!logVars
  <2>. QED  BY <1>2, <2>2, <2>3 DEF CheckHead
<1>3. CASE InsertEvent(w)
  <2>1. events' = events /\ tx[w].pc # "idle"
    BY <1>3 DEF InsertEvent
  <2>2. CASE tx' = [tx EXCEPT ![w] = Idle]
    BY <2>1, <2>2, GivingUpRefuses DEF Log!LogNext
  <2>3. CASE tx' = [tx EXCEPT ![w].inserted = @ + 1, ![w].pc = "enqueue"]
    <3>1. [u \in Writers |-> tx'[u].expected] = [u \in Writers |-> tx[u].expected]
      BY <1>0, <2>3
    <3>. QED  BY <2>1, <3>1 DEF Log!logVars
  <2>. QED  BY <1>3, <2>2, <2>3 DEF InsertEvent
<1>4. CASE Enqueue(w)
  <2>1. [u \in Writers |-> tx'[u].expected] = [u \in Writers |-> tx[u].expected]
    BY <1>0, <1>4 DEF Enqueue
  <2>. QED  BY <1>4, <2>1 DEF Log!logVars, Enqueue
<1>5. CASE Commit(w)
  <2>1. /\ head(stream(w)) = tx[w].expected
        /\ tx[w].inserted \in 1..MaxBatch
        /\ DOMAIN events'[stream(w)] = 1..(tx[w].expected + tx[w].inserted)
        /\ \A v \in DOMAIN events'[stream(w)] :
             events'[stream(w)][v] = IF v > tx[w].expected THEN w ELSE events[stream(w)][v]
        /\ \A s \in Streams \ {stream(w)} : events'[s] = events[s]
        /\ DOMAIN events' = Streams
    BY <1>5, CommittedStream
  <2>2. tx[w].expected = Log!Length(events[Target[w]])
    BY <1>0, <2>1, LengthIsHead DEF StoreInv
  <2>3. [u \in Writers |-> tx'[u].expected]
          = [[u \in Writers |-> tx[u].expected] EXCEPT ![w] = -1]
    BY <1>0, <1>5 DEF Commit, Idle
  <2>4. events' = [events EXCEPT ![Target[w]] =
                    [v \in 1..(tx[w].expected + tx[w].inserted) |->
                       IF v > tx[w].expected THEN w ELSE @[v]]]
    <3>1. events'[Target[w]] = [v \in 1..(tx[w].expected + tx[w].inserted) |->
                                  IF v > tx[w].expected THEN w ELSE events[Target[w]][v]]
      <4>1. events'[stream(w)] = [v \in DOMAIN events[stream(w)] \cup versions(w) |->
                                   IF v \in versions(w) THEN w ELSE events[stream(w)][v]]
        BY <1>0, <1>5 DEF Commit, StoreInv
      <4>. QED  BY <1>0, <2>1, <4>1
    <3>2. events' = [events EXCEPT ![stream(w)] = events'[stream(w)]]
      BY <1>0, <1>5 DEF Commit, StoreInv
    <3>. QED  BY <1>0, <3>1, <3>2
  <2>5. Log!Append(w)
    BY <2>1, <2>2, <2>3, <2>4 DEF Log!Append, Log!NotLoaded
  <2>. QED  BY <2>5 DEF Log!LogNext
<1>6. CASE Rollback(w)
  BY <1>6, GivingUpRefuses DEF Rollback, Log!LogNext
<1>. QED  BY <1>1, <1>2, <1>3, <1>4, <1>5, <1>6 DEF Save

\* The Postgres store implements EventLog: each Save appends all its events on
\* top of exactly the events its writer had read, or nothing.
THEOREM StoreAppendsAtomically == Spec => AppendsAtomically
<1>1. Init => Log!LogInit
  <2>. SUFFICES ASSUME Init PROVE Log!LogInit
    OBVIOUS
  <2>1. [w \in Writers |-> tx[w].expected] = [w \in Writers |-> -1]
    BY DEF Init, StoreInit, Idle
  <2>. QED  BY <2>1 DEF Init, StoreInit, Log!LogInit, Log!NotLoaded
<1>2. IInv /\ [Next]_vars => [Log!LogNext]_(Log!logVars)
  <2>. SUFFICES ASSUME IInv, [Next]_vars PROVE [Log!LogNext]_(Log!logVars)
    OBVIOUS
  <2>1. ASSUME NEW w \in Writers, GetByID(w) \/ Save(w) \/ Rollback(w)
        PROVE  [Log!LogNext]_(Log!logVars)
    BY <2>1, StoreStepIsLogStep DEF IInv
  <2>2. CASE events' = events /\ tx' = tx
    BY <2>2 DEF Log!logVars
  <2>3. ASSUME NEW r \in Relays, DispatchPending(r) \/ AbortBatch(r)
        PROVE  events' = events /\ tx' = tx
    BY <2>3 DEF DispatchPending, Claim, Publish, PublishRow, CommitBatch, AbortBatch, EndBatch
  <2>. QED  BY <2>1, <2>2, <2>3 DEF Next, vars
<1>. QED  BY <1>1, <1>2, IInvAlways, PTL DEF Spec, AppendsAtomically, Log!LogSpec

-----------------------------------------------------------------------------
(* One relay publishes the events of a stream in their order.  What it has  *)
(* claimed contains, with a row, the rows of the same stream before it, and *)
(* whatever is not on the broker yet comes after what is.                   *)

ClaimsPrefix(r) ==
  \A row \in batch[r], other \in outbox :
    other.stream = row.stream /\ other.id < row.id => other \in batch[r]

NewRowsLater ==
  \A row \in outbox : Event(row) \notin OnBroker =>
    \A i \in DOMAIN published :
      published[i].stream = row.stream => published[i].version < row.version

FiniteTables ==
  IsFiniteSet(outbox) /\ \A w \in Writers : IsFiniteSet(tx[w].queued)

OrderInv(r) == IInv /\ FiniteTables /\ ClaimsPrefix(r) /\ NewRowsLater /\ PublishedInOrder

\* Only finitely many rows are ever inserted.
LEMMA FiniteTablesNext ==
  ASSUME IInv, FiniteTables, [Next]_vars
  PROVE  FiniteTables'
<1>0. DOMAIN tx = Writers /\ IsFiniteSet({})
  BY FS_EmptySet DEF IInv, StoreInv
<1>1. ASSUME NEW w \in Writers, GetByID(w) \/ Save(w) \/ Rollback(w)
      PROVE  FiniteTables'
  <2>1. CASE Enqueue(w)
    <3>1. IsFiniteSet(tx[w].queued \cup {outboxRow(w)})
      BY FS_AddElement DEF FiniteTables
    <3>2. /\ tx'[w].queued = tx[w].queued \cup {outboxRow(w)}
          /\ outbox' = outbox
          /\ \A u \in Writers \ {w} : tx'[u] = tx[u]
      <4>1. tx' = [tx EXCEPT ![w] = [tx[w] EXCEPT !.queued = @ \cup {outboxRow(w)}, !.pc = afterEnqueue(w)]]
        BY <2>1 DEF Enqueue
      <4>2. tx[w] \in TxState
        BY DEF IInv, StoreInv, TxOK
      <4>. QED  BY <1>0, <2>1, <4>1, <4>2 DEF Enqueue, TxState
    <3>. QED  BY <3>1, <3>2 DEF FiniteTables
  <2>2. CASE Commit(w)
    <3>1. IsFiniteSet(outbox \cup tx[w].queued)
      BY FS_Union DEF FiniteTables
    <3>. QED  BY <1>0, <2>2, <3>1 DEF Commit, FiniteTables, Idle
  <2>3. CASE GetByID(w) \/ CheckHead(w) \/ InsertEvent(w) \/ Rollback(w)
    <3>1. outbox' = outbox
      BY <2>3 DEF GetByID, CheckHead, InsertEvent, Rollback
    <3>2. \A u \in Writers : tx'[u].queued = {} \/ tx'[u].queued = tx[u].queued
      <4>1. tx[w] \in TxState
        BY DEF IInv, StoreInv, TxOK
      <4>2. CASE GetByID(w)
        BY <1>0, <4>2 DEF GetByID, Idle
      <4>3. CASE CheckHead(w)
        BY <1>0, <4>1, <4>3 DEF CheckHead, Idle, TxState
      <4>4. CASE InsertEvent(w)
        <5>1. tx' = [tx EXCEPT ![w] = Idle] \/ tx' = [tx EXCEPT ![w] = [tx[w] EXCEPT !.inserted = @ + 1, !.pc = "enqueue"]]
          BY <4>4 DEF InsertEvent
        <5>2. CASE tx' = [tx EXCEPT ![w] = Idle]
          BY <1>0, <5>2 DEF Idle
        <5>3. CASE tx' = [tx EXCEPT ![w] = [tx[w] EXCEPT !.inserted = @ + 1, !.pc = "enqueue"]]
          <6>1. tx'[w] = [tx[w] EXCEPT !.inserted = @ + 1, !.pc = "enqueue"]
                /\ \A u \in Writers \ {w} : tx'[u] = tx[u]
            BY <1>0, <5>3
          <6>2. tx'[w].queued = tx[w].queued
            BY <4>1, <6>1 DEF TxState
          <6>. QED  BY <6>1, <6>2
        <5>. QED  BY <5>1, <5>2, <5>3
      <4>5. CASE Rollback(w)
        BY <1>0, <4>5 DEF Rollback, Idle
      <4>. QED  BY <2>3, <4>2, <4>3, <4>4, <4>5
    <3>. QED  BY <1>0, <3>1, <3>2 DEF FiniteTables
  <2>. QED  BY <1>1, <2>1, <2>2, <2>3 DEF Save
<1>2. CASE outbox' \subseteq outbox /\ tx' = tx
  BY <1>2, FS_Subset DEF FiniteTables
<1>3. ASSUME NEW r \in Relays, DispatchPending(r) \/ AbortBatch(r)
      PROVE  outbox' \subseteq outbox /\ tx' = tx
  BY <1>3 DEF DispatchPending, Claim, Publish, PublishRow, CommitBatch, AbortBatch, EndBatch
<1>. QED  BY <1>1, <1>2, <1>3 DEF Next, vars

\* The query's LIMIT keeps a prefix of the rows by id.
LEMMA FirstRowsPrefix ==
  ASSUME NEW rows, IsFiniteSet(rows), rows \subseteq Row, NEW n \in Nat,
         NEW row \in FirstRows(rows, n), NEW other \in rows, other.id < row.id
  PROVE  other \in FirstRows(rows, n)
<1>. DEFINE before(x) == {y \in rows : y.id < x.id}
<1>1. IsFiniteSet(before(row)) /\ before(other) \subseteq before(row)
  <2>1. \A x \in rows : x.id \in Nat
    BY DEF Row
  <2>2. row \in rows
    BY DEF FirstRows
  <2>. QED  BY <2>1, <2>2, FS_Subset
<1>2. Cardinality(before(other)) <= Cardinality(before(row))
  BY <1>1, FS_Subset
<1>3. Cardinality(before(other)) \in Nat /\ Cardinality(before(row)) \in Nat
  BY <1>1, FS_Subset, FS_CardinalityType
<1>4. Cardinality(before(row)) < n
  BY DEF FirstRows
<1>5. Cardinality(before(other)) < n
  BY <1>2, <1>3, <1>4
<1>. QED  BY <1>5 DEF FirstRows

\* Writers add rows behind the rows of their stream, with later versions.
LEMMA WriterKeepsOrder ==
  ASSUME NEW r \in Relays, OrderInv(r), NEW w \in Writers,
         GetByID(w) \/ Save(w) \/ Rollback(w), UNCHANGED relayVars
  PROVE  ClaimsPrefix(r)' /\ NewRowsLater' /\ PublishedInOrder'
<1>1. batch' = batch /\ published' = published /\ OnBroker' = OnBroker
  BY DEF relayVars, OnBroker
<1>2. PublishedInOrder'
  BY <1>1 DEF OrderInv, PublishedInOrder
<1>3. CASE ~Commit(w)
  <2>1. outbox' = outbox
    BY <1>3 DEF GetByID, Save, Rollback, CheckHead, InsertEvent, Enqueue
  <2>. QED  BY <1>1, <1>2, <2>1 DEF OrderInv, ClaimsPrefix, NewRowsLater, Event
<1>4. CASE Commit(w)
  <2>1. outbox' = outbox \cup tx[w].queued
    BY <1>4 DEF Commit
  <2>2. QueuedOK(w) /\ batch[r] \subseteq outbox
    BY DEF OrderInv, IInv, StoreInv, RelayOK
  <2>3. \A p \in outbox : p.id \in Nat
    BY DEF OrderInv, IInv, StoreInv, OutboxOK, Row
  <2>4. ClaimsPrefix(r)'
    <3>. SUFFICES ASSUME NEW row \in batch[r], NEW other \in outbox',
                         other.stream = row.stream, other.id < row.id
                  PROVE  other \in batch[r]
      BY <1>1 DEF ClaimsPrefix
    <3>1. CASE other \in outbox
      BY <3>1 DEF OrderInv, ClaimsPrefix
    <3>2. CASE other \in tx[w].queued
      <4>1. row.id < other.id /\ row.id \in Nat /\ other.id \in Int
        BY <2>2, <2>3, <3>2 DEF QueuedOK
      <4>. QED  BY <4>1
    <3>. QED  BY <2>1, <3>1, <3>2
  <2>5. ASSUME NEW row \in tx[w].queued, NEW i \in DOMAIN published, published[i].stream = row.stream
        PROVE  published[i].version < row.version
    <3>1. published[i] \in CommittedEvents
      BY DEF OrderInv, IInv, NoEventLost, OnBroker
    <3>2. PICK s \in Streams : \E v \in DOMAIN events[s] : published[i] = [stream |-> s, version |-> v]
      BY <3>1 DEF CommittedEvents
    <3>3. published[i].stream = s /\ published[i].version \in DOMAIN events[s]
      BY <3>2
    <3>4. s = stream(w)
      BY <2>2, <2>5, <3>3 DEF QueuedOK
    <3>5. /\ head(s) = tx[w].expected
          /\ tx[w].expected \in Nat
          /\ tx[w].inserted \in 1..MaxBatch
          /\ DOMAIN events[s] = 1..head(s)
      BY <1>4, <3>4, CommittedStream DEF OrderInv, IInv, StoreInv, StreamOK
    <3>6. row.version \in (tx[w].expected + 1)..(tx[w].expected + tx[w].inserted)
      BY <1>4, <2>2 DEF QueuedOK, enqueued, Commit
    <3>. QED  BY <3>3, <3>5, <3>6, EventStoreAssumption
  <2>6. NewRowsLater'
    BY <1>1, <2>1, <2>5 DEF OrderInv, NewRowsLater, Event
  <2>. QED  BY <1>2, <2>4, <2>6
<1>. QED  BY <1>3, <1>4

\* The single relay publishes the first unpublished row of its batch, and what
\* is before that row in its stream is on the broker.
LEMMA RelayKeepsOrder ==
  ASSUME NEW r \in Relays, Relays = {r}, OrderInv(r), DispatchPending(r) \/ AbortBatch(r)
  PROVE  ClaimsPrefix(r)' /\ NewRowsLater' /\ PublishedInOrder'
<1>0. batch \in [Relays -> SUBSET outbox] /\ \A p \in outbox : p \in Row
  BY DEF OrderInv, IInv, RelayOK, StoreInv, OutboxOK
<1>1. CASE Claim(r)
  <2>1. /\ batch[r] = {}
        /\ batch' = [batch EXCEPT ![r] = FirstRows(Unlocked, Limit)]
        /\ UNCHANGED <<published, outbox>>
    BY <1>1 DEF Claim
  <2>2. Unlocked = outbox
    BY <2>1 DEF Unlocked
  <2>3. batch'[r] = FirstRows(outbox, Limit)
    BY <1>0, <2>1, <2>2
  <2>4. IsFiniteSet(outbox) /\ outbox \subseteq Row /\ Limit \in Nat
    BY <1>0, RelayAssumption DEF OrderInv, FiniteTables
  <2>5. ASSUME NEW row \in FirstRows(outbox, Limit), NEW other \in outbox, other.id < row.id
        PROVE  other \in FirstRows(outbox, Limit)
    BY <2>4, <2>5, FirstRowsPrefix
  <2>6. ClaimsPrefix(r)'
    BY <2>1, <2>3, <2>5 DEF ClaimsPrefix
  <2>. QED  BY <2>1, <2>6 DEF OrderInv, NewRowsLater, PublishedInOrder, OnBroker, Event
<1>2. CASE Publish(r)
  <2>1. PICK row \in batch[r] \ deleted[r] :
          /\ \A other \in batch[r] \ deleted[r] : row.id <= other.id
          /\ PublishRow(r, row)
    BY <1>2 DEF Publish
  <2>2. UNCHANGED <<batch, outbox>> /\ row \in outbox
    BY <1>0, <2>1 DEF PublishRow
  <2>3. ClaimsPrefix(r)'
    BY <2>2 DEF OrderInv, ClaimsPrefix
  <2>4. CASE Event(row) \in OnBroker
    <3>1. published' = published
      BY <2>1, <2>4 DEF PublishRow
    <3>. QED  BY <2>2, <2>3, <3>1 DEF OrderInv, NewRowsLater, PublishedInOrder, OnBroker, Event
  <2>5. CASE Event(row) \notin OnBroker
    <3>. DEFINE S == [stream : Streams, version : Nat]
    <3>1. published \in Seq(S) /\ Event(row) \in S
      BY <1>0, <2>2 DEF OrderInv, IInv, RelayOK, Row, Event
    <3>2. published' = Append(published, Event(row))
      BY <2>1, <2>5 DEF PublishRow
    <3>. HIDE DEF S
    <3>3. /\ DOMAIN published' = (DOMAIN published) \cup {Len(published) + 1}
          /\ published'[Len(published) + 1] = Event(row)
          /\ \A i \in DOMAIN published : published'[i] = published[i]
          /\ DOMAIN published = 1..Len(published)
          /\ Len(published) \in Nat
      BY <3>1, <3>2, AppendFacts
    <3>4. OnBroker' = OnBroker \cup {Event(row)}
      BY <2>1, <3>1, PublishAdds DEF PublishRow
    <3>5. Event(row).stream = row.stream /\ Event(row).version = row.version
      BY DEF Event
    <3>6. \A i \in DOMAIN published :
            published[i].stream = row.stream => published[i].version < row.version
      BY <2>2, <2>5 DEF OrderInv, NewRowsLater
    <3>7. PublishedInOrder'
      <4>. SUFFICES ASSUME NEW i \in DOMAIN published', NEW j \in DOMAIN published',
                           published'[i].stream = published'[j].stream, i < j
                    PROVE  published'[i].version < published'[j].version
        BY DEF PublishedInOrder
      <4>1. i \in DOMAIN published
        BY <3>3
      <4>2. CASE j \in DOMAIN published
        BY <3>3, <4>1, <4>2 DEF OrderInv, PublishedInOrder
      <4>3. CASE j = Len(published) + 1
        BY <3>3, <3>5, <3>6, <4>1, <4>3
      <4>. QED  BY <3>3, <4>2, <4>3
    <3>8. ASSUME NEW other \in outbox, Event(other) \notin OnBroker', other.stream = row.stream
          PROVE  row.version < other.version
      <4>1. other \in Row /\ row \in Row /\ other.version # row.version
        BY <1>0, <2>2, <3>4, <3>8 DEF Event
      <4>2. other \notin deleted[r]
        BY <3>4, <3>8 DEF OrderInv, IInv, RelayOK
      <4>3. ~(other.version < row.version)
        <5>. SUFFICES ASSUME other.version < row.version PROVE FALSE
          OBVIOUS
        <5>1. other.id < row.id
          BY <2>2, <3>8 DEF OrderInv, IInv, StoreInv, OutboxFollowsStream
        <5>2. other \in batch[r]
          BY <3>8, <5>1 DEF OrderInv, ClaimsPrefix
        <5>. QED  BY <2>1, <4>1, <4>2, <5>1, <5>2 DEF Row
      <4>. QED  BY <4>1, <4>3 DEF Row
    <3>9. NewRowsLater'
      <4>. SUFFICES ASSUME NEW other \in outbox, Event(other) \notin OnBroker',
                           NEW i \in DOMAIN published', published'[i].stream = other.stream
                    PROVE  published'[i].version < other.version
        BY <2>2 DEF NewRowsLater, Event
      <4>1. CASE i \in DOMAIN published
        BY <3>3, <3>4, <4>1 DEF OrderInv, NewRowsLater
      <4>2. CASE i = Len(published) + 1
        BY <3>3, <3>5, <3>8, <4>2
      <4>. QED  BY <3>3, <4>1, <4>2
    <3>. QED  BY <2>3, <3>7, <3>9
  <2>. QED  BY <2>4, <2>5
<1>3. CASE CommitBatch(r) \/ AbortBatch(r)
  <2>1. outbox' \subseteq outbox /\ published' = published /\ batch'[r] = {}
    BY <1>0, <1>3 DEF CommitBatch, AbortBatch, EndBatch
  <2>. QED  BY <2>1 DEF OrderInv, ClaimsPrefix, NewRowsLater, PublishedInOrder, OnBroker, Event
<1>. QED  BY <1>1, <1>2, <1>3 DEF DispatchPending

\* With a single relay the broker receives the events of every aggregate in the
\* order they happened, across batches, aborted batches and repeated ones.
THEOREM OneRelayPublishesInOrder ==
  ASSUME NEW r, Relays = {r}
  PROVE  Spec => []PublishedInOrder
<1>0. r \in Relays
  OBVIOUS
<1>1. Init /\ IInv => OrderInv(r)
  <2>. SUFFICES ASSUME Init, IInv PROVE OrderInv(r)
    OBVIOUS
  <2>1. FiniteTables
    BY FS_EmptySet DEF Init, StoreInit, Idle, FiniteTables
  <2>. QED  BY <1>0, <2>1 DEF Init, StoreInit, OrderInv, ClaimsPrefix, NewRowsLater, PublishedInOrder
<1>2. OrderInv(r) /\ IInv' /\ [Next]_vars => OrderInv(r)'
  <2>. SUFFICES ASSUME OrderInv(r), IInv', [Next]_vars PROVE OrderInv(r)'
    OBVIOUS
  <2>1. FiniteTables'
    BY FiniteTablesNext DEF OrderInv
  <2>2. ASSUME NEW w \in Writers, GetByID(w) \/ Save(w) \/ Rollback(w), UNCHANGED relayVars
        PROVE  ClaimsPrefix(r)' /\ NewRowsLater' /\ PublishedInOrder'
    BY <1>0, <2>2, WriterKeepsOrder
  <2>3. ASSUME DispatchPending(r) \/ AbortBatch(r)
        PROVE  ClaimsPrefix(r)' /\ NewRowsLater' /\ PublishedInOrder'
    BY <1>0, <2>3, RelayKeepsOrder
  <2>4. CASE UNCHANGED vars
    BY <2>1, <2>4 DEF vars, OrderInv, ClaimsPrefix, NewRowsLater, PublishedInOrder, OnBroker, Event
  <2>5. CASE Next
    <3>1. \/ \E w \in Writers : (GetByID(w) \/ Save(w) \/ Rollback(w)) /\ UNCHANGED relayVars
          \/ DispatchPending(r) \/ AbortBatch(r)
      BY <2>5 DEF Next
    <3>2. ClaimsPrefix(r)' /\ NewRowsLater' /\ PublishedInOrder'
      BY <2>2, <2>3, <3>1
    <3>. QED  BY <2>1, <3>2 DEF OrderInv
  <2>. QED  BY <2>4, <2>5
<1>3. OrderInv(r) => PublishedInOrder
  BY DEF OrderInv
<1>. QED  BY <1>1, <1>2, <1>3, IInvAlways, PTL DEF Spec
=============================================================================
