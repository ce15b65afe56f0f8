----------------------------- MODULE OutboxRelay -----------------------------
(***************************************************************************)
(* The transactional outbox: OutboxRelay.DispatchPending, one relay per    *)
(* replica, over the tables of module EventStore.  A relay's transaction   *)
(* locks the first rows nobody else has locked (FOR UPDATE SKIP LOCKED),   *)
(* publishes and deletes them one by one, and commits.  If it fails on the *)
(* way, every deletion is undone and the rows are published again.         *)
(***************************************************************************)
EXTENDS EventStore, Sequences

CONSTANTS Relays,   \* the relays of the replicas
          Limit     \* rows of a batch (100 in the code)

ASSUME RelayAssumption == Limit \in Nat \ {0}

VARIABLES batch,      \* batch[r]: rows relay r has locked
          deleted,    \* deleted[r]: the ones it has published and deleted
          published   \* events on the broker, in the order of first publication

vars == <<events, outbox, nextId, tx, faults, batch, deleted, published>>

relayVars == <<batch, deleted, published>>

Event(row) == [stream |-> row.stream, version |-> row.version]

OnBroker == {published[i] : i \in DOMAIN published}

Unlocked == outbox \ UNION {batch[r] : r \in Relays}

\* The query: ORDER BY id LIMIT n.
FirstRows(rows, n) ==
  {row \in rows : Cardinality({other \in rows : other.id < row.id}) < n}

Claim(r) ==
  /\ batch[r] = {}
  /\ Unlocked # {}
  /\ batch' = [batch EXCEPT ![r] = FirstRows(Unlocked, Limit)]
  /\ UNCHANGED <<deleted, published, events, outbox, nextId, tx, faults>>

PublishRow(r, row) ==
  /\ published' = IF Event(row) \in OnBroker THEN published
                                             ELSE Append(published, Event(row))
  /\ deleted' = [deleted EXCEPT ![r] = @ \cup {row}]
  /\ UNCHANGED <<batch, events, outbox, nextId, tx, faults>>

\* Mutant: publishes the rows of a batch from its end.
PublishBackwards(r) ==
  \E row \in batch[r] \ deleted[r] :
    /\ \A other \in batch[r] \ deleted[r] : other.id <= row.id
    /\ PublishRow(r, row)

Publish(r) ==
  \E row \in batch[r] \ deleted[r] :
    /\ \A other \in batch[r] \ deleted[r] : row.id <= other.id
    /\ PublishRow(r, row)

\* Mutant: the next batch starts with the last one's deletions.
EndBatchKeepingDeleted(r) ==
  /\ batch' = [batch EXCEPT ![r] = {}]
  /\ UNCHANGED <<deleted, published, events, nextId, tx>>

EndBatch(r) ==
  /\ batch' = [batch EXCEPT ![r] = {}]
  /\ deleted' = [deleted EXCEPT ![r] = {}]
  /\ UNCHANGED <<published, events, nextId, tx>>

CommitBatch(r) ==
  /\ batch[r] # {}
  /\ batch[r] = deleted[r]
  /\ outbox' = outbox \ deleted[r]
  /\ EndBatch(r)
  /\ UNCHANGED faults

\* Mutant: the batch was deleted when it was claimed, not row by row.
AbortKeepingDeletions(r) ==
  /\ batch[r] # {}
  /\ Fault
  /\ outbox' = outbox \ batch[r]
  /\ EndBatch(r)

\* A publish, a delete or the commit fails, or the process crashes.
AbortBatch(r) ==
  /\ batch[r] # {}
  /\ Fault
  /\ EndBatch(r)
  /\ UNCHANGED outbox

Init ==
  /\ StoreInit
  /\ batch = [r \in Relays |-> {}]
  /\ deleted = [r \in Relays |-> {}]
  /\ published = << >>

DispatchPending(r) == Claim(r) \/ Publish(r) \/ CommitBatch(r)

Next ==
  \/ \E w \in Writers :
       /\ GetByID(w) \/ Save(w) \/ Rollback(w)
       /\ UNCHANGED relayVars
  \/ \E r \in Relays : DispatchPending(r) \/ AbortBatch(r)

Spec == Init /\ [][Next]_vars

\* A handler that has loaded its aggregate goes on, and the relay's ticker
\* keeps ticking.
Fairness ==
  /\ \A w \in Writers : WF_vars(Save(w) /\ UNCHANGED relayVars)
  /\ \A r \in Relays : WF_vars(DispatchPending(r))

FairSpec == Spec /\ Fairness

-----------------------------------------------------------------------------
CommittedEvents ==
  UNION {{[stream |-> s, version |-> v] : v \in DOMAIN events[s]} : s \in Streams}

\* Tables and batches hold what they may hold: concurrent relays "claim disjoint
\* rows", and a relay deletes nothing it has not locked.
TypeOK ==
  /\ StoreTypeOK
  /\ \A r \in Relays : /\ batch[r] \subseteq outbox
                       /\ deleted[r] \subseteq batch[r]
                       /\ \A q \in Relays \ {r} : batch[q] \cap batch[r] = {}

\* "A crash between append and publish can no longer lose an event": what is
\* committed waits in the outbox or has been published, and only that.
NoEventLost ==
  CommittedEvents = {Event(row) : row \in outbox} \cup OnBroker

\* With one relay, the first publications of a stream's events follow the
\* stream, across batches and aborted batches.
PublishedInOrder ==
  \A i, j \in DOMAIN published :
    published[i].stream = published[j].stream /\ i < j => published[i].version < published[j].version

\* Every committed event reaches the broker.
EventsPublished ==
  \A s \in Streams, v \in 1..MaxVersion :
    v \in DOMAIN events[s] ~> [stream |-> s, version |-> v] \in OnBroker
=============================================================================
