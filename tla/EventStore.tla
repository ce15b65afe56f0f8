----------------------------- MODULE EventStore -----------------------------
(***************************************************************************)
(* EventStoreRepository over PostgresEventStore: handlers in several       *)
(* goroutines and replicas load an aggregate, raise events and save them   *)
(* in a transaction at READ COMMITTED, one SQL statement per step.         *)
(*                                                                         *)
(* The database (external) is modelled by what the statements observe: a   *)
(* SELECT sees the committed rows; an INSERT of a key that another open    *)
(* transaction has inserted waits for it to end, and fails with a unique   *)
(* violation if the key is committed; a sequence number is drawn when the  *)
(* row is inserted and is lost on rollback; a commit makes all the rows of *)
(* a transaction visible at once.                                          *)
(***************************************************************************)
EXTENDS Integers, FiniteSets, FiniteSetsExt

CONSTANTS Streams, Writers, Target, MaxBatch,   \* as in EventLog
          MaxVersion,   \* bound on the length of a stream
          MaxFaults     \* bound on the number of faults

ASSUME EventStoreAssumption ==
  /\ Target \in [Writers -> Streams]
  /\ MaxBatch \in Nat \ {0}
  /\ MaxVersion \in Nat
  /\ MaxFaults \in Nat

VARIABLES events,   \* events[s]: committed rows of stream s, version -> writer
          outbox,   \* committed rows of the outbox
          nextId,   \* next value of the outbox's bigserial
          tx,       \* tx[w]: where writer w is
          faults    \* faults so far

storeVars == <<events, outbox, nextId, tx, faults>>

\* inserted counts the rows a transaction has put into events, queued holds the
\* ones it has put into the outbox.
Idle == [pc |-> "idle", expected |-> -1, size |-> 0, inserted |-> 0, queued |-> {}]

stream(w) == Target[w]

head(s) == Max(DOMAIN events[s] \cup {0})

\* The versions w's transaction has inserted, and the one it inserts next.
versions(w) == (tx[w].expected + 1)..(tx[w].expected + tx[w].inserted)

nextVersion(w) == tx[w].expected + tx[w].inserted + 1

\* The outbox row of the event w inserted last.
outboxRow(w) ==
  [id |-> nextId, stream |-> stream(w), version |-> tx[w].expected + tx[w].inserted]

\* Where w goes on after an event and its outbox row.
afterEnqueue(w) == IF tx[w].inserted = tx[w].size THEN "commit" ELSE "insert"

\* Another open transaction has inserted the key (s, v) and not ended yet.
Locked(w, s, v) ==
  \E u \in Writers \ {w} : stream(u) = s /\ v \in versions(u)

Fault ==
  /\ faults < MaxFaults
  /\ faults' = faults + 1

-----------------------------------------------------------------------------
\* GetByID replays the stream: the version is the number of events applied.
\* The handler then raises size events (none: Save returns at once).
GetByID(w) ==
  /\ tx[w].pc = "idle"
  /\ \E size \in 1..MaxBatch :
       /\ head(stream(w)) + size <= MaxVersion
       /\ tx' = [tx EXCEPT ![w] = [Idle EXCEPT
                   !.pc = "loaded",
                   !.expected = Cardinality(DOMAIN events[stream(w)]),
                   !.size = size]]
  /\ UNCHANGED <<events, outbox, nextId, faults>>

\* Append begins its transaction and compares the head with the version loaded.
CheckHead(w) ==
  /\ tx[w].pc = "loaded"
  /\ tx' = IF head(stream(w)) = tx[w].expected
             THEN [tx EXCEPT ![w].pc = "insert"]
             ELSE [tx EXCEPT ![w] = Idle]
  /\ UNCHANGED <<events, outbox, nextId, faults>>

\* Mutant: no primary key, so nothing waits and nothing is refused.
InsertEventWithoutKey(w) ==
  /\ tx[w].pc = "insert"
  /\ tx' = [tx EXCEPT ![w].inserted = @ + 1, ![w].pc = "enqueue"]
  /\ UNCHANGED <<events, outbox, nextId, faults>>

InsertEvent(w) ==
  /\ tx[w].pc = "insert"
  /\ ~Locked(w, stream(w), nextVersion(w))
  /\ tx' = IF nextVersion(w) \in DOMAIN events[stream(w)]
             THEN [tx EXCEPT ![w] = Idle]
             ELSE [tx EXCEPT ![w].inserted = @ + 1, ![w].pc = "enqueue"]
  /\ UNCHANGED <<events, outbox, nextId, faults>>

\* Mutant: the outbox row is written outside the transaction.
EnqueueAtOnce(w) ==
  /\ tx[w].pc = "enqueue"
  /\ outbox' = outbox \cup {outboxRow(w)}
  /\ nextId' = nextId + 1
  /\ tx' = [tx EXCEPT ![w].pc = afterEnqueue(w)]
  /\ UNCHANGED <<events, faults>>

Enqueue(w) ==
  /\ tx[w].pc = "enqueue"
  /\ tx' = [tx EXCEPT
       ![w].queued = @ \cup {outboxRow(w)},
       ![w].pc = afterEnqueue(w)]
  /\ nextId' = nextId + 1
  /\ UNCHANGED <<events, outbox, faults>>

Commit(w) ==
  /\ tx[w].pc = "commit"
  /\ events' = [events EXCEPT ![stream(w)] =
                [v \in DOMAIN @ \cup versions(w) |-> IF v \in versions(w) THEN w ELSE @[v]]]
  /\ outbox' = outbox \cup tx[w].queued
  /\ tx' = [tx EXCEPT ![w] = Idle]
  /\ UNCHANGED <<nextId, faults>>

\* Any statement fails, or the process crashes: the transaction rolls back.
Rollback(w) ==
  /\ tx[w].pc # "idle"
  /\ Fault
  /\ tx' = [tx EXCEPT ![w] = Idle]
  /\ UNCHANGED <<events, outbox, nextId>>

StoreInit ==
  /\ events = [s \in Streams |-> << >>]
  /\ outbox = {}
  /\ nextId = 1
  /\ tx = [w \in Writers |-> Idle]
  /\ faults = 0

\* What a writer does once it has loaded its aggregate.
Save(w) ==
  \/ CheckHead(w)
  \/ InsertEvent(w)
  \/ Enqueue(w)
  \/ Commit(w)

StoreNext == \E w \in Writers : GetByID(w) \/ Save(w) \/ Rollback(w)

-----------------------------------------------------------------------------
\* The tables and the transactions hold what they may hold.
StoreTypeOK ==
  /\ \A s \in Streams : /\ DOMAIN events[s] \subseteq 1..MaxVersion
                        /\ \A v \in DOMAIN events[s] : events[s][v] \in Writers
  /\ \A row \in outbox : /\ row.id \in 1..(nextId - 1)
                         /\ row.stream \in Streams
                         /\ row.version \in 1..MaxVersion
  /\ \A w \in Writers : /\ tx[w].pc \in {"idle", "loaded", "insert", "enqueue", "commit"}
                        /\ tx[w].expected \in -1..MaxVersion
                        /\ tx[w].size \in 0..MaxBatch
                        /\ tx[w].inserted \in 0..tx[w].size
                        /\ versions(w) \subseteq 1..MaxVersion
  /\ faults \in 0..MaxFaults

\* The Postgres store implements EventLog: streams without gaps, no append on
\* top of events its writer has not seen, all the events of a Save or none.
Log == INSTANCE EventLog WITH log <- events, seen <- [w \in Writers |-> tx[w].expected]

AppendsAtomically == Log!LogSpec

\* The outbox ids of a stream follow its versions, although the numbers are
\* drawn before the transactions commit: the relay, which reads by id, finds
\* the events of an aggregate in the order they happened.
OutboxFollowsStream ==
  \A r1, r2 \in outbox :
    r1.stream = r2.stream /\ r1.version < r2.version => r1.id < r2.id
=============================================================================
