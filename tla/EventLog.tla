------------------------------ MODULE EventLog ------------------------------
(***************************************************************************)
(* What an event store promises: streams that only grow, each append       *)
(* atomic and on top of exactly the events its writer had read             *)
(* (interface EventStore, "expectedVersion must equal the current stream   *)
(* length").  InMemoryEventStore does this literally, under its mutex;     *)
(* module EventStore shows that the Postgres store does it too.            *)
(*                                                                         *)
(* A stream is a function from versions to the writer of the event.        *)
(***************************************************************************)
EXTENDS Integers

CONSTANTS Streams,   \* stream ids
          Writers,   \* handler executions
          Target,    \* Target[w]: the stream of the aggregate w works on
          MaxBatch   \* most events one Save appends

VARIABLES log,       \* log[s]: the events of stream s
          seen       \* seen[w]: the length w has read, or NotLoaded

logVars == <<log, seen>>

NotLoaded == -1

Length(str) == CHOOSE n \in DOMAIN str \cup {0} : \A v \in DOMAIN str : v <= n

LogInit ==
  /\ log = [s \in Streams |-> << >>]
  /\ seen = [w \in Writers |-> NotLoaded]

ReadStream(w) ==
  /\ seen' = [seen EXCEPT ![w] = Length(log[Target[w]])]
  /\ UNCHANGED log

Append(w) ==
  LET s == Target[w]
  IN  /\ seen[w] = Length(log[s])
      /\ \E n \in 1..MaxBatch :
           log' = [log EXCEPT ![s] =
                    [v \in 1..(seen[w] + n) |-> IF v > seen[w] THEN w ELSE @[v]]]
      /\ seen' = [seen EXCEPT ![w] = NotLoaded]

\* ErrConcurrency, or any other failure: nothing is appended.
Refuse(w) ==
  /\ seen[w] # NotLoaded
  /\ seen' = [seen EXCEPT ![w] = NotLoaded]
  /\ UNCHANGED log

LogNext == \E w \in Writers : ReadStream(w) \/ Append(w) \/ Refuse(w)

LogSpec == LogInit /\ [][LogNext]_logVars
=============================================================================
