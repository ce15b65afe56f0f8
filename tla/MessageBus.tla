----------------------------- MODULE MessageBus -----------------------------
(***************************************************************************)
(* The service bus under a failing handler, in durable mode: the retry     *)
(* middleware, the poison queue around it, the archive of dead letters and *)
(* the redrive command.  Module Allocation sees all this as Poisoned, Park *)
(* and Redrive.                                                            *)
(*                                                                         *)
(* A topic is a fanout exchange with one durable queue per handler; the    *)
(* dead-letter topic feeds the archive, which is a handler like any other: *)
(* the same middleware surrounds it.  (The monitor, its other handler,     *)
(* only logs.)  A delivery counts the failures of the attempts it has      *)
(* seen; origin is the PoisonedTopic metadata, which the middleware sets   *)
(* when it parks a message and which only travels with the message itself. *)
(***************************************************************************)
EXTENDS Naturals, FiniteSets

CONSTANTS Messages,             \* payloads
          Topics,               \* topics of commands and events
          Handlers,             \* their handlers
          TopicOf,              \* TopicOf[m]: where m is published
          Subscribers,          \* Subscribers[t]: handlers of topic t
          genericRetries,       \* 3 in the code
          concurrencyRetries,   \* 12 in the code
          ArchivePoisoned,      \* the archive's own deliveries may be poisoned too
          MaxFaults,            \* bound on the number of faults
          MaxRedrives           \* bound on the number of redrives

ASSUME MessageBusAssumption ==
  /\ TopicOf \in [Messages -> Topics]
  /\ Subscribers \in [Topics -> SUBSET Handlers]
  /\ genericRetries \in Nat /\ concurrencyRetries \in Nat
  /\ genericRetries <= concurrencyRetries
  /\ ArchivePoisoned \in BOOLEAN
  /\ MaxFaults \in Nat /\ MaxRedrives \in Nat
  /\ {"dead_letter", "none"} \cap Topics = {} /\ "archive" \notin Handlers

VARIABLES sent,      \* messages published so far
          queue,     \* deliveries not acknowledged
          handled,   \* pairs of a message and a handler that returned nil
          letters,   \* un-redriven rows of dead_letters
          parked,    \* history: deliveries given up, with their failures
          faults,    \* faults so far
          redrives   \* redrives so far

vars == <<sent, queue, handled, letters, parked, faults, redrives>>

DeadLetterTopic == "dead_letter"

NoTopic == "none"

Archive == "archive"

\* The queues bound to a topic; nothing is bound to an empty topic name.
Queues(t) ==
  IF t = DeadLetterTopic THEN {Archive} ELSE IF t = NoTopic THEN {} ELSE Subscribers[t]

Delivery(m, h, t, origin) ==
  [message |-> m, handler |-> h, topic |-> t, origin |-> origin, conflicts |-> 0, errors |-> 0]

\* One copy for each handler of the topic.
Published(m, t, origin) == {Delivery(m, h, t, origin) : h \in Queues(t)}

Fault ==
  /\ faults < MaxFaults
  /\ faults' = faults + 1

Publish(m) ==
  /\ m \notin sent
  /\ sent' = sent \cup {m}
  /\ queue' = queue \cup Published(m, TopicOf[m], NoTopic)
  /\ UNCHANGED <<handled, letters, parked, faults, redrives>>

-----------------------------------------------------------------------------
(* The middleware.                                                         *)

\* One counter for all failures, whatever their kind.
attempt(d) == d.conflicts + d.errors

budget(kind) == IF kind = "conflict" THEN concurrencyRetries ELSE genericRetries

\* The delivery after one more failure, and as the broker delivers it anew.
Failed(d, kind) ==
  IF kind = "conflict" THEN [d EXCEPT !.conflicts = @ + 1] ELSE [d EXCEPT !.errors = @ + 1]

Anew(d) == Delivery(d.message, d.handler, d.topic, d.origin)

\* Mutant: notes the topic the message brought along.
PoisonWithItsNote(d) ==
  queue' = (queue \ {d}) \cup Published(d.message, DeadLetterTopic, d.origin)

\* PoisonQueue: the message goes to the dead-letter topic with the topic it was
\* consumed from, replacing what an earlier parking had noted.
Poison(d) ==
  queue' = (queue \ {d}) \cup Published(d.message, DeadLetterTopic, d.topic)

\* What the handler of d does when it succeeds: the archive inserts a row.
Effect(d) ==
  IF d.handler = Archive
    THEN /\ letters' = letters \cup {[message |-> d.message, topic |-> d.origin]}
         /\ UNCHANGED handled
    ELSE /\ handled' = handled \cup {<<d.message, d.handler>>}
         /\ UNCHANGED letters

Succeed(d) ==
  /\ Effect(d)
  /\ \/ queue' = queue \ {d} /\ UNCHANGED faults
     \/ queue' = (queue \ {d}) \cup {Anew(d)} /\ Fault   \* crash before the acknowledgement
  /\ UNCHANGED <<sent, parked, redrives>>

\* The archive meets no concurrency conflict.  Unless ArchivePoisoned, its
\* database recovers within the retries and before a shutdown.
MayFail(d, kind) ==
  d.handler = Archive =>
    kind = "generic" /\ (ArchivePoisoned \/ attempt(d) < budget(kind))

\* Mutant: the comparison with the budget is off by one.
RetryOffByOne(d, kind) ==
  /\ MayFail(d, kind)
  /\ attempt(d) <= budget(kind)
  /\ queue' = (queue \ {d}) \cup {Failed(d, kind)}
  /\ UNCHANGED <<sent, handled, letters, parked, faults, redrives>>

Retry(d, kind) ==
  /\ MayFail(d, kind)
  /\ attempt(d) < budget(kind)
  /\ queue' = (queue \ {d}) \cup {Failed(d, kind)}
  /\ UNCHANGED <<sent, handled, letters, parked, faults, redrives>>

\* Mutant: the error is returned to the broker, which delivers the message anew.
GiveUpToBroker(d, kind) ==
  /\ MayFail(d, kind)
  /\ attempt(d) >= budget(kind)
  /\ queue' = (queue \ {d}) \cup {Anew(d)}
  /\ UNCHANGED <<sent, handled, letters, parked, faults, redrives>>

GiveUp(d, kind) ==
  /\ MayFail(d, kind)
  /\ attempt(d) >= budget(kind)
  /\ Poison(d)
  /\ parked' = parked \cup {Failed(d, kind)}
  /\ UNCHANGED <<sent, handled, letters, faults, redrives>>

\* The process stops while d waits for its next attempt: the context is done
\* and the last error goes to the poison queue at once.
Shutdown(d) ==
  /\ attempt(d) > 0
  /\ d.handler = Archive => ArchivePoisoned
  /\ Fault
  /\ Poison(d)
  /\ parked' = parked \cup {d}
  /\ UNCHANGED <<sent, handled, letters, redrives>>

\* A crash, or a dead-letter topic that cannot be reached: the broker delivers
\* d again, and its attempts are counted anew.
Redeliver(d) ==
  /\ attempt(d) > 0
  /\ Fault
  /\ queue' = (queue \ {d}) \cup {Anew(d)}
  /\ UNCHANGED <<sent, handled, letters, parked, redrives>>

-----------------------------------------------------------------------------
(* cmd/redrive: publish and stamp each letter, then commit.                *)

Republished(rows) == UNION {Published(l.message, l.topic, NoTopic) : l \in rows}

\* Mutant: stamps the letters that were not published too.
RedriveStampingAll ==
  /\ letters # {}
  /\ redrives < MaxRedrives
  /\ redrives' = redrives + 1
  /\ \E rows \in SUBSET letters : queue' = queue \cup Republished(rows)
  /\ letters' = {}
  /\ UNCHANGED <<sent, handled, parked, faults>>

RedriveDeadLetters ==
  /\ letters # {}
  /\ redrives < MaxRedrives
  /\ redrives' = redrives + 1
  /\ \/ /\ queue' = queue \cup Republished(letters)
        /\ letters' = {}
        /\ UNCHANGED faults
     \/ \E rows \in SUBSET letters :      \* an error: the stamps roll back
          /\ Fault
          /\ queue' = queue \cup Republished(rows)
          /\ UNCHANGED letters
  /\ UNCHANGED <<sent, handled, parked>>

-----------------------------------------------------------------------------
Init ==
  /\ sent = {}
  /\ queue = {}
  /\ handled = {}
  /\ letters = {}
  /\ parked = {}
  /\ faults = 0
  /\ redrives = 0

Consume(d) ==
  Succeed(d) \/ \E kind \in {"conflict", "generic"} : Retry(d, kind) \/ GiveUp(d, kind)

Next ==
  \/ \E m \in Messages : Publish(m)
  \/ \E d \in queue : Consume(d) \/ Shutdown(d) \/ Redeliver(d)
  \/ RedriveDeadLetters

Spec == Init /\ [][Next]_vars

\* The router serves every queue.
Fairness ==
  \A m \in Messages, h \in Handlers \cup {Archive} :
    WF_vars(\E d \in queue : d.message = m /\ d.handler = h /\ Consume(d))

FairSpec == Spec /\ Fairness

-----------------------------------------------------------------------------
Deliveries ==
  [message : Messages, handler : Handlers \cup {Archive},
   topic : Topics \cup {DeadLetterTopic}, origin : Topics \cup {DeadLetterTopic, NoTopic},
   conflicts : 0..concurrencyRetries, errors : 0..concurrencyRetries]

\* Queues and tables hold what they may hold; no delivery is tried more often
\* than the largest retry budget allows.
TypeOK ==
  /\ sent \subseteq Messages
  /\ queue \subseteq Deliveries
  /\ \A d \in queue : attempt(d) <= concurrencyRetries /\ d.handler \in Queues(d.topic)
  /\ handled \subseteq Messages \X Handlers
  /\ letters \subseteq [message : Messages, topic : Topics \cup {DeadLetterTopic, NoTopic}]
  /\ faults \in 0..MaxFaults
  /\ redrives \in 0..MaxRedrives

\* m is on its way to the archive, or archived, with the topic to return it to.
Parked(m) ==
  \/ \E d \in queue : d.message = m /\ d.handler = Archive /\ d.origin = TopicOf[m]
  \/ \E l \in letters : l.message = m /\ l.topic = TopicOf[m]

\* "Parked, never lost": a message that some handler has not managed to handle
\* waits for it, or is parked where a redrive brings it back, whatever crashed,
\* was redelivered or redriven in the meantime.
NoMessageLost ==
  \A m \in sent : \A h \in Subscribers[TopicOf[m]] :
    \/ <<m, h>> \in handled
    \/ \E d \in queue : d.message = m /\ d.handler = h
    \/ Parked(m)

\* "The retry budget depends on the error": a message is given up after more
\* conflicts than concurrencyRetries or more other errors than genericRetries,
\* so that contention does not use up the patience with anything else.
BudgetPerKind ==
  \A d \in parked : d.conflicts > concurrencyRetries \/ d.errors > genericRetries

\* A redrive republishes a dead letter "to its original topic": what the archive
\* notes is the topic of the message, also after a crash, a redelivery or an
\* earlier redrive, as long as the archive itself is never given up.
LettersKeepTheirTopic == \A l \in letters : l.topic = TopicOf[l.message]

\* No message is retried forever: each is handled or parked by each handler.
MessagesSettle ==
  \A m \in Messages, h \in Handlers :
    (m \in sent /\ h \in Subscribers[TopicOf[m]]) ~> (<<m, h>> \in handled \/ Parked(m))
=============================================================================
