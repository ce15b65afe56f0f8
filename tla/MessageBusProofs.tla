-------------------------- MODULE MessageBusProofs --------------------------
(***************************************************************************)
(* Proofs about MessageBus, for any messages, topics, handlers, retry      *)
(* budgets, faults and redrives.                                           *)
(*                                                                         *)
(* What is parked comes back only because a delivery knows where it came   *)
(* from: the topic a handler consumes from is the topic of the message,    *)
(* and what travels to the archive has it as its origin (OriginsKept).     *)
(* That needs an archive that is never given up, which is the hypothesis   *)
(* of the theorems about it.                                               *)
(***************************************************************************)
EXTENDS MessageBus, TLAPS

\* Where a delivery comes from.
OriginKept(d) ==
  IF d.handler = Archive THEN d.origin = TopicOf[d.message]
                         ELSE d.topic = TopicOf[d.message]

OriginsKept == \A d \in queue : OriginKept(d)

-----------------------------------------------------------------------------
(* Operators.                                                              *)

\* A published message has one delivery for each queue of the topic, with no
\* failures yet.
LEMMA PublishedFacts ==
  ASSUME NEW m \in Messages, NEW t \in Topics \cup {DeadLetterTopic, NoTopic},
         NEW origin \in Topics \cup {DeadLetterTopic, NoTopic}
  PROVE  /\ \A d \in Published(m, t, origin) :
              /\ d \in Deliveries /\ attempt(d) = 0 /\ d.handler \in Queues(d.topic)
              /\ d.message = m /\ d.topic = t /\ d.origin = origin
              /\ t # DeadLetterTopic => d.handler # Archive
              /\ t # NoTopic
         /\ t \in Topics => \A h \in Subscribers[t] : Delivery(m, h, t, origin) \in Published(m, t, origin)
         /\ t = DeadLetterTopic => Delivery(m, Archive, t, origin) \in Published(m, t, origin)
<1>1. /\ Subscribers \in [Topics -> SUBSET Handlers] /\ DeadLetterTopic \notin Topics
      /\ NoTopic \notin Topics /\ Archive \notin Handlers /\ DeadLetterTopic # NoTopic
      /\ concurrencyRetries \in Nat
  BY MessageBusAssumption DEF DeadLetterTopic, NoTopic, Archive
<1>2. ASSUME NEW h \in Queues(t)
      PROVE  /\ h \in Handlers \cup {Archive} /\ t # NoTopic
             /\ t # DeadLetterTopic => h # Archive
  BY <1>1, <1>2 DEF Queues
<1>3. ASSUME NEW h \in Queues(t)
      PROVE  LET d == Delivery(m, h, t, origin)
             IN  /\ d \in Deliveries /\ attempt(d) = 0 /\ d.handler = h
                 /\ d.message = m /\ d.topic = t /\ d.origin = origin
  BY <1>1, <1>2 DEF Delivery, Deliveries, attempt
<1>4. t \in Topics => Queues(t) = Subscribers[t]
  BY <1>1 DEF Queues
<1>5. t = DeadLetterTopic => Archive \in Queues(t)
  BY DEF Queues
<1> QED
  BY <1>2, <1>3, <1>4, <1>5 DEF Published

\* A delivery keeps what it is when it fails or is delivered anew.
LEMMA DeliveryFacts ==
  ASSUME NEW d \in Deliveries, NEW kind \in {"conflict", "generic"}
  PROVE  /\ LET e == Failed(d, kind)
            IN  /\ e.message = d.message /\ e.handler = d.handler
                /\ e.topic = d.topic /\ e.origin = d.origin
                /\ attempt(e) = attempt(d) + 1 /\ attempt(d) \in Nat
                /\ attempt(d) < budget(kind) => e \in Deliveries /\ attempt(e) <= concurrencyRetries
                /\ attempt(d) >= budget(kind) /\ e.errors = 0 => e.conflicts > concurrencyRetries
         /\ LET e == Anew(d)
            IN  /\ e.message = d.message /\ e.handler = d.handler
                /\ e.topic = d.topic /\ e.origin = d.origin
                /\ e \in Deliveries /\ attempt(e) = 0
<1>1. /\ genericRetries \in Nat /\ concurrencyRetries \in Nat
      /\ genericRetries <= concurrencyRetries
  BY MessageBusAssumption
<1>2. budget(kind) \in Nat /\ budget(kind) <= concurrencyRetries
      /\ (kind = "conflict" => budget(kind) = concurrencyRetries)
  BY <1>1 DEF budget
<1>3. d.conflicts \in Nat /\ d.errors \in Nat
  BY <1>1 DEF Deliveries
<1>4. CASE kind = "conflict"
  <2>1. Failed(d, kind) = [d EXCEPT !.conflicts = d.conflicts + 1]
    BY <1>4 DEF Failed
  <2>2. LET e == Failed(d, kind)
        IN  /\ e.message = d.message /\ e.handler = d.handler
            /\ e.topic = d.topic /\ e.origin = d.origin
            /\ e.conflicts = d.conflicts + 1 /\ e.errors = d.errors
            /\ d.conflicts + 1 \in 0..concurrencyRetries => e \in Deliveries
    BY <2>1 DEF Deliveries
  <2>3. LET e == Anew(d)
        IN  /\ e.message = d.message /\ e.handler = d.handler
            /\ e.topic = d.topic /\ e.origin = d.origin
            /\ e \in Deliveries /\ e.conflicts = 0 /\ e.errors = 0
    BY <1>1 DEF Anew, Delivery, Deliveries
  <2> QED
    BY <1>1, <1>2, <1>3, <1>4, <2>2, <2>3 DEF attempt
<1>5. CASE kind = "generic"
  <2>1. Failed(d, kind) = [d EXCEPT !.errors = d.errors + 1]
    BY <1>5 DEF Failed
  <2>2. LET e == Failed(d, kind)
        IN  /\ e.message = d.message /\ e.handler = d.handler
            /\ e.topic = d.topic /\ e.origin = d.origin
            /\ e.conflicts = d.conflicts /\ e.errors = d.errors + 1
            /\ d.errors + 1 \in 0..concurrencyRetries => e \in Deliveries
    BY <2>1 DEF Deliveries
  <2>3. LET e == Anew(d)
        IN  /\ e.message = d.message /\ e.handler = d.handler
            /\ e.topic = d.topic /\ e.origin = d.origin
            /\ e \in Deliveries /\ e.conflicts = 0 /\ e.errors = 0
    BY <1>1 DEF Anew, Delivery, Deliveries
  <2> QED
    BY <1>1, <1>2, <1>3, <1>5, <2>2, <2>3 DEF attempt
<1> QED
  BY <1>4, <1>5

-----------------------------------------------------------------------------
(* What holds whatever becomes of the archive.                             *)

\* The types of the messages a step may send, and of the constants it reads.
LEMMA ConstantFacts ==
  /\ TopicOf \in [Messages -> Topics]
  /\ Subscribers \in [Topics -> SUBSET Handlers]
  /\ DeadLetterTopic \notin Topics /\ NoTopic \notin Topics
  /\ Archive \notin Handlers /\ DeadLetterTopic # NoTopic
  /\ MaxFaults \in Nat /\ MaxRedrives \in Nat
  /\ concurrencyRetries \in Nat /\ genericRetries \in Nat
BY MessageBusAssumption DEF DeadLetterTopic, NoTopic, Archive

\* What is consumed from the dead-letter topic is consumed by the archive, and
\* the archive consumes nothing else.
LEMMA ArchiveConsumes ==
  ASSUME NEW d \in Deliveries, d.handler \in Queues(d.topic)
  PROVE  /\ d.handler = Archive <=> d.topic = DeadLetterTopic
         /\ d.topic # NoTopic
         /\ d.handler # Archive => d.topic \in Topics /\ d.handler \in Subscribers[d.topic]
<1>1. d.topic \in Topics \cup {DeadLetterTopic}
  BY DEF Deliveries
<1> QED
  BY <1>1, ConstantFacts DEF Queues

\* A delivery that is well typed.
Sound(d) ==
  d \in Deliveries /\ attempt(d) <= concurrencyRetries /\ d.handler \in Queues(d.topic)

\* The deliveries any step puts in the queues are well typed.
LEMMA SoundDeliveries ==
  ASSUME TypeOK
  PROVE  /\ \A d \in queue : Sound(d)
         /\ \A m \in Messages, t, origin \in Topics \cup {DeadLetterTopic, NoTopic} :
              \A e \in Published(m, t, origin) : Sound(e)
         /\ \A d \in queue : Sound(Anew(d))
         /\ \A d \in queue, kind \in {"conflict", "generic"} :
              attempt(d) < budget(kind) => Sound(Failed(d, kind))
         /\ \A rows \in SUBSET letters : \A e \in Republished(rows) : Sound(e)
<1>1. \A d \in queue : Sound(d)
  BY DEF TypeOK, Sound
<1>2. ASSUME NEW m \in Messages, NEW t \in Topics \cup {DeadLetterTopic, NoTopic},
             NEW origin \in Topics \cup {DeadLetterTopic, NoTopic},
             NEW e \in Published(m, t, origin)
      PROVE  Sound(e)
  BY PublishedFacts, ConstantFacts DEF Sound
<1>3. ASSUME NEW d \in queue
      PROVE  Sound(Anew(d))
  <2>1. Sound(d)
    BY <1>1
  <2>2. LET e == Anew(d)
        IN  /\ e.handler = d.handler /\ e.topic = d.topic
            /\ e \in Deliveries /\ attempt(e) = 0
    BY <2>1, DeliveryFacts DEF Sound
  <2> QED
    BY <2>1, <2>2, ConstantFacts DEF Sound
<1>4. ASSUME NEW d \in queue, NEW kind \in {"conflict", "generic"},
             attempt(d) < budget(kind)
      PROVE  Sound(Failed(d, kind))
  <2>1. Sound(d)
    BY <1>1
  <2>2. LET e == Failed(d, kind)
        IN  /\ e.handler = d.handler /\ e.topic = d.topic
            /\ e \in Deliveries /\ attempt(e) <= concurrencyRetries
    BY <2>1, <1>4, DeliveryFacts DEF Sound
  <2> QED
    BY <2>1, <2>2 DEF Sound
<1>5. ASSUME NEW rows \in SUBSET letters, NEW e \in Republished(rows)
      PROVE  Sound(e)
  <2>1. PICK l \in rows : e \in Published(l.message, l.topic, NoTopic)
    BY <1>5 DEF Republished
  <2>2. l.message \in Messages /\ l.topic \in Topics \cup {DeadLetterTopic, NoTopic}
    BY DEF TypeOK
  <2> QED
    BY <1>2, <2>1, <2>2
<1> QED
  BY <1>1, <1>2, <1>3, <1>4, <1>5

\* Poisoning sends the message to the archive.
LEMMA PoisonFacts ==
  ASSUME NEW d \in Deliveries, Poison(d), d.topic # NoTopic
  PROVE  queue' = (queue \ {d}) \cup {Delivery(d.message, Archive, DeadLetterTopic, d.topic)}
BY DEF Poison, Published, Queues

\* A fault counts within its bound.
LEMMA FaultFacts == ASSUME TypeOK, Fault PROVE faults' \in 0..MaxFaults
BY ConstantFacts DEF TypeOK, Fault

LEMMA TypeStep == ASSUME TypeOK, [Next]_vars PROVE TypeOK'
<1> DEFINE Shape == /\ sent' \subseteq Messages
                    /\ \A e \in queue' : Sound(e)
                    /\ handled' \subseteq Messages \X Handlers
                    /\ letters' \subseteq [message : Messages,
                                           topic : Topics \cup {DeadLetterTopic, NoTopic}]
                    /\ faults' \in 0..MaxFaults
                    /\ redrives' \in 0..MaxRedrives
<1>1. SUFFICES Shape
  BY DEF TypeOK, Sound, attempt
<1>2. /\ sent \subseteq Messages /\ handled \subseteq Messages \X Handlers
      /\ letters \subseteq [message : Messages, topic : Topics \cup {DeadLetterTopic, NoTopic}]
      /\ faults \in 0..MaxFaults /\ redrives \in 0..MaxRedrives
      /\ \A d \in queue : Sound(d)
  BY DEF TypeOK, Sound
<1>3. ASSUME NEW m \in Messages, Publish(m)
      PROVE  Shape
  <2>1. TopicOf[m] \in Topics \cup {DeadLetterTopic, NoTopic}
    BY ConstantFacts
  <2> QED
    BY <1>2, <1>3, <2>1, SoundDeliveries DEF Publish
<1>4. ASSUME NEW d \in queue
      PROVE  /\ Sound(d) /\ d.message \in Messages /\ d.topic \in Topics \cup {DeadLetterTopic}
             /\ d.origin \in Topics \cup {DeadLetterTopic, NoTopic} /\ d \in Deliveries
             /\ d.handler \in Handlers \cup {Archive}
             /\ \A e \in Published(d.message, DeadLetterTopic, d.topic) : Sound(e)
  <2>1. Sound(d)
    BY <1>2
  <2>2. /\ d.message \in Messages /\ d.topic \in Topics \cup {DeadLetterTopic}
        /\ d.origin \in Topics \cup {DeadLetterTopic, NoTopic}
        /\ d.handler \in Handlers \cup {Archive} /\ d \in Deliveries
    BY <2>1 DEF Sound, Deliveries
  <2> QED
    BY <2>1, <2>2, SoundDeliveries
<1>5. ASSUME NEW d \in queue, Succeed(d)
      PROVE  Shape
  <2>1. \A e \in queue' : Sound(e)
    BY <1>2, <1>5, SoundDeliveries DEF Succeed
  <2>2. faults' \in 0..MaxFaults
    BY <1>2, <1>5, FaultFacts DEF Succeed
  <2>3. /\ handled' \subseteq Messages \X Handlers
        /\ letters' \subseteq [message : Messages, topic : Topics \cup {DeadLetterTopic, NoTopic}]
    BY <1>2, <1>4, <1>5 DEF Succeed, Effect
  <2> QED
    BY <1>2, <1>5, <2>1, <2>2, <2>3 DEF Succeed
<1>6. ASSUME NEW d \in queue, NEW kind \in {"conflict", "generic"}, Retry(d, kind)
      PROVE  Shape
  BY <1>2, <1>6, SoundDeliveries DEF Retry
<1>7. ASSUME NEW d \in queue, NEW kind \in {"conflict", "generic"}, GiveUp(d, kind)
      PROVE  Shape
  BY <1>2, <1>4, <1>7 DEF GiveUp, Poison
<1>8. ASSUME NEW d \in queue, Shutdown(d)
      PROVE  Shape
  BY <1>2, <1>4, <1>8, FaultFacts DEF Shutdown, Poison
<1>9. ASSUME NEW d \in queue, Redeliver(d)
      PROVE  Shape
  BY <1>2, <1>9, SoundDeliveries, FaultFacts DEF Redeliver
<1>10. CASE RedriveDeadLetters
  <2>1. redrives' \in 0..MaxRedrives
    BY <1>2, <1>10, ConstantFacts DEF RedriveDeadLetters
  <2>2. faults' \in 0..MaxFaults
    BY <1>2, <1>10, FaultFacts DEF RedriveDeadLetters
  <2>3. \A e \in queue' : Sound(e)
    BY <1>2, <1>10, SoundDeliveries DEF RedriveDeadLetters
  <2> QED
    BY <1>2, <1>10, <2>1, <2>2, <2>3 DEF RedriveDeadLetters
<1>11. CASE UNCHANGED vars
  BY <1>2, <1>11 DEF vars
<1> QED
  BY <1>3, <1>5, <1>6, <1>7, <1>8, <1>9, <1>10, <1>11 DEF Next, Consume

\* The queues and the tables hold what they may hold, and no delivery exceeds
\* the largest retry budget (retryMiddleware, retry.go), for any constants.
THEOREM TypeCorrect == Spec => []TypeOK
<1>1. Init => TypeOK
  BY ConstantFacts DEF Init, TypeOK
<1> QED
  BY <1>1, TypeStep, PTL DEF Spec

-----------------------------------------------------------------------------
(* Parked, never lost.                                                     *)

\* e stands for d: what d's handler has to do is still to be done.
StandsFor(e, d) == e.message = d.message /\ e.handler = d.handler /\ e.origin = d.origin

\* What becomes of a delivery in a step that takes it off its queue.
LEMMA ConsumedFacts ==
  ASSUME ~ArchivePoisoned, TypeOK, OriginsKept, NEW d \in queue,
         Consume(d) \/ Shutdown(d) \/ Redeliver(d)
  PROVE  /\ handled \subseteq handled' /\ letters \subseteq letters' /\ sent' = sent
         /\ queue \ {d} \subseteq queue'
         /\ \/ \E e \in queue' : StandsFor(e, d)
            \/ d.handler # Archive /\ <<d.message, d.handler>> \in handled'
            \/ /\ d.handler = Archive
               /\ [message |-> d.message, topic |-> d.origin] \in letters'
            \/ \E e \in queue' : /\ e.message = d.message /\ e.handler = Archive
                                 /\ e.origin = TopicOf[d.message]
         /\ \A e \in queue' : e \in queue \/ OriginKept(e)
         /\ \A l \in letters' : l \in letters \/ l.topic = TopicOf[l.message]
<1>1. /\ d \in Deliveries /\ attempt(d) <= concurrencyRetries
      /\ d.handler \in Queues(d.topic) /\ OriginKept(d)
  BY DEF TypeOK, OriginsKept
<1>2. LET e == Anew(d) IN StandsFor(e, d) /\ OriginKept(e)
  BY <1>1, DeliveryFacts DEF StandsFor, OriginKept
<1>3. ASSUME NEW kind \in {"conflict", "generic"}
      PROVE  LET e == Failed(d, kind) IN StandsFor(e, d) /\ OriginKept(e)
  BY <1>1, DeliveryFacts DEF StandsFor, OriginKept
<1>4. ASSUME Poison(d), d.handler # Archive
      PROVE  LET e == Delivery(d.message, Archive, DeadLetterTopic, d.topic)
             IN  /\ queue' = (queue \ {d}) \cup {e}
                 /\ e.message = d.message /\ e.handler = Archive
                 /\ e.origin = TopicOf[d.message] /\ OriginKept(e)
  <2>1. d.topic # NoTopic /\ d.topic = TopicOf[d.message]
    BY <1>1, <1>4, ArchiveConsumes DEF OriginKept
  <2>2. queue' = (queue \ {d}) \cup {Delivery(d.message, Archive, DeadLetterTopic, d.topic)}
    BY <1>1, <1>4, <2>1, PoisonFacts
  <2> QED
    BY <2>1, <2>2 DEF Delivery, OriginKept
<1>5. CASE Succeed(d)
  <2>1. /\ handled \subseteq handled' /\ letters \subseteq letters' /\ sent' = sent
        /\ queue \ {d} \subseteq queue'
        /\ \A e \in queue' : e \in queue \/ OriginKept(e)
    BY <1>2, <1>5 DEF Succeed, Effect
  <2>2. CASE d.handler = Archive
    <3>1. letters' = letters \cup {[message |-> d.message, topic |-> d.origin]}
      BY <1>5, <2>2 DEF Succeed, Effect
    <3>2. d.origin = TopicOf[d.message]
      BY <1>1, <2>2 DEF OriginKept
    <3> QED
      BY <2>1, <2>2, <3>1, <3>2
  <2>3. CASE d.handler # Archive
    BY <1>5, <2>1, <2>3 DEF Succeed, Effect
  <2> QED
    BY <2>2, <2>3
<1>6. ASSUME NEW kind \in {"conflict", "generic"}, Retry(d, kind)
      PROVE  /\ UNCHANGED <<handled, letters, sent>>
             /\ queue' = (queue \ {d}) \cup {Failed(d, kind)}
  BY <1>6 DEF Retry
<1>7. ASSUME NEW kind \in {"conflict", "generic"}, GiveUp(d, kind)
      PROVE  d.handler # Archive /\ Poison(d) /\ UNCHANGED <<handled, letters, sent>>
  <2>1. budget(kind) \in Nat /\ attempt(d) \in Nat
    BY <1>1, DeliveryFacts, ConstantFacts DEF budget
  <2> QED
    BY <1>7, <2>1 DEF GiveUp, MayFail
<1>8. ASSUME Shutdown(d)
      PROVE  d.handler # Archive /\ Poison(d) /\ UNCHANGED <<handled, letters, sent>>
  BY <1>8 DEF Shutdown
<1>9. ASSUME Redeliver(d)
      PROVE  /\ UNCHANGED <<handled, letters, sent>>
             /\ queue' = (queue \ {d}) \cup {Anew(d)}
  BY <1>9 DEF Redeliver
<1>10. ASSUME d.handler # Archive, Poison(d), UNCHANGED <<handled, letters, sent>>
       PROVE  /\ handled \subseteq handled' /\ letters \subseteq letters' /\ sent' = sent
              /\ queue \ {d} \subseteq queue'
              /\ \E e \in queue' : /\ e.message = d.message /\ e.handler = Archive
                                   /\ e.origin = TopicOf[d.message]
              /\ \A e \in queue' : e \in queue \/ OriginKept(e)
              /\ \A l \in letters' : l \in letters
  BY <1>4, <1>10
<1>11. ASSUME NEW e, StandsFor(e, d), OriginKept(e), UNCHANGED <<handled, letters, sent>>,
              queue' = (queue \ {d}) \cup {e}
       PROVE  /\ handled \subseteq handled' /\ letters \subseteq letters' /\ sent' = sent
              /\ queue \ {d} \subseteq queue'
              /\ \E f \in queue' : StandsFor(f, d)
              /\ \A f \in queue' : f \in queue \/ OriginKept(f)
              /\ \A l \in letters' : l \in letters
  BY <1>11
<1>12. ASSUME NEW kind \in {"conflict", "generic"}, Retry(d, kind)
       PROVE  /\ handled \subseteq handled' /\ letters \subseteq letters' /\ sent' = sent
              /\ queue \ {d} \subseteq queue'
              /\ \E f \in queue' : StandsFor(f, d)
              /\ \A f \in queue' : f \in queue \/ OriginKept(f)
              /\ \A l \in letters' : l \in letters
  BY <1>3, <1>6, <1>11, <1>12
<1>13. ASSUME Redeliver(d)
       PROVE  /\ handled \subseteq handled' /\ letters \subseteq letters' /\ sent' = sent
              /\ queue \ {d} \subseteq queue'
              /\ \E f \in queue' : StandsFor(f, d)
              /\ \A f \in queue' : f \in queue \/ OriginKept(f)
              /\ \A l \in letters' : l \in letters
  BY <1>2, <1>9, <1>11, <1>13
<1> QED
  BY <1>5, <1>7, <1>8, <1>10, <1>12, <1>13 DEF Consume

\* A message is republished to the handlers of its own topic.
LEMMA RedrivenFacts ==
  ASSUME TypeOK, LettersKeepTheirTopic, NEW rows \in SUBSET letters
  PROVE  /\ \A e \in Republished(rows) : OriginKept(e)
         /\ \A l \in rows : \A h \in Subscribers[TopicOf[l.message]] :
              \E e \in Republished(rows) : e.message = l.message /\ e.handler = h
<1>1. ASSUME NEW l \in rows
      PROVE  /\ l.message \in Messages /\ l.topic = TopicOf[l.message] /\ l.topic \in Topics
             /\ l.topic # DeadLetterTopic
  BY ConstantFacts DEF TypeOK, LettersKeepTheirTopic
<1>2. ASSUME NEW e \in Republished(rows)
      PROVE  OriginKept(e)
  <2>1. PICK l \in rows : e \in Published(l.message, l.topic, NoTopic)
    BY <1>2 DEF Republished
  <2>2. e.message = l.message /\ e.topic = l.topic /\ e.handler # Archive
    BY <1>1, <2>1, PublishedFacts
  <2> QED
    BY <1>1, <2>2 DEF OriginKept
<1>3. ASSUME NEW l \in rows, NEW h \in Subscribers[TopicOf[l.message]]
      PROVE  \E e \in Republished(rows) : e.message = l.message /\ e.handler = h
  <2> DEFINE e == Delivery(l.message, h, l.topic, NoTopic)
  <2>1. e \in Published(l.message, l.topic, NoTopic)
    BY <1>1, <1>3, PublishedFacts
  <2>2. e.message = l.message /\ e.handler = h
    BY DEF Delivery
  <2> QED
    BY <2>1, <2>2 DEF Republished
<1> QED
  BY <1>2, <1>3

\* The inductive invariant of a bus whose archive is never given up.
BusInv == OriginsKept /\ LettersKeepTheirTopic /\ NoMessageLost

\* A handler's work on a message that is done, waiting or parked.
Kept(m, h) ==
  \/ <<m, h>> \in handled
  \/ \E d \in queue : d.message = m /\ d.handler = h
  \/ Parked(m)

LEMMA BusConsumes ==
  ASSUME ~ArchivePoisoned, TypeOK, BusInv, NEW d \in queue,
         Consume(d) \/ Shutdown(d) \/ Redeliver(d)
  PROVE  BusInv'
<1>1. /\ handled \subseteq handled' /\ letters \subseteq letters' /\ sent' = sent
      /\ queue \ {d} \subseteq queue'
      /\ \/ \E e \in queue' : StandsFor(e, d)
         \/ d.handler # Archive /\ <<d.message, d.handler>> \in handled'
         \/ /\ d.handler = Archive
            /\ [message |-> d.message, topic |-> d.origin] \in letters'
         \/ \E e \in queue' : /\ e.message = d.message /\ e.handler = Archive
                              /\ e.origin = TopicOf[d.message]
      /\ \A e \in queue' : e \in queue \/ OriginKept(e)
      /\ \A l \in letters' : l \in letters \/ l.topic = TopicOf[l.message]
  BY ConsumedFacts DEF BusInv
<1>2. OriginsKept' /\ LettersKeepTheirTopic'
  BY <1>1 DEF BusInv, OriginsKept, OriginKept, LettersKeepTheirTopic
<1>3. ASSUME NEW m \in sent, NEW h \in Subscribers[TopicOf[m]]
      PROVE  Kept(m, h)'
  <2>1. Kept(m, h) /\ h # Archive
    BY <1>3, ConstantFacts DEF BusInv, NoMessageLost, Kept, TypeOK
  <2>2. CASE <<m, h>> \in handled
    BY <1>1, <2>2 DEF Kept
  <2>3. ASSUME NEW e \in queue, e.message = m, e.handler = h
        PROVE  Kept(m, h)'
    <3>1. CASE e # d
      BY <1>1, <2>3, <3>1 DEF Kept
    <3>2. CASE e = d
      BY <1>1, <2>1, <2>3, <3>2 DEF Kept, Parked, StandsFor
    <3> QED
      BY <3>1, <3>2
  <2>4. ASSUME NEW e \in queue, e.message = m, e.handler = Archive, e.origin = TopicOf[m]
        PROVE  Kept(m, h)'
    <3>1. CASE e # d
      BY <1>1, <2>4, <3>1 DEF Kept, Parked
    <3>2. CASE e = d
      BY <1>1, <2>4, <3>2 DEF Kept, Parked, StandsFor
    <3> QED
      BY <3>1, <3>2
  <2>5. ASSUME NEW l \in letters, l.message = m, l.topic = TopicOf[m]
        PROVE  Kept(m, h)'
    BY <1>1, <2>5 DEF Kept, Parked
  <2> QED
    BY <2>1, <2>2, <2>3, <2>4, <2>5 DEF Kept, Parked
<1>4. NoMessageLost'
  BY <1>1, <1>3 DEF NoMessageLost, Kept
<1> QED
  BY <1>2, <1>4 DEF BusInv

LEMMA BusPublishes ==
  ASSUME TypeOK, BusInv, NEW m \in Messages, Publish(m)
  PROVE  BusInv'
<1>1. TopicOf[m] \in Topics /\ TopicOf[m] # DeadLetterTopic
  BY ConstantFacts
<1>2. /\ sent' = sent \cup {m} /\ queue' = queue \cup Published(m, TopicOf[m], NoTopic)
      /\ UNCHANGED <<handled, letters>>
  BY DEF Publish
<1>3. /\ \A e \in Published(m, TopicOf[m], NoTopic) : OriginKept(e)
      /\ \A h \in Subscribers[TopicOf[m]] :
           Delivery(m, h, TopicOf[m], NoTopic) \in Published(m, TopicOf[m], NoTopic)
  BY <1>1, PublishedFacts DEF OriginKept
<1>4. OriginsKept' /\ LettersKeepTheirTopic'
  BY <1>2, <1>3 DEF BusInv, OriginsKept, OriginKept, LettersKeepTheirTopic
<1>5. ASSUME NEW h \in Subscribers[TopicOf[m]]
      PROVE  \E e \in queue' : e.message = m /\ e.handler = h
  <2> DEFINE e == Delivery(m, h, TopicOf[m], NoTopic)
  <2>1. e \in queue'
    BY <1>2, <1>3, <1>5
  <2>2. e.message = m /\ e.handler = h
    BY DEF Delivery
  <2> QED
    BY <2>1, <2>2
<1>6. ASSUME NEW n \in sent, NEW h \in Subscribers[TopicOf[n]]
      PROVE  Kept(n, h)'
  <2>1. Kept(n, h)
    BY <1>6 DEF BusInv, NoMessageLost, Kept
  <2>2. handled' = handled /\ letters' = letters /\ queue \subseteq queue'
    BY <1>2
  <2> QED
    BY <2>1, <2>2 DEF Kept, Parked
<1>7. NoMessageLost'
  <2>1. \A h \in Subscribers[TopicOf[m]] : Kept(m, h)'
    BY <1>5 DEF Kept
  <2> QED
    BY <1>2, <1>6, <2>1 DEF NoMessageLost, Kept
<1> QED
  BY <1>4, <1>7 DEF BusInv

LEMMA BusRedrives ==
  ASSUME TypeOK, BusInv, RedriveDeadLetters
  PROVE  BusInv'
<1>1. PICK rows \in SUBSET letters :
        /\ queue' = queue \cup Republished(rows)
        /\ letters \subseteq rows \cup letters' /\ letters' \subseteq letters
  BY DEF RedriveDeadLetters
<1>2. UNCHANGED <<sent, handled>>
  BY DEF RedriveDeadLetters
<1>3. /\ \A e \in Republished(rows) : OriginKept(e)
      /\ \A l \in rows : \A h \in Subscribers[TopicOf[l.message]] :
           \E e \in Republished(rows) : e.message = l.message /\ e.handler = h
  BY RedrivenFacts DEF BusInv
<1>4. OriginsKept' /\ LettersKeepTheirTopic'
  BY <1>1, <1>3 DEF BusInv, OriginsKept, OriginKept, LettersKeepTheirTopic
<1>5. ASSUME NEW m \in sent, NEW h \in Subscribers[TopicOf[m]]
      PROVE  Kept(m, h)'
  <2>1. Kept(m, h)
    BY <1>5 DEF BusInv, NoMessageLost, Kept
  <2>2. handled' = handled /\ queue \subseteq queue'
    BY <1>1, <1>2
  <2>3. ASSUME NEW l \in letters, l.message = m, l.topic = TopicOf[m]
        PROVE  Kept(m, h)'
    <3>1. CASE l \in letters'
      BY <2>3, <3>1 DEF Kept, Parked
    <3>2. CASE l \in rows
      <4>1. \E e \in Republished(rows) : e.message = m /\ e.handler = h
        BY <1>3, <1>5, <2>3, <3>2
      <4> QED
        BY <1>1, <4>1 DEF Kept
    <3> QED
      BY <1>1, <3>1, <3>2
  <2> QED
    BY <2>1, <2>2, <2>3 DEF Kept, Parked
<1>6. NoMessageLost'
  BY <1>2, <1>5 DEF NoMessageLost, Kept
<1> QED
  BY <1>4, <1>6 DEF BusInv

LEMMA BusInvHolds == ASSUME ~ArchivePoisoned PROVE Spec => []BusInv
<1>1. Init => BusInv
  BY DEF Init, BusInv, OriginsKept, LettersKeepTheirTopic, NoMessageLost
<1>2. TypeOK /\ BusInv /\ [Next]_vars => BusInv'
  <2>1. ASSUME BusInv, UNCHANGED vars PROVE BusInv'
    BY <2>1 DEF BusInv, OriginsKept, OriginKept, LettersKeepTheirTopic, NoMessageLost, Parked, vars
  <2> QED
    BY <2>1, BusConsumes, BusPublishes, BusRedrives DEF Next
<1> QED
  BY <1>1, <1>2, TypeCorrect, PTL DEF Spec

\* A redrive finds every letter with the topic of its message (PoisonQueue,
\* OnDeadLetter, RedriveDeadLetters), whatever crashed, was redelivered or
\* redriven before, if the archive itself is never given up.
THEOREM LettersRedrivable == ASSUME ~ArchivePoisoned PROVE Spec => []LettersKeepTheirTopic
<1>1. BusInv => LettersKeepTheirTopic
  BY DEF BusInv
<1> QED
  BY <1>1, BusInvHolds, PTL

\* "Parked, never lost": each handler of a published message has handled it, or
\* has it waiting, or finds it parked with the topic a redrive sends it to, for
\* any number of messages, crashes, redeliveries and redrives, if the archive
\* itself is never given up.
THEOREM NothingLost == ASSUME ~ArchivePoisoned PROVE Spec => []NoMessageLost
<1>1. BusInv => NoMessageLost
  BY DEF BusInv
<1> QED
  BY <1>1, BusInvHolds, PTL
=============================================================================
