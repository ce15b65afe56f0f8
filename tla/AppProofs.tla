----------------------------- MODULE AppProofs -----------------------------
(***************************************************************************)
(* The process, for any workloads: its limiter is a RateLimiter, its       *)
(* sweeps keep the invariant of SagaSupervisionProofs, and the order in    *)
(* which Run starts and stops things loses nothing.                        *)
(***************************************************************************)
EXTENDS App, RateLimiterProofs, SagaSupervisionProofs

\* The context, the bus and Run: Run goes on once the router has run, the router
\* stops for the context only, and what is attached stays so on RabbitMQ.
RunOK ==
  /\ config \in Workloads
  /\ main \in {"attaching", "resuming", "serving", "draining", "closing", "returned"}
  /\ bus \in {"attaching", "running", "stopped", "failed"}
  /\ bound \subseteq Handlers
  /\ main # "attaching" => Running
  /\ main \in {"draining", "closing"} => cancelled
  /\ bus = "stopped" => cancelled
  /\ bus = "running" => bound = Handlers
  /\ config.broker /\ Running => bound = Handlers
  /\ main = "closing" => bus = "stopped"
  /\ ~config.broker /\ bus = "stopped" => bound = {} \/ transport = "closed"

\* The HTTP server: it listens while Run serves, and the bus is closed when no
\* request is left.
ServerOK ==
  /\ errCh \subseteq {"service bus", "http server"}
  /\ "service bus" \in errCh => bus = "failed"
  /\ "http server" \in errCh => http \in {"failed", "closed"}
  /\ main \in {"attaching", "resuming"} => http = "off"
  /\ http \in {"starting", "listening"} => main = "serving"
  /\ DOMAIN answer = config.requests
  /\ \A q \in config.requests : answer[q] = "handling" => main # "attaching"
  /\ transport \in {"open", "closed"}
  /\ transport = "closed" => main \in {"closing", "returned"} /\ AtWork = {}

\* A message of this process cannot get lost: it is in a durable queue, or nobody
\* has told the process to stop.
Safe == config.broker \/ (Alive /\ ~cancelled)

\* The relay: what its open transaction has deleted has its handlers, or will.
RelayOK ==
  /\ relay # "off" => main # "attaching"
  /\ batch \subseteq outbox /\ outbox \subseteq config.rows
  /\ batch # {} => relay = "batch"
  /\ Safe => batch \subseteq heard \cup flying
  /\ heard \cup flying \subseteq config.rows \cup config.requests
  /\ flying # {} => ~config.broker /\ bus = "running" /\ Alive

\* What concerns Run, the relay and the server.
ProcessOK ==
  /\ RunOK /\ ServerOK /\ RelayOK
  /\ DeletedRowsWereHeard /\ AcceptedCommandsKept /\ NoRequestMeetsClosedBus

AppInv == ProcessOK /\ SInv

-----------------------------------------------------------------------------
\* Requests come from known clients and are no outbox rows.
LEMMA Configured ==
  ASSUME config \in Workloads
  PROVE  /\ \A q \in config.requests : q.ip \in IPs
         /\ config.rows \cap config.requests = {}
         /\ config.orders \subseteq Orders
BY AppAssumption DEF Workload

\* A process begins well.
LEMMA AppStarts == Init => AppInv
<1> SUFFICES ASSUME Init PROVE AppInv
  OBVIOUS
<1>2. SInv
  BY SupervisionStarts DEF Init
<1>3. bound \subseteq Handlers
  BY DEF Init
<1>4. RunOK
  BY <1>3 DEF Init, RunOK, Running
<1>5. ServerOK
  BY DEF Init, ServerOK
<1>6. RelayOK /\ DeletedRowsWereHeard
  BY DEF Init, RelayOK, DeletedRowsWereHeard
<1>7. AcceptedCommandsKept /\ NoRequestMeetsClosedBus
  BY DEF Init, AcceptedCommandsKept, NoRequestMeetsClosedBus
<1> QED
  BY <1>2, <1>4, <1>5, <1>6, <1>7 DEF AppInv, ProcessOK

-----------------------------------------------------------------------------
(* The goroutines of the bus and of the relay, and Run.                    *)

\* The bus attaches, runs and stops.
LEMMA BusStepOK == ASSUME ProcessOK, BusStep PROVE ProcessOK'
<1> USE DEF ProcessOK, RunOK, ServerOK, RelayOK, Running, AtWork, DeletedRowsWereHeard,
        AcceptedCommandsKept, NoRequestMeetsClosedBus, relayVars, serverVars, deliveryVars,
        Safe, Alive
<1>1. CASE attachHandlers
  BY <1>1 DEF attachHandlers
<1>2. CASE attachError
  BY <1>2 DEF attachError
<1>3. CASE RouterRuns
  BY <1>3 DEF RouterRuns
<1>4. CASE RouterStops
  BY <1>4 DEF RouterStops
<1>5. CASE \E x \in flying : GoChannelDelivers(x)
  <2>1. PICK x \in flying : GoChannelDelivers(x)
    BY <1>5
  <2>2. heard' = heard \cup {x} /\ flying' = flying \ {x}
    BY <2>1 DEF GoChannelDelivers
  <2> QED
    BY <2>1, <2>2 DEF GoChannelDelivers, runVars
<1> QED
  BY <1>1, <1>2, <1>3, <1>4, <1>5 DEF BusStep

\* Run, the signal and the listener.
LEMMA RunStepOK ==
  ASSUME ProcessOK, RunStep \/ Cancel \/ ListenAndServe \/ ListenError PROVE ProcessOK'
<1> USE DEF ProcessOK, RunOK, ServerOK, RelayOK, Running, AtWork, DeletedRowsWereHeard,
        AcceptedCommandsKept, NoRequestMeetsClosedBus, relayVars, serverVars, runVars,
        deliveryVars, Safe, Alive
<1>1. CASE AwaitRunning
  BY <1>1 DEF AwaitRunning
<1>2. CASE Serve
  BY <1>2 DEF Serve
<1>3. CASE ReturnError
  BY <1>3 DEF ReturnError
<1>4. CASE Shutdown
  BY <1>4 DEF Shutdown
<1>5. CASE Close
  BY <1>5 DEF Close
<1>6. CASE ShutdownTimeout
  BY <1>6 DEF ShutdownTimeout
<1>7. CASE Return
  BY <1>7 DEF Return
<1>8. CASE Cancel
  BY <1>8 DEF Cancel, Alive
<1>9. CASE ListenAndServe
  BY <1>9 DEF ListenAndServe
<1>10. CASE ListenError
  BY <1>10 DEF ListenError
<1> QED
  BY <1>1, <1>2, <1>3, <1>4, <1>5, <1>6, <1>7, <1>8, <1>9, <1>10 DEF RunStep

\* The relay deletes what all the handlers have.
LEMMA RelayStepOK == ASSUME ProcessOK, RelayStep PROVE ProcessOK'
<1> USE DEF ProcessOK, RunOK, ServerOK, RelayOK, Running, AtWork, DeletedRowsWereHeard,
        AcceptedCommandsKept, NoRequestMeetsClosedBus, serverVars, runVars, deliveryVars,
        Safe, Alive
<1>1. CASE BeginBatch
  BY <1>1 DEF BeginBatch
<1>2. CASE \E e \in outbox : PublishRow(e)
  <2>1. PICK e \in outbox : PublishRow(e)
    BY <1>2
  <2>2. Safe => Subscribed
    BY <2>1 DEF PublishRow, Subscribed
  <2>3. /\ heard \cup flying \subseteq heard' \cup flying'
        /\ heard' \cup flying' \subseteq heard \cup flying \cup {e}
        /\ heard \subseteq heard'
        /\ Safe => e \in heard' \cup flying'
    BY <2>1, <2>2 DEF PublishRow, PublishMessage
  <2>4. flying' # {} => ~config.broker /\ bus = "running"
    BY <2>1, AppAssumption DEF PublishRow, PublishMessage, Subscribed
  <2> QED
    BY <2>1, <2>3, <2>4 DEF PublishRow, TxDone
<1>3. CASE CommitBatch
  BY <1>3 DEF CommitBatch
<1>4. CASE AbortBatch
  BY <1>4 DEF AbortBatch
<1>5. CASE RelayStops
  BY <1>5 DEF RelayStops
<1> QED
  BY <1>1, <1>2, <1>3, <1>4, <1>5 DEF RelayStep

\* A request is let in, and answered.
LEMMA RequestStepOK ==
  ASSUME ProcessOK, NEW q \in config.requests, Accept(q) \/ Respond(q) PROVE ProcessOK'
<1> USE DEF ProcessOK, RunOK, ServerOK, RelayOK, Running, AtWork, DeletedRowsWereHeard,
        AcceptedCommandsKept, NoRequestMeetsClosedBus, relayVars, runVars, deliveryVars,
        Safe, Alive
<1>1. q \notin config.rows
  BY Configured
<1>2. CASE Accept(q)
  <2>1. PICK a \in {"handling", "too many"} : answer' = [answer EXCEPT ![q] = a]
    BY <1>2 DEF Accept
  <2>2. \A r \in config.requests : answer'[r] = IF r = q THEN a ELSE answer[r]
    BY <2>1
  <2> QED
    BY <1>1, <1>2, <2>1, <2>2 DEF Accept
<1>3. CASE Respond(q)
  <2>1. answer' = [answer EXCEPT ![q] = Answer(q)] /\ answer[q] = "handling"
    BY <1>3 DEF Respond
  <2>2. \A r \in config.requests : answer'[r] = IF r = q THEN Answer(q) ELSE answer[r]
    BY <2>1
  <2>3. transport = "open" /\ (config.broker => Subscribed)
    BY <2>1 DEF Subscribed
  <2>4. Answer(q) # "handling" /\ Answer(q) # "internal error"
    BY <2>3 DEF Answer
  <2>5. /\ heard \subseteq heard' /\ heard' \subseteq heard \cup {q}
        /\ flying \subseteq flying' /\ flying' \subseteq flying \cup {q}
        /\ config.broker /\ Answer(q) \in {"created", "accepted"} => q \in heard'
        /\ flying' # {} => ~config.broker /\ bus = "running"
    BY <1>3, <2>1, <2>3, AppAssumption DEF Respond, PublishMessage, Subscribed
  <2> QED
    BY <1>1, <1>3, <2>1, <2>2, <2>3, <2>4, <2>5 DEF Respond
<1> QED
  BY <1>2, <1>3

\* Whatever leaves Run, the relay and the server alone.
LEMMA ProcessStutters ==
  ASSUME ProcessOK, UNCHANGED <<runVars, relayVars, serverVars, deliveryVars>> PROVE ProcessOK'
BY DEF ProcessOK, RunOK, ServerOK, RelayOK, Running, AtWork, DeletedRowsWereHeard,
       AcceptedCommandsKept, NoRequestMeetsClosedBus, relayVars, serverVars, runVars,
        deliveryVars, Safe, Alive

-----------------------------------------------------------------------------
(* The sweeps and the sagas.                                               *)

\* A step of the sagas or of a sweep.
SupervisionStep ==
  \/ \E kind \in {"resume", "timeout"} : ListStreams(kind)
  \/ inFlight(config.unreadable)
  \/ \E heeded \in BOOLEAN : drive(heeded) \/ lastActivityOf(heeded) \/ SaveTimedOut(heeded)
  \/ sweep' = NoSweep /\ UNCHANGED sagaVars
  \/ SweepFails
  \/ \E o \in Orders : Start(o) \/ Progress(o) \/ TimedOutElsewhere(o) \/ TimePasses(o)
  \/ UNCHANGED <<sagaVars, sweep>>

\* Every step of the process is one of these.
LEMMA StepsOfSupervision == ASSUME config \in Workloads, [Next]_vars PROVE SupervisionStep
<1> USE DEF SupervisionStep, supervisionVars, sagaVars
<1>1. CASE BusStep
  BY <1>1 DEF BusStep, attachHandlers, attachError, RouterRuns, RouterStops, GoChannelDelivers
<1>2. CASE AwaitRunning
  BY <1>2 DEF AwaitRunning
<1>3. CASE RunStep /\ ~AwaitRunning
  BY <1>3 DEF RunStep, Serve, ReturnError, Shutdown, Close, ShutdownTimeout, Return
<1>4. CASE Cancel \/ ListenAndServe \/ ListenError
  BY <1>4 DEF Cancel, ListenAndServe, ListenError
<1>5. CASE RelayStep
  BY <1>5 DEF RelayStep, BeginBatch, PublishRow, CommitBatch, AbortBatch, RelayStops
<1>6. CASE Tick \/ WatchStops
  BY <1>6 DEF Tick, WatchStops
<1>7. CASE SweepStep
  <2>1. Subscribed \in BOOLEAN
    BY DEF Subscribed
  <2> QED
    BY <1>7, <2>1 DEF SweepStep, SweepEnds, SweepRefused
<1>8. CASE SweepCancelled \/ SweepError
  BY <1>8 DEF SweepCancelled, SweepError
<1>9. CASE \E o \in config.orders : SagaGoesOn(o) \/ SagaAgeing(o) \/ SagaMeanwhile(o)
  BY <1>9, Configured DEF SagaGoesOn, SagaAgeing, SagaMeanwhile
<1>10. CASE \E q \in config.requests : Accept(q) \/ Respond(q)
  BY <1>10 DEF Accept, Respond
<1>11. CASE ClockTicks
  BY <1>11 DEF ClockTicks
<1>12. CASE UNCHANGED vars
  BY <1>12 DEF vars
<1> QED
  BY <1>1, <1>2, <1>3, <1>4, <1>5, <1>6, <1>7, <1>8, <1>9, <1>10, <1>11, <1>12 DEF Next

\* They keep the invariant of the sweeps.
LEMMA SupervisionStepOK == ASSUME SInv, SupervisionStep PROVE SInv'
<1>1. CASE \E kind \in {"resume", "timeout"} : ListStreams(kind)
  BY <1>1, ListStreamsOK
<1>2. CASE inFlight(config.unreadable)
  BY <1>2, inFlightOK
<1>3. CASE \E heeded \in BOOLEAN : drive(heeded) \/ lastActivityOf(heeded) \/ SaveTimedOut(heeded)
  BY <1>3, driveOK, lastActivityOfOK, SaveTimedOutOK
<1>4. CASE sweep' = NoSweep /\ UNCHANGED sagaVars
  BY <1>4, SweepOverOK
<1>5. CASE SweepFails
  BY <1>5, SweepFailsOK
<1>6. CASE \E o \in Orders : Start(o) \/ Progress(o) \/ TimedOutElsewhere(o) \/ TimePasses(o)
  BY <1>6, SagaStepsOK, TimePassesOK
<1>7. CASE UNCHANGED <<sagaVars, sweep>>
  BY <1>7, SupervisionStutters
<1> QED
  BY <1>1, <1>2, <1>3, <1>4, <1>5, <1>6, <1>7 DEF SupervisionStep

\* And fail no step of a saga that is not overdue.
LEMMA OnlyOverdue ==
  ASSUME SInv, SupervisionStep, NEW o \in Orders, saga'[o] # saga[o], sweep' # sweep
  PROVE  overdue[o] /\ saga[o].status = "running"
<1>1. CASE \E heeded \in BOOLEAN : SaveTimedOut(heeded)
  BY <1>1, SweepSavesOverdue DEF SaveTimedOut
<1>2. CASE SweepFails
  BY <1>2, SweepSavesOverdue DEF SweepFails, sagaVars
<1> QED
  BY <1>1, <1>2 DEF SupervisionStep, ListStreams, inFlight, drive, lastActivityOf, sagaVars,
                    Start, Progress, TimedOutElsewhere, TimePasses

-----------------------------------------------------------------------------
(* The process as a whole.                                                 *)

\* Every step keeps the invariant.
LEMMA AppSteps == AppInv /\ [Next]_vars => AppInv'
<1> SUFFICES ASSUME AppInv, [Next]_vars PROVE AppInv'
  OBVIOUS
<1>1. ProcessOK /\ SInv /\ config \in Workloads
  BY DEF AppInv, ProcessOK, RunOK
<1>2. SInv'
  BY <1>1, StepsOfSupervision, SupervisionStepOK
<1>3. ProcessOK'
  <2>1. CASE BusStep \/ RunStep \/ Cancel \/ ListenAndServe \/ ListenError \/ RelayStep
    BY <1>1, <2>1, BusStepOK, RunStepOK, RelayStepOK
  <2>2. CASE \E q \in config.requests : Accept(q) \/ Respond(q)
    BY <1>1, <2>2, RequestStepOK
  <2>3. CASE \/ Tick \/ WatchStops \/ SweepStep \/ SweepCancelled \/ SweepError \/ ClockTicks
             \/ \E o \in config.orders : SagaGoesOn(o) \/ SagaAgeing(o) \/ SagaMeanwhile(o)
    BY <1>1, <2>3, ProcessStutters DEF Tick, WatchStops, SweepStep, SweepCancelled,
       SweepError, ClockTicks, SagaGoesOn, SagaAgeing, SagaMeanwhile
  <2>4. CASE UNCHANGED vars
    BY <1>1, <2>4, ProcessStutters DEF vars
  <2> QED
    BY <2>1, <2>2, <2>3, <2>4 DEF Next
<1> QED
  BY <1>2, <1>3 DEF AppInv

\* The process keeps its invariant.
LEMMA AppInvariant == Spec => []AppInv
BY AppStarts, AppSteps, PTL DEF Spec

\* rateLimit and the clock are all that touches the limiter: a process has the
\* behaviour of RateLimiter, whatever else it does.
THEOREM ProcessHasLimiter == Spec => LimiterSpec
<1>1. Init => LimiterInit
  BY DEF Init
<1>2. AppInv /\ [Next]_vars => [LimiterNext]_limiterVars
  <2> SUFFICES ASSUME AppInv, [Next]_vars PROVE [LimiterNext]_limiterVars
    OBVIOUS
  <2>1. config \in Workloads
    BY DEF AppInv, ProcessOK, RunOK
  <2>2. CASE \E q \in config.requests : Accept(q)
    BY <2>1, <2>2, Configured DEF Accept, LimiterNext
  <2>3. CASE ClockTicks
    BY <2>3 DEF ClockTicks, LimiterNext
  <2>4. CASE UNCHANGED vars
    BY <2>4 DEF vars
  <2>5. CASE BusStep \/ RunStep \/ Cancel \/ ListenAndServe \/ ListenError
    BY <2>5 DEF BusStep, attachHandlers, attachError, RouterRuns, RouterStops, GoChannelDelivers, RunStep,
       AwaitRunning, Serve, ReturnError, Shutdown, Close, ShutdownTimeout, Return, Cancel,
       ListenAndServe, ListenError
  <2>6. CASE RelayStep
    BY <2>6 DEF RelayStep, BeginBatch, PublishRow, CommitBatch, AbortBatch, RelayStops
  <2>7. CASE \/ Tick \/ WatchStops \/ SweepStep \/ SweepCancelled \/ SweepError
             \/ \E o \in config.orders : SagaGoesOn(o) \/ SagaAgeing(o) \/ SagaMeanwhile(o)
    BY <2>7 DEF Tick, WatchStops, SweepStep, SweepCancelled, SweepError, SagaGoesOn,
       SagaAgeing, SagaMeanwhile
  <2>8. CASE \E q \in config.requests : Respond(q)
    BY <2>8 DEF Respond
  <2> QED
    BY <2>2, <2>3, <2>4, <2>5, <2>6, <2>7, <2>8 DEF Next
<1> QED
  BY <1>1, <1>2, AppInvariant, PTL DEF Spec, LimiterSpec

\* The process, its sweeps and its limiter hold what they may hold, whatever the
\* order in which goroutines, requests, faults and the signal come.
THEOREM AppTypeCorrect == Spec => []TypeOK
<1>1. AppInv /\ LimiterTypeOK => TypeOK
  BY SupervisionTyped DEF AppInv, ProcessOK, RunOK, ServerOK, RelayOK, TypeOK
<1> QED
  BY AppInvariant, ProcessHasLimiter, LimiterTypeCorrect, <1>1, PTL

\* Run starts the relay after the router has run, and DispatchPending deletes a
\* row only after it has published it: on RabbitMQ no row is ever deleted that
\* some handler's queue has not got, and on GoChannel, which only starts to hand
\* it over, none as long as the process is not told to stop.
THEOREM RelayDeletesNothingUnheard == Spec => []DeletedRowsWereHeard
<1>1. AppInv => DeletedRowsWereHeard
  BY DEF AppInv, ProcessOK
<1> QED
  BY AppInvariant, <1>1, PTL

\* Run starts the server after the router has run, and the queues of RabbitMQ
\* outlive their consumers: a command answered with success is in its queue.
THEOREM SuccessMeansQueued == Spec => []AcceptedCommandsKept
<1>1. AppInv => AcceptedCommandsKept
  BY DEF AppInv, ProcessOK
<1> QED
  BY AppInvariant, <1>1, PTL

\* Run closes the bus after Shutdown has waited for the requests, or not at all.
THEOREM BusOutlivesRequests == Spec => []NoRequestMeetsClosedBus
<1>1. AppInv => NoRequestMeetsClosedBus
  BY DEF AppInv, ProcessOK
<1> QED
  BY AppInvariant, <1>1, PTL

\* TimeoutInFlight acts on what it loaded and on a last activity read later; the
\* version its save compares makes both current: only a step that is overdue
\* when it is failed is failed.
THEOREM WatchdogFailsOnlyOverdue == Spec => OnlyOverdueStepsFail
<1> DEFINE A == \A o \in Orders :
                  saga'[o] # saga[o] /\ sweep' # sweep
                    => overdue[o] /\ saga[o].status = "running"
<1>1. AppInv /\ [Next]_vars => A
  <2> SUFFICES ASSUME AppInv, [Next]_vars PROVE A
    OBVIOUS
  <2>1. SInv /\ SupervisionStep
    BY StepsOfSupervision DEF AppInv, ProcessOK, RunOK
  <2> QED
    BY <2>1, OnlyOverdue
<1>2. AppInv /\ [Next]_vars => [A]_supervisionVars
  BY <1>1
<1> QED
  BY <1>2, AppInvariant, PTL DEF Spec, OnlyOverdueStepsFail
=============================================================================
