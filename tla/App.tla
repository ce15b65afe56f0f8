-------------------------------- MODULE App --------------------------------
(***************************************************************************)
(* One process of the application, from App.Run to its return: the bus     *)
(* attaches its handlers, the sagas in flight are resumed, the relay, the  *)
(* watchdog and the HTTP server run, and a signal ends it all.  Requests   *)
(* pass the middleware of the router (module RateLimiter among it) and end *)
(* with a command on the bus; the sweeps are those of SagaSupervision.     *)
(*                                                                         *)
(* One context stops the bus, the relay and the watchdog, at once, while   *)
(* the HTTP server is drained afterwards; none of them waits for another.  *)
(* After Run has returned the process is gone.                             *)
(*                                                                         *)
(* heard is history: the messages that all their handlers have.  On        *)
(* RabbitMQ these are the published ones, once the durable queue of each   *)
(* handler exists.  GoChannel hands a published message to its handlers in *)
(* goroutines of its own, which Publish does not wait for, and drops it    *)
(* when the subscriptions end first.                                       *)
(***************************************************************************)
EXTENDS RateLimiter, SagaSupervision

CONSTANTS Handlers,      \* the handlers of the bus
          Rows,          \* rows an outbox may hold at boot
          Workloads,     \* configurations, with what each process meets
          StepTimeout    \* SAGA_STEP_TIMEOUT is not zero

VARIABLES config,      \* the workload of this behaviour
          cancelled,   \* the context is done
          main,        \* where Run is
          errCh,       \* errors the goroutines have reported
          bus,         \* the goroutine that runs the router
          bound,       \* handlers whose queue or subscription exists
          transport,   \* the connection under the bus
          relay,       \* the goroutine of the outbox relay
          outbox,      \* rows of the outbox
          batch,       \* rows published and deleted in the open transaction
          watch,       \* the goroutine of the watchdog
          http,        \* the HTTP server
          answer,      \* answer[q]: what became of request q
          heard,       \* rows and requests whose message reached its handlers
          flying       \* those in the goroutines of GoChannel

runVars == <<config, cancelled, main, errCh, bus, bound, transport>>
relayVars == <<relay, outbox, batch>>
serverVars == <<http, answer>>
deliveryVars == <<heard, flying>>
vars == <<runVars, relayVars, watch, serverVars, deliveryVars, limiterVars, supervisionVars>>

Workload ==
  [durable : BOOLEAN, broker : BOOLEAN, verifier : BOOLEAN, limited : BOOLEAN,
   refused : BOOLEAN, stoppable : BOOLEAN, faults : 0..MaxFaults,
   orders : SUBSET Orders, unreadable : SUBSET Orders, rows : SUBSET Rows, requests : SUBSET
     [ip : IPs, route : {"sales", "production", "query"}, bearer : BOOLEAN,
      roles : SUBSET {"viewer", "sales-manager", "warehouse-operator"},
      body : {"ok", "large", "invalid"}]]

ASSUME AppAssumption ==
  /\ Workloads \subseteq Workload
  /\ \A w \in Workloads : w.durable \/ (w.orders = {} /\ w.rows = {})
  /\ \A w \in Workloads : w.refused => w.broker
  /\ \A w \in Workloads : w.rows \cap w.requests = {}
  /\ StepTimeout \in BOOLEAN
  /\ Handlers # {}

Alive == main # "returned"

\* What is published now has all its handlers.
Subscribed == transport = "open" /\ bound = Handlers

\* Publisher.Publish: into the queues of RabbitMQ, or to goroutines of GoChannel.
PublishMessage(x) ==
  /\ heard' = IF Subscribed /\ config.broker THEN heard \cup {x} ELSE heard
  /\ flying' = IF Subscribed /\ ~config.broker THEN flying \cup {x} ELSE flying

-----------------------------------------------------------------------------
(* The goroutine of the bus.                                               *)

attachHandlers ==
  /\ bus = "attaching"
  /\ \E h \in Handlers \ bound : bound' = bound \cup {h}
  /\ UNCHANGED <<config, cancelled, main, errCh, bus, transport>>
  /\ UNCHANGED <<relayVars, watch, serverVars, deliveryVars, limiterVars, supervisionVars>>

\* The broker refuses a subscriber: the router never runs.
attachError ==
  /\ config.refused
  /\ bus = "attaching"
  /\ bus' = "failed"
  /\ errCh' = errCh \cup {"service bus"}
  /\ UNCHANGED <<config, cancelled, main, bound, transport>>
  /\ UNCHANGED <<relayVars, watch, serverVars, deliveryVars, limiterVars, supervisionVars>>

RouterRuns ==
  /\ bus = "attaching"
  /\ bound = Handlers
  /\ bus' = "running"
  /\ UNCHANGED <<config, cancelled, main, errCh, bound, transport>>
  /\ UNCHANGED <<relayVars, watch, serverVars, deliveryVars, limiterVars, supervisionVars>>

\* The context ends the subscriptions, and with them the router; GoChannel
\* discards what no handler has received.
RouterStops ==
  /\ Alive
  /\ cancelled
  /\ bus = "running"
  /\ bus' = "stopped"
  /\ bound' = IF config.broker THEN bound ELSE {}
  /\ flying' = {}
  /\ UNCHANGED <<config, cancelled, main, errCh, transport>>
  /\ UNCHANGED <<relayVars, watch, serverVars, heard, limiterVars, supervisionVars>>

\* The handlers of x have received it.
GoChannelDelivers(x) ==
  /\ Alive
  /\ bus = "running"
  /\ heard' = heard \cup {x}
  /\ flying' = flying \ {x}
  /\ UNCHANGED <<runVars, relayVars, watch, serverVars, limiterVars, supervisionVars>>

Running == bus \in {"running", "stopped"}

-----------------------------------------------------------------------------
(* App.Run.                                                                *)

Cancel ==
  /\ Alive
  /\ config.stoppable
  /\ ~cancelled
  /\ cancelled' = TRUE
  /\ UNCHANGED <<config, main, errCh, bus, bound, transport>>
  /\ UNCHANGED <<relayVars, watch, serverVars, deliveryVars, limiterVars, supervisionVars>>

\* Mutant: does not wait for the router.
StartAtOnce ==
  /\ main = "attaching"
  /\ main' = "resuming"
  /\ relay' = IF config.durable THEN "idle" ELSE "off"
  /\ ListStreams("resume")
  /\ UNCHANGED <<config, cancelled, errCh, bus, bound, transport>>
  /\ UNCHANGED <<outbox, batch, watch, serverVars, deliveryVars, limiterVars>>

\* <-a.bus.Running(), whatever else happens; then the relay and the resumer.
AwaitRunning ==
  /\ main = "attaching"
  /\ Running
  /\ main' = "resuming"
  /\ relay' = IF config.durable THEN "idle" ELSE "off"
  /\ ListStreams("resume")
  /\ UNCHANGED <<config, cancelled, errCh, bus, bound, transport>>
  /\ UNCHANGED <<outbox, batch, watch, serverVars, deliveryVars, limiterVars>>

\* The sweep is over, with or without an error.
Serve ==
  /\ main = "resuming"
  /\ sweep = NoSweep
  /\ main' = "serving"
  /\ watch' = IF StepTimeout THEN "on" ELSE "off"
  /\ http' = "starting"
  /\ UNCHANGED <<config, cancelled, errCh, bus, bound, transport>>
  /\ UNCHANGED <<relayVars, answer, deliveryVars, limiterVars, supervisionVars>>

ListenAndServe ==
  /\ http = "starting"
  /\ http' = "listening"
  /\ UNCHANGED <<runVars, relayVars, watch, answer, deliveryVars, limiterVars, supervisionVars>>

ListenError ==
  /\ http = "starting"
  /\ Fault
  /\ http' = "failed"
  /\ errCh' = errCh \cup {"http server"}
  /\ UNCHANGED <<config, cancelled, main, bus, bound, transport>>
  /\ UNCHANGED <<relayVars, watch, answer, deliveryVars, limiterVars, sagaVars, sweep>>

\* The select of Run: an error ends the process as it stands.
ReturnError ==
  /\ main = "serving"
  /\ errCh # {}
  /\ main' = "returned"
  /\ flying' = {}
  /\ UNCHANGED <<config, cancelled, errCh, bus, bound, transport>>
  /\ UNCHANGED <<relayVars, watch, serverVars, heard, limiterVars, supervisionVars>>

\* The signal closes the listener; Shutdown waits for the handlers at work.
Shutdown ==
  /\ main = "serving"
  /\ cancelled
  /\ main' = "draining"
  /\ http' = "closed"
  /\ UNCHANGED <<config, cancelled, errCh, bus, bound, transport>>
  /\ UNCHANGED <<relayVars, watch, answer, deliveryVars, limiterVars, supervisionVars>>

AtWork == {q \in config.requests : answer[q] = "handling"}

\* Mutant: closes the bus without waiting for the requests.
CloseAtOnce ==
  /\ main = "draining"
  /\ main' = "closing"
  /\ transport' = "closed"
  /\ bus' = "stopped"
  /\ flying' = {}
  /\ UNCHANGED <<config, cancelled, errCh, bound>>
  /\ UNCHANGED <<relayVars, watch, serverVars, heard, limiterVars, supervisionVars>>

\* Then Close ends the router and the transport.
Close ==
  /\ main = "draining"
  /\ AtWork = {}
  /\ main' = "closing"
  /\ transport' = "closed"
  /\ bus' = "stopped"
  /\ flying' = {}
  /\ UNCHANGED <<config, cancelled, errCh, bound>>
  /\ UNCHANGED <<relayVars, watch, serverVars, heard, limiterVars, supervisionVars>>

\* Mutant: Shutdown has no deadline.
ShutdownWithoutDeadline ==
  /\ main = "draining"
  /\ AtWork # {}
  /\ UNCHANGED vars

\* shutdownTimeout has passed: Run returns without closing the bus.
ShutdownTimeout ==
  /\ main = "draining"
  /\ AtWork # {}
  /\ main' = "returned"
  /\ flying' = {}
  /\ UNCHANGED <<config, cancelled, errCh, bus, bound, transport>>
  /\ UNCHANGED <<relayVars, watch, serverVars, heard, limiterVars, supervisionVars>>

\* The traces are flushed, and the process ends.
Return ==
  /\ main = "closing"
  /\ main' = "returned"
  /\ UNCHANGED <<config, cancelled, errCh, bus, bound, transport>>
  /\ UNCHANGED <<relayVars, watch, serverVars, deliveryVars, limiterVars, supervisionVars>>

-----------------------------------------------------------------------------
(* The relay: DispatchPending, as far as the shutdown concerns it (module  *)
(* OutboxRelay has the rest).                                              *)

\* BeginTx(ctx): a done context rolls the transaction back, and its statements fail.
TxDone == cancelled

BeginBatch ==
  /\ Alive
  /\ relay = "idle"
  /\ ~cancelled
  /\ outbox # {}
  /\ relay' = "batch"
  /\ UNCHANGED <<runVars, outbox, batch, watch, serverVars, deliveryVars, limiterVars, supervisionVars>>

\* Publish knows no context; the DELETE after it does.
PublishRow(e) ==
  /\ Alive
  /\ relay = "batch"
  /\ e \in outbox \ batch
  /\ transport = "open"
  /\ PublishMessage(e)
  /\ IF TxDone THEN relay' = "idle" /\ batch' = {}
               ELSE batch' = batch \cup {e} /\ UNCHANGED relay
  /\ UNCHANGED <<runVars, outbox, watch, serverVars, limiterVars, supervisionVars>>

CommitBatch ==
  /\ Alive
  /\ relay = "batch"
  /\ batch = outbox
  /\ ~TxDone
  /\ outbox' = outbox \ batch
  /\ relay' = "idle"
  /\ batch' = {}
  /\ UNCHANGED <<runVars, watch, serverVars, deliveryVars, limiterVars, supervisionVars>>

\* Mutant: nobody rolls the transaction back.
AbandonBatch ==
  /\ Alive
  /\ relay = "batch"
  /\ \/ TxDone /\ UNCHANGED faults
     \/ Fault
  /\ relay' = "idle"
  /\ UNCHANGED <<runVars, outbox, batch, watch, serverVars, deliveryVars, limiterVars, sagaVars, sweep>>

\* The deferred Rollback of a batch that failed.
AbortBatch ==
  /\ Alive
  /\ relay = "batch"
  /\ \/ TxDone /\ UNCHANGED faults
     \/ Fault
  /\ relay' = "idle"
  /\ batch' = {}
  /\ UNCHANGED <<runVars, outbox, watch, serverVars, deliveryVars, limiterVars, sagaVars, sweep>>

RelayStops ==
  /\ Alive
  /\ relay = "idle"
  /\ cancelled
  /\ relay' = "done"
  /\ UNCHANGED <<runVars, outbox, batch, watch, serverVars, deliveryVars, limiterVars, supervisionVars>>

-----------------------------------------------------------------------------
(* The sweeps: the resumer in Run itself, the watchdog in its goroutine.   *)

\* Mutant: the watchdog gives up after a sweep that failed.
TickOnce ==
  /\ Alive
  /\ watch = "on"
  /\ ~cancelled
  /\ ListStreams("timeout")
  /\ watch' = "done"
  /\ UNCHANGED <<runVars, relayVars, serverVars, deliveryVars, limiterVars>>

Tick ==
  /\ Alive
  /\ watch = "on"
  /\ ~cancelled
  /\ ListStreams("timeout")
  /\ UNCHANGED <<runVars, relayVars, watch, serverVars, deliveryVars, limiterVars>>

WatchStops ==
  /\ Alive
  /\ watch = "on"
  /\ cancelled
  /\ sweep = NoSweep
  /\ watch' = "done"
  /\ UNCHANGED <<runVars, relayVars, serverVars, deliveryVars, limiterVars, supervisionVars>>

\* Queries and saves need the context, sends do not.
SweepStep ==
  /\ Alive
  /\ \/ ~cancelled /\ (inFlight(config.unreadable) \/ lastActivityOf(Subscribed) \/ SaveTimedOut(Subscribed))
     \/ drive(Subscribed)
     \/ SweepEnds
     \/ SweepRefused(config.unreadable)
  /\ UNCHANGED <<runVars, relayVars, watch, serverVars, deliveryVars, limiterVars>>

SweepCancelled ==
  /\ Alive
  /\ cancelled
  /\ sweep # NoSweep
  /\ sweep' = NoSweep
  /\ UNCHANGED <<sagaVars, faults>>
  /\ UNCHANGED <<runVars, relayVars, watch, serverVars, deliveryVars, limiterVars>>

SagaGoesOn(o) ==
  /\ Alive
  /\ Progress(o)
  /\ UNCHANGED <<runVars, relayVars, watch, serverVars, deliveryVars, limiterVars>>

SagaAgeing(o) ==
  /\ Alive
  /\ TimePasses(o)
  /\ UNCHANGED <<runVars, relayVars, watch, serverVars, deliveryVars, limiterVars>>

\* What happens to the sagas and to the database meanwhile.
SagaMeanwhile(o) ==
  /\ Alive
  /\ Start(o) \/ (StepTimeout /\ TimedOutElsewhere(o))
  /\ UNCHANGED <<runVars, relayVars, watch, serverVars, deliveryVars, limiterVars>>

SweepError ==
  /\ Alive
  /\ SweepFails
  /\ UNCHANGED <<runVars, relayVars, watch, serverVars, deliveryVars, limiterVars>>

-----------------------------------------------------------------------------
(* Requests.                                                               *)

\* rateLimit, the first middleware, lets a client through or tells it to wait; it
\* does nothing if RATE_LIMIT_RPS is zero.  A client may repeat a request once it
\* has its answer.
Accept(q) ==
  /\ http = "listening"
  /\ answer[q] # "handling"
  /\ \/ /\ config.limited
        /\ allow(q.ip)
        /\ answer' = [answer EXCEPT ![q] = IF Allows(Bucket(q.ip)) THEN "handling" ELSE "too many"]
     \/ /\ ~config.limited
        /\ answer' = [answer EXCEPT ![q] = "handling"]
        /\ UNCHANGED limiterVars
  /\ heard' = heard \ {q}
  /\ UNCHANGED <<flying, runVars, relayVars, watch, http, supervisionVars>>

\* requireRole: who may call a route.
RoleOf(route) ==
  CASE route = "sales" -> "sales-manager"
    [] route = "production" -> "warehouse-operator"
    [] route = "query" -> "viewer"

\* authenticate, requireRole: no-ops without a verifier.
authorized(q) == config.verifier => q.bearer /\ RoleOf(q.route) \in q.roles

\* bodyLimit, authenticate, requireRole, the binding of the body and the
\* validation of the facade, in this order, and then Send or the query.
Answer(q) ==
  IF q.body = "large" THEN "too large"
  ELSE IF ~authorized(q) THEN IF q.bearer THEN "forbidden" ELSE "unauthorized"
  ELSE IF q.route = "query" THEN "ok"
  ELSE IF q.body = "invalid" THEN "bad request"
  ELSE IF transport = "closed" THEN "internal error"
  ELSE IF q.route = "sales" THEN "created" ELSE "accepted"

Respond(q) ==
  /\ Alive
  /\ answer[q] = "handling"
  /\ answer' = [answer EXCEPT ![q] = Answer(q)]
  /\ IF Answer(q) \in {"created", "accepted"}
       THEN PublishMessage(q) ELSE UNCHANGED deliveryVars
  /\ UNCHANGED <<runVars, relayVars, watch, http, limiterVars, supervisionVars>>

ClockTicks ==
  /\ Alive
  /\ Refill
  /\ UNCHANGED <<runVars, relayVars, watch, serverVars, deliveryVars, supervisionVars>>

-----------------------------------------------------------------------------
Init ==
  /\ config \in Workloads
  /\ cancelled = FALSE
  /\ main = "attaching"
  /\ errCh = {}
  /\ bus = "attaching"
  /\ bound \in IF config.broker THEN {{}, Handlers} ELSE {{}}
  /\ transport = "open"
  /\ relay = "off"
  /\ outbox = config.rows
  /\ batch = {}
  /\ watch = "off"
  /\ http = "off"
  /\ answer = [q \in config.requests |-> "none"]
  /\ heard = {}
  /\ flying = {}
  /\ LimiterInit
  /\ \E left \in SUBSET config.orders : SupervisionInit(left)
  /\ faults = MaxFaults - config.faults

BusStep ==
  \/ attachHandlers \/ attachError \/ RouterRuns \/ RouterStops
  \/ \E x \in flying : GoChannelDelivers(x)

RunStep == AwaitRunning \/ Serve \/ ReturnError \/ Shutdown \/ Close \/ ShutdownTimeout \/ Return

RelayStep ==
  BeginBatch \/ (\E e \in outbox : PublishRow(e)) \/ CommitBatch \/ AbortBatch \/ RelayStops

Next ==
  \/ Cancel
  \/ BusStep
  \/ RunStep
  \/ ListenAndServe \/ ListenError
  \/ RelayStep
  \/ Tick \/ WatchStops
  \/ SweepStep \/ SweepCancelled \/ SweepError
  \/ \E o \in config.orders : SagaGoesOn(o) \/ SagaAgeing(o) \/ SagaMeanwhile(o)
  \/ \E q \in config.requests : Accept(q) \/ Respond(q)
  \/ ClockTicks

Spec == Init /\ [][Next]_vars

\* Goroutines that can go on do; answers arrive while the router runs; nobody
\* has to send a request or a signal, and faults need not happen.
Fairness ==
  /\ WF_vars(attachHandlers \/ RouterRuns)
  /\ WF_vars(RunStep)
  /\ WF_vars(SweepStep \/ SweepCancelled)
  /\ WF_vars(Tick)
  /\ \A o \in Orders : WF_vars(bus = "running" /\ SagaGoesOn(o)) /\ WF_vars(SagaAgeing(o))

FairSpec == Spec /\ Fairness

-----------------------------------------------------------------------------
\* Components hold what they may hold, and an error is reported once.
TypeOK ==
  /\ LimiterTypeOK
  /\ SupervisionTypeOK
  /\ main \in {"attaching", "resuming", "serving", "draining", "closing", "returned"}
  /\ bus \in {"attaching", "running", "stopped", "failed"}
  /\ errCh \subseteq {"service bus", "http server"}
  /\ bound \subseteq Handlers
  /\ batch \subseteq outbox /\ outbox \subseteq config.rows
  /\ batch # {} => relay = "batch"
  /\ heard \cup flying \subseteq config.rows \cup config.requests
  /\ flying # {} => ~config.broker /\ bus = "running" /\ Alive

\* No event is deleted from the outbox before it has all its handlers, while the
\* bus starts and however the signal stops bus and relay on RabbitMQ; on
\* GoChannel as long as the process is not told to stop.
DeletedRowsWereHeard ==
  config.broker \/ (Alive /\ ~cancelled) => config.rows \subseteq outbox \cup heard \cup flying

\* With the outbox "delivery becomes at-least-once end to end": in durable mode,
\* whatever the transport, an event is in the outbox until its handlers have it.
DeliveredAtLeastOnce == config.rows \subseteq outbox \cup heard \cup flying

\* On RabbitMQ an answer of success means that the command is in the queue of
\* its handler, also before the first boot is over and during a shutdown.
AcceptedCommandsKept ==
  config.broker =>
    \A q \in config.requests : answer[q] \in {"created", "accepted"} => q \in heard

\* "signal -> HTTP drain -> bus close": no request that was let in finds the
\* bus closed.
NoRequestMeetsClosedBus == \A q \in config.requests : answer[q] # "internal error"

\* "Run blocks until ctx is cancelled, then shuts down gracefully."
RunReturns == cancelled ~> ~Alive

\* The same, of a process whose bus has started: whatever the requests, the
\* relay and the sweeps are doing, the signal ends it.
RunReturnsOnceRunning == cancelled /\ Running ~> ~Alive

\* "Steps must not wait forever": while the process runs, each saga in flight is
\* decided, although a sweep ends at the first error, races with the answers, and
\* lists the streams before it loads them.  Not so if one stream cannot be
\* decoded: it ends every sweep before anything is done.
SagasDecided ==
  \A o \in Orders :
    InFlight(saga[o]) /\ config.unreadable = {} ~> ~InFlight(saga[o]) \/ cancelled \/ ~Alive
=============================================================================
