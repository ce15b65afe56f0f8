# A TLA+ verification of CJ-BEER-COMPANY

The repository is a modular monolith in Go: two bounded contexts, Sales and
Warehouses, built on an event-sourcing kernel (`internal/muflone`), talking to
each other through a message bus. This directory models its core, the
order-allocation process and the machinery that is to make it reliable, and the
process around it, from boot to shutdown. The allocation process, the store and
the relay are modelled in *durable mode* (`DB_URL` and `BROKER_URL` set: Postgres
event store, outbox, RabbitMQ); the read models and the process in all four
modes, with or without a database and a broker. Properties are checked with TLC
on small instances and, where they matter most, proved with TLAPS for all values
of the constants.

## 1. Inventory

| Component | State it keeps | Operations | What makes it correct |
|---|---|---|---|
| SalesOrder aggregate, handlers (`sales/domain`, `sales/integration`) | one stream per order: pending, allocated or rejected | create, translate to the integration event, translate the outcome, settle | an order is settled once, as the warehouse decided |
| OrderAllocationSaga aggregate and runner (`warehouses/domain`, `warehouses/sagas`) | one stream per order: status and row states | start, record success, shortage, compensation | never stuck; completes only with all stock held; rejects only with none held; every saga ends |
| Resumer and watchdog (`ResumeInFlight`, `TimeoutInFlight`) | a sweep: streams listed, sagas loaded | list, load, look at the last activity, save, send | every saga in flight is decided; a step that was answered is not failed |
| Availability aggregate (`warehouses/domain`) | one stream per beer: quantity, orders that hold stock | produce, allocate, refuse, compensate | stock is moved once per order and never created or destroyed |
| Event store and repository (`muflone/postgres_eventstore.go`, `eventstore.go`, `repository.go`) | tables `events`, `outbox`; open transactions | load, append | atomic optimistic append |
| Outbox relay (`muflone/outbox.go`) | locked batch | claim, publish, delete, commit | no committed event is lost, stream order is kept |
| Service bus (`muflone/servicebus.go`, `retry.go`, `deadletters.go`) | queues, retry counters, `dead_letters` | deliver, retry, park, archive, redrive | every message is handled or recoverably parked |
| Read models, rebuild (`*/readmodel`, `*/rebuild.go`, `cmd/rebuild`) | tables `sales_orders`, `availabilities`, or maps | project, reset, replay | the rows end as the streams say |
| App (`app/app.go`, `cmd/api`) | the context, an error channel, goroutines of the bus, relay, watchdog and HTTP server | boot, resume, serve, drain, close | nothing is published unheard; the signal ends the process and loses nothing that was accepted |
| Rate limiter (`rest/middleware.go`) | a table of token buckets by client | allow, forget | bounded memory; forgetting never blocks anybody |
| REST routes, authentication, facades (`rest`, `platform/auth`, `*/facade`) | none | check, validate, send | an answer of success means the command is queued |
| Configuration, logging, telemetry, registry | none, or plumbing | | the switches that change behaviour are workloads of `App` |

**Interaction.** A request passes the rate limiter, the body limit, authentication
and the role check, is bound and validated, and ends as a command on the bus. A
command handler loads an aggregate, changes it and saves it; the events it raised
commit with the save as outbox rows, and a relay publishes them. Projections and
the saga runner consume them. Sales and Warehouses exchange integration events
only: `sales.sales_order_created` starts a saga, which sends one allocation
command at a time, compensates after a shortage, and answers with
`order_allocation_completed` or `order_allocation_rejected`. `App.Run` starts the
bus, waits for it, starts the relay, resumes the sagas in flight, then starts the
watchdog and the HTTP server; one context stops the bus, the relay and the
watchdog, and the server is drained before the transport is closed.

**What is hard.** Delivery is at least once and unordered between topics; the
runner *saves and then sends*, so that a crash in between leaves a saga nobody
drives; a watchdog and a resumer race with answers that are only late, and act on
sagas they loaded earlier; two orders interleave on the same beers; handlers race
for a stream below a head check that does not lock; the relay may fail after
publishing; one retry counter serves two budgets; the dead-letter archive sits
behind the poison queue it serves; the rebuild runs against live events, and an order
may be one that the read model cannot store; without a database an event is published
after it was appended; GoChannel drops what nobody listens to and hands the rest over
in goroutines that a shutdown ends, while it stops the relay and the requests in no
fixed order. `PROJECT.json` lists these hazards at their lines with
the properties that cover them.

## 2. Modules

| Module | Models | Uses |
|---|---|---|
| `OrderAllocationSaga` | the saga aggregate, as operators on its replayed state | |
| `Availability` | the stock aggregate, likewise | |
| `Allocation` | the whole process of an order: Sales, Warehouses, runner, resumer, watchdog, bus with faults | both aggregates |
| `OrderSettlement` | abstract: an order is placed, decided once, settled as decided | implemented by `Allocation` |
| `EventStore` | `GetByID` and `Save` over Postgres, one step per SQL statement, several handlers | |
| `EventLog` | abstract: a save appends its events on top of exactly what it read, or nothing | implemented by `EventStore` |
| `OutboxRelay` | the relays over the tables of `EventStore` | `EventStore` |
| `MessageBus` | retry middleware, poison queue, archive, redrive | |
| `ReadModels` | both projections, in each mode, and the rebuild command | |
| `SagaSupervision` | the sweeps of the resumer and the watchdog, one step per database access | `OrderAllocationSaga` |
| `RateLimiter` | the token buckets and their table | |
| `App` | one process from `Run` to its return, with its requests | `RateLimiter`, `SagaSupervision` |
| `AllocationProofs`, `AllocationStockProofs`, `OutboxRelayProofs`, `MessageBusProofs`, `ReadModelsProofs`, `RateLimiterProofs`, `SagaSupervisionProofs`, `AppProofs` | theorems and their lemmas | the module they are about |
| `MC*` | instances for TLC | |

How the levels fit: `EventStore` shows that load-change-save is atomic, so
`Allocation` takes it as one step. `OutboxRelay` shows that what a save raises
is published, so `Allocation` puts it on the bus with the save. `MessageBus`
shows that a message is retried, handled or parked, so `Allocation` has only
`Handled`, `Poisoned`, `Park` and `Redrive`. `SagaSupervision` has the sweeps at a
finer grain than `Allocation`: there a sweep acts on one saga in one step, here it
lists, loads everything, and acts on copies that may be old; its theorem
`WatchdogFailsOnlyOverdue` says that the copy is current whenever a save goes
through, which is what makes the coarser step right.

**State and actions of `Allocation`.** `order`, `saga` and `availability` are
what the three kinds of streams replay to; `bus` is every message waiting in a
queue or in the outbox, `deadLetters` the archive; `applied` is a history
variable that counts how often each production was added. One action is one
whole handler: its guard is the handler's condition, the saved state its
update, and `Handled(m, raised, sends)` its end, in which

- the message is acknowledged, or (fault `redeliver`) comes again;
- the events `raised` go out with the save, always;
- the messages in `sends` go out afterwards: all of them, or, with the fault
  `interrupt`, only some, and then the message comes again.

`bus` is a set, so delivery is unordered, and two identical messages in flight
count as one; a second delivery is a message that stays. The step timeout has no
clock: the watchdog may find any saga in flight overdue at any moment, which
includes every behaviour a real cutoff allows.

**`EventStore`.** A writer loads (`GetByID`), checks the head, inserts an event
and its outbox row in turn, and commits; at any point it may roll back. Postgres
appears by what the statements observe at READ COMMITTED: an insert of a key
another open transaction holds waits, one of a committed key fails, sequence
numbers are drawn at once and lost on rollback.

**`MessageBus`.** A delivery carries the failures it has met, of both kinds,
because the middleware compares their sum with a budget that depends on the last
one. `parked` is history: the deliveries that went to the poison queue, when their
retries were used up or when a shutdown met them in their backoff. `ArchivePoisoned` says whether archiving a letter may itself fail past the
retries.

**`ReadModels`.** On RabbitMQ each event type has a queue per projector that keeps
stream order, and different queues do not; GoChannel hands every message to its own
goroutine and keeps no order at all. The row's upsert is one statement in Postgres
and a read and a write under a lock in memory. The write side is reduced to the
events the projectors see; the rebuild exists only with a database. `waiting` is what
the outbox and the queues hold, `late` what comes out of turn (second deliveries, and
dead letters, which a redrive brings back), and `lost` is history: messages that are
gone. With a database and a broker nothing is lost. Without a database `Commit` may
append an event and fail to publish it; without a broker `Lose` ends the process with
GoChannel's messages, and a letter that is parked stays in the archive, because
`cmd/redrive` needs the broker. An event is lost for a read model until that is rebuilt.
`Fails` is a projection that can never succeed: `sales_order_rows` has the order and
the beer as its key, and an order may name a beer twice.

**`App`.** `main` is the line of `Run` that is being executed; `bus`, `relay`,
`watch` and `http` are the goroutines; `bound` the handlers whose queue (durable,
RabbitMQ) or subscription (gone with the context, GoChannel) exists; `outbox` and
`batch` the relay's rows and its open transaction, as far as boot and shutdown
concern them; `answer[q]` what client `q` was told. `heard` is history: what all
handlers have been given. On RabbitMQ that is what was published while all queues
were bound; on GoChannel a publication is `flying`, in goroutines that hand it to the
subscribers (`GoChannelDelivers`), and gone if the router stops first. A configuration is a record of `Workloads`,
chosen in the initial state: the mode, whether there is a verifier and a limit,
what the process finds at boot, and which requests come. The context is modelled
where the code passes it: queries, saves and the relay's transaction end with it,
`Publish` and `Send` do not look at it.

**`SagaSupervision`.** `awaited[o]` says whether something under way will move the
saga on (a lost send makes it FALSE), `overdue[o]` whether its last event is older
than the cutoff. `sweep` has the listed positions still to load, the loaded copies
with their versions, and whether the one at hand was found overdue.

**`RateLimiter`.** Buckets are counted in refill units, so that they may hold
fractions of a token. `ideal` and `lead` are history: the bucket a client would
have to itself, and how many requests more the program has let through.

## 3. Runs

| Run | Expect | Shows |
|---|---|---|
| `AllocationFaults` | pass | one order, two beers, two faults of any kind, watchdog: safety of the whole process, and that it implements `OrderSettlement` |
| `AllocationContention` | pass | two orders in opposite order with stock for one, one empty order, no faults: every order settles, a rejected one holds nothing |
| `AllocationWatchdog` | pass | one fault, one row of quantity zero: every saga is decided |
| `Outbox` | pass | two racing writers, one relay, two faults: atomic append, nothing lost, order kept, everything published |
| `ReadModels` | pass | an order, which may be impossible to project, and a beer in each mode, one fault, two rebuilds: the sales projection converges, a settled status stays, no beer is missing |
| `MessageBus` | pass | one event, two handlers, two faults, one redrive: nothing lost, letters keep their topic, everything settles |
| `App` | pass | processes of every mode boot, serve and stop, with one fault: nothing deleted unheard (on GoChannel, before the signal), no accepted command lost on RabbitMQ, no request meets a closed bus, the limiter only forgives, `Run` returns, every saga in flight is decided |
| `StrandedStock` | violation | finding 1 |
| `LostOutcome` | violation | finding 2 |
| `RepeatedBeer` | violation | finding 3 |
| `StaleAvailability` | violation | finding 4 |
| `BootHang` | violation | finding 5 |

All runs turn deadlock checking off: a system whose orders are settled, whose
bounded streams are full, or whose process has returned, has nothing left to do.

**Bounds.** `MaxFaults` bounds the faults of a behaviour; every finding needs at
most one, and two let a fault hit the recovery from another. Two rows of
different beers are the least with something to compensate; two orders in
opposite order with stock for one are the least in which each blocks the other;
the productions may come before, between or after the steps, so each row can be
refused or allocated. In `Outbox`, two writers with batches of one or two events
and `MaxVersion = 3` let either pass the head check first and insert one or both
rows, and `Limit = 2` makes the relay need several batches. In `MessageBus` the
budgets are 1 and 2 instead of 3 and 12: what matters is that one is larger and
both are passed. `MaxRebuilds` and `MaxRedrives` let every repeated thing happen and,
where it matters, happen again. In `ReadModels` three versions of a beer are the least
with a production, an allocation and its undoing, and the second rebuild is the one
that repairs what the first left half done. (With two orders, one of which ends the
rebuild of the other, and no beer, it passes with two faults and two rebuilds; with the
beer it takes too long.) The constants of the `MC`
modules that a configuration does not use are model values only.

In `App` the workloads are apart, because the parts share no more than the
process: `Stopped` (each mode, requests and outbox rows, a signal at any moment),
`Crowded` (three clients of a limiter that tracks two before it forgets, no
signal), `Resumed` (two sagas, the first with something to compensate, listed
before one that waits for its turn; also with a stream that cannot be decoded) and
`Booting` (a broker that may refuse). Two handlers are the least of which one can
be attached and the other not; two rows the least with a batch half published; a
token of two units and a burst of one the least with a bucket in between. `MaxLead
= 2` bounds how many requests more than its own bucket allows a client has had; it
stops only a request that would go beyond, so a client with a lead is also refused
while its own bucket would let it through, which is the step in which forgetting
costs it something. The theorem `ForgettingNeverBlocks` holds for every bound.

**Fairness.** The router serves every queue, so each handler is weakly fair for
each message; the relay and the watchdog are tickers, so they are weakly fair
too, the watchdog only if `SAGA_STEP_TIMEOUT` is not zero. Nobody is obliged to
place an order, to restart a process, to rebuild or to redrive. A writer that has
loaded its aggregate goes on. Faults are never fair. In `App`, `Run`, the bus and a
sweep that has begun go on when they can; the steps of `Run` include the timeout
of the drain, which `shutdownTimeout` guarantees whatever a request does. Answers
of a saga's step arrive, and time passes, while the router runs. Requests, their
handlers, signals and faults are not fair.

**Each property has a mutant**: a plausible bug in one definition (a dropped
guard, a wrong row, a missing key, a wrong stream prefix, a save that does not
compare the version, a close that does not wait) under which TLC finds the
property violated. Mutants stand in front of the definition they replace and are
marked `Mutant:`.

## 4. Findings

1. *Stranded stock.* The watchdog fails a step whose command is only slow. If
   nothing was allocated the saga is rejected at once; the command then takes
   stock, the settled saga ignores the answer, and the stock stays held. If
   something was, the same happens beside the compensations. The saga's comment
   says it "undoes every already-allocated row before rejecting the order". The
   watchdog is not the only way there: with it off, a second delivery of an
   allocation command that was refused, or undone, takes stock again when some is
   left (the same property fails with `StepTimeout = FALSE`, `Faults =
   {"redeliver"}` and `MaxFaults = 1`). Without watchdog and faults,
   `RejectedOrderHoldsNothing` holds.
2. *Lost outcome.* The saga is settled by the save and its outcome is published
   afterwards. If that publish fails, the redelivered event finds nothing to record
   and returns, and resumer and watchdog skip settled sagas. The order stays
   pending, although the migration says the saga "settles every order".
3. *Repeated beer.* Row states are kept by beer. Of two rows for one beer, one is
   allocated and both are compensated, with either quantity: stock appears or
   disappears.
4. *Stale availability.* The projection keeps whatever event was handled last, and
   the event types travel in different queues: the read model can stay wrong until
   the next event, not just lag.
5. *Boot hangs.* If the broker refuses a subscriber while the handlers are
   attached, the bus reports an error and never runs, and `Run` waits for it to run
   and for nothing else: the process neither serves, nor fails, nor stops on a
   signal. The decision record says it "fails fast at boot". Once the bus has run,
   `RunReturnsOnceRunning` holds.

Five findings have no run of their own, because a small change of another shows
them:

6. *Mixed failures.* One counter serves both retry budgets: after as many conflicts
   as the short budget allows, the first other error parks the message without a
   single retry. The comment on the middleware says the budget "depends on the
   error", so that a hot aggregate does not "poison legitimate messages". (A shutdown
   during the backoff parks a message that met nothing but conflicts, too; it stays
   recoverable, as `NoMessageLost` says.) (`MessageBus.cfg` with `MaxFaults = 0` and
   the invariant `BudgetPerKind` only.)
7. *Lost outbox row.* With a database and without a broker, `Publish` returns when
   GoChannel has started its goroutines; the relay deletes the row and commits, and a
   signal then ends the goroutines. The event is in no outbox and reached nobody. The
   outbox's comment says that "delivery becomes at-least-once end to end"; the
   transport's, that "messages die with the process". A rebuild repairs the read
   models; a saga that waits for the event waits for the watchdog, and an order whose
   creation was lost has no saga at all. (`App.cfg` with the invariant
   `DeliveredAtLeastOnce` only.)
8. *Unprojectable order.* An order that names a beer twice violates the primary key of
   `sales_order_rows`, whenever it is projected: at best its status is shown, in a row
   without the order. A rebuild, which has emptied the sales tables, stops at its
   stream: the orders behind it are missing, and the availabilities are not rebuilt. The
   comment on the rebuild says the read model "can be reconstructed [...] at any time".
   (`ReadModels.cfg` with `MaxFaults = 0` and the invariant `RebuildReconstructs` only.)
9. *Production twice.* A redelivered production command adds its stock again;
   `concepts.md` promises that handling a message twice is handling it once.
   (`AllocationFaults.cfg` with `Faults = {"redeliver"}`, `MaxFaults = 1` and the
   invariant `ProductionAppliedOnce`.)
10. *Lost topic.* A letter that cannot be archived is parked again and its original
    topic is overwritten: a redrive publishes it to the dead-letter topic.
    (`MessageBus.cfg` with `ArchivePoisoned = TRUE`, `MaxFaults = 0` and
    `LettersKeepTheirTopic` only.)

The model also shows limits that nothing in the repository denies:

- without a broker, a request that is answered with success during the drain may
  be lost, because its subscriber is already gone (`AcceptedCommandsKept` is about
  RabbitMQ for this reason);
- without a database, an event whose publication fails after it was appended is never
  published, and without a broker messages end with the process: the read models, which
  are then shown wrong until a rebuild or a restart, are right only for the streams of
  which no event was lost (`Quiet`);
- one saga stream that cannot be decoded ends every sweep before anything is done,
  for all sagas (`SagasDecided` excludes it);
- with `SAGA_STEP_TIMEOUT = 0` the resume at boot is the only sweep, and one error
  in it leaves the remaining sagas to the next boot.

## 5. Proofs

The proofs assume only what the modules' `ASSUME`s say of the constants: rows are
lines of known beers, batches are not empty, bounds are naturals, workloads are
well-formed, an order id is not a beer id, the dead-letter topic is no topic of a
command or event. Where a theorem needs more, its statement says so; TLC finds a
counterexample to each of these properties as soon as the hypothesis is dropped
(except that productions are finite, without which their sum means nothing).

**`AllocationProofs`**, for any orders, beers, rows, productions, faults:
`TypeCorrect`, `SagaIsNeverStuck`, `MessagesStayJustified`,
`CompletedOrdersHoldStock`, and the refinement `ProcessSettlesAsDecided`. The
invariant `IInv` joins

- `SagaShape`, the form of the rows in each status (a running saga has only pending
  and allocated rows and at least one pending, and so on);
- `AllocatedRowsHeld`: an allocated row of a saga that may still complete is held;
- `MessagesJustified`: every message in flight or parked states a fact that still
  holds;
- `OrdersJustified`: a settled order agrees with its saga.

The third is the link between actors. A compensation is only sent by a saga that
can no longer complete, and statuses never return from there, so whenever it is
delivered it cannot take stock from an order that completes; a
`BeerAvailabilityUpdated` in flight keeps its stock until the saga records it or
gives up. That is what makes unordered, repeated and redriven delivery harmless
for completed orders. Every action is shown to be *sound* in four parts (saga,
stock, orders, bus), and one lemma concludes `IInv'` from the four.

**`AllocationStockProofs`**, on top of `IInv`:

- `StepsAreInOrder`, for any faults, resumptions and timeouts. The property is not
  inductive, since a late answer could record a row out of turn; `MessagesOrdered`
  adds that a step is sent, and answered, only once the rows ahead of it are
  recorded. A resumed saga and the watchdog keep it because both look for the first
  pending row, and recorded rows stay recorded.
- `RejectedOrdersHoldNothing`, for any orders, repeated beers included, and any
  reordering, parking and redriving, as long as no message is delivered twice and
  the watchdog is off. Under these hypotheses the step of a saga is a token: `OneStep`
  (at most one step message of an order exists, in the queues or among the dead
  letters), `StepsTrue` (its saga waits for it, and it has taken stock only if it
  says so) and `HoldsForRow` (stock is held for an allocated row or for a step whose
  answer is on its way). A rejected saga has no allocated row and waits for no
  step, so it holds nothing. Both hypotheses are needed: a watchdog that gives up on
  a step whose answer is late breaks `StepsTrue` (the run `StrandedStock`), and the
  second copy of a command, handled after the first was refused and stock came in,
  breaks `OneStep` (the run `AllocationFaults` therefore leaves the property out).
- `StockIsConserved`, under every fault, restart and timeout, for orders that name a
  beer once (the run `RepeatedBeer` shows why) and finitely many productions. The
  invariant adds that holders of a beer are finitely many and asked for it. The sums
  are folds of `FiniteSetsExt`, i.e. recursive functions on the subsets of a set. The
  lemmas before the theorem show that such a function exists, that its value does
  not depend on the order in which elements are taken, and that adding an element or
  changing one weight changes the sum by as much; each takes a counterexample of
  least cardinality in place of the library's induction theorems, which the
  installed provers cannot instantiate.

**`MessageBusProofs`**, for any topics, handlers, subscriptions and retry budgets:
`TypeCorrect`, and, if the archive itself is never given up, `LettersRedrivable` and
`NothingLost`. `NoMessageLost` needs `OriginsKept`: a delivery of a handler comes from the topic of its message, and what is on its way to the
archive still names the topic it failed on. Otherwise a redrive would publish a
letter where nobody waits for it, which is what happens to a letter that the archive
gives up: the poison queue then notes the dead-letter topic as its origin.

**`ReadModelsProofs`**, for any orders, beers, modes and lengths of streams:
`TypeCorrect`, `SalesReadModelConverges`, `ProducedBeersListed` and the action property
`SettledStaysSettled`. The core of the invariant is `EventsCount`: every event of a
stream is *coming* (it waits for its projector or for a redrive, a rebuild has still to
replay it, a rebuild has failed and must be repeated, or it was lost) or *marked* in
the row. `NothingLost` says that with a database and a broker nothing is lost. An upsert marks
its event and unmarks none, since `SalesOrderCreated` keeps a status that came before it;
the reset of a rebuild unmarks all, and makes all of them coming. `RowsTrue` adds
that a settled row is what the stream says, so no event can change it back.
Convergence is the case in which nothing is coming; the creation of an order that
cannot be stored is coming for ever, so the theorem says nothing of that order. The mark
of a beer is only that it has a row: its quantity does not converge (finding 4).

**`OutboxRelayProofs`**, for any streams, writers, relays, faults: `TypeCorrect`
(batches of concurrent relays are disjoint), `NoEventIsLost`,
`OutboxKeepsStreamOrder`, the refinement `StoreAppendsAtomically`, and, for a
single relay, `OneRelayPublishesInOrder`. The heart of the invariant is
`Exclusive`: a transaction that has inserted a row stands on the head of its
stream and is the only one there that has. The head check does not give this, the
primary key does: the second insert of a version waits or fails. From it follow
gapless streams, atomic saves and rising outbox numbers. For the order of
publication the invariant adds that a lone relay's batch is a prefix of the
outbox, that rows added later come behind it in their stream, and that the
finiteness of the tables makes "the first n rows" meaningful. With several relays
order is not kept (the second may publish its batch first), which the theorem's
hypothesis says.

**`RateLimiterProofs`**, for any clients, bucket sizes and table limits:
`LimiterCapsMemory` and `ForgettingNeverBlocks`. `OnlyForgives` is not inductive:
after the table was thrown away a client has had its lead, and the program may then
refuse it while its own bucket would not. `Backed` bounds what it can still lose: a
client's own bucket exceeds the program's by at most the tokens of its lead, so a
refusal that its own bucket would not have made implies a lead of at least one.

**`SagaSupervisionProofs` and `AppProofs`**, for any workloads, sagas and faults:
every safety property of the run `App`. `ProcessHasLimiter` shows that the process
has the behaviour of `RateLimiter`. `WatchdogFailsOnlyOverdue` rests on `CheckedOK`
(what was found overdue still is, unless the stream has moved on) and `CopyOK` (a
copy of the current version is the current saga): between reading the clock and
saving, an answer raises the version, and the save is refused.
`RelayDeletesNothingUnheard`, `SuccessMeansQueued` and `BusOutlivesRequests` rest on
the order of `Run`: it goes on once the router has run; the router stops for the
context only; the server listens only while `Run` serves; and the transport is closed
when no request is at work. `RelayDeletesNothingUnheard` is about RabbitMQ at any
moment, and about GoChannel until the process is told to stop; finding 7 is what
happens then.

**Only model-checked.** Everything under fairness (`OrderSettles`, `SagaSettles`,
`EventsPublished`, `MessagesSettle`, `RunReturnsOnceRunning`, `SagasDecided`),
which the prover does not handle. Every invariant and every action property of a
passing run is also a theorem.

## 6. Not modelled

Probes, metrics, queries and paging change no state (a page and its total are two
queries, which a write may separate). The verification of a token is the library's;
a request has a valid bearer or not. Logging, telemetry and dependency injection
are plumbing. The event registry and the JSON encoding are conversions without a
property here, except that an event may not be decodable. Clocks, backoff lengths
and the watchdog's cutoff are abstracted to nondeterminism. Prices, names, dates
and reasons are data no property tells apart. Concurrent redrive or rebuild
commands are not modelled, nor is the restart of a process without a database, which has
forgotten its streams together with its read models. An order the domain refuses (`Valid` in `Allocation`) is
covered by the proofs; with one in the runs beside the others they take too long.

## 7. Plan

Done in this order: the saga and stock aggregates, the process and its refinement,
its proof; the event store, the relay, their proofs; the read models; the bus; the
sweeps, the rate limiter, the process from boot to shutdown, and their proofs; the
read models without a database or broker; the proofs of the bus, of the read models
and of the stock; lost messages of the modes without a database or a broker, and
projections that cannot succeed.

Next, in order of importance:

1. an abstract specification of the stock (a ledger with holds) that `Allocation`
   implements, by the lemmas of `AllocationStockProofs`;
2. an abstract specification of the bus (at-least-once delivery to every handler, or
   parked) that `MessageBus` implements while the archive works;
3. the steps of `ReadModels` as a refinement of a read model that is a function of the
   set of events projected;
4. several relays against the projections, and concurrent redrives.
