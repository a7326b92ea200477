# A TLA+ model of the Optimizely experimentation platform

The repository is a TypeScript monorepo: a browser SDK that collects events (`apps/tracking`), an
API server with some hundred services on Redis (`apps/api`), and a Next.js application that shows
what the API returns (`apps/web`). This directory holds TLA+ modules of the parts of it in which
order, timing and failure decide whether the code is right, TLC configurations that check them on
small instances, and TLAPS proofs of the safety properties for every instance.

Run a configuration with `tlc -config WSSafety.cfg MCWebSocketManager`, and check the proofs with
`tlapm WebSocketManagerProofs.tla`. `PROJECT.json` maps every definition to the lines it models.

## The system

| Part | Source | State | What makes it hard |
| --- | --- | --- | --- |
| WebSocket transport of the SDK | `tracking/src/modules/WebSocketManager.ts` | status, socket, timers, message queue | late events of replaced sockets, timers that outlive what set them, retries |
| Outgoing webhooks | `api/src/services/webhook-manager.ts` | endpoints, deliveries, the hash `webhooks` in Redis | two retry mechanisms, objects held across requests, restarts |
| Circuit breaker | `api/src/services/universal-error-handling-service.ts` | state and counts per service and operation | calls that overlap a change of state, a save that fails after the call succeeded |
| Error records and retries | the same service and `routes/universal-error-handling.ts` | records, retry queue, notifications | an interval that overlaps itself, records marked before and queued after an await |
| Sync engine | `api/src/services/sync-engine-service.ts` and `routes/sync-engine.ts` | jobs, executions, the list `sync:jobs` in Redis | cancellation and deletion during an execution, restarts, whole-list saves |
| A/B testing | `api/src/services/ab-testing-service.ts` | experiments, assignments, metrics | status changes outside the life cycle, metrics reset on restart |
| Incoming webhooks | `api/src/services/webhook-processing-service.ts` | queues, endpoint statistics | endpoint written back after an await, failures counted twice |
| Event manager | `api/src/services/event-manager.ts` | handlers, subscriptions | subscribing during an awaited unsubscribe, double delivery |
| Visitor sessions | `api/src/services/session-manager.ts` | sessions and indexes in Redis | read, change and write against the clean-up |
| WebSocket server | `api/src/services/websocket-server.ts` | clients, subscriptions | heartbeats that the client does not send |
| Tracker and its sessions | `tracking/src/core/` | event queue, consent, session shared by tabs | initialisation that overlaps itself, storage events |

The first five are modelled. The others, and those that need no model, are listed in `PROJECT.json`
with the reason. The parts interact through Redis and through Node's event loop: the error service
updates the circuit breaker when it records an error (ErrorRecovery instantiates CircuitBreaker for
that), and every service saves to Redis over one connection.

## How the code is modelled

JavaScript runs to completion: nothing interleaves with a handler until it awaits something that
really waits. An action is therefore the code between two such awaits. An `await` of a promise that
is already settled is not a point of interleaving. Redis executes the commands of one connection in the order in
which they were issued, so commands that have been issued and not executed form a queue. A rejection that
nobody handles ends the process: a restart, or in ErrorRecovery the end of the behaviour. Time is abstracted to what has been reached: a
timer is set or not, a delay lies in the future or has passed.

### WebSocketManager

The record `mgr` holds the fields of the object. `ready` is the readyState of each socket,
`awaited` the sockets whose `connect()` a `reconnect()` still awaits, `timeouts` the connection
timeouts that have not fired. `queue` and `sent` are the messages waiting and handed to the socket.
There is an action for every public method (`AppInit` to `AppDestroy`), every socket event and
every timer. Sockets of the browser are external: a closing socket ends with a close event, one
closed while connecting with an error event as well. Socket identities are recycled once a socket
is closed and nothing refers to it.

Three things are simpler than in the code. `connect()` without any url, which rejects before it touches
a socket, is left out: every attempt has a url. The queue is a set of messages with the order of
`send()`, and a flush sends them in that order, so within one flush the order holds by construction;
`SendOrder` is about what several flushes, direct sends and failures make of it. And listeners do not
call `send()` from within the event that a flush emits for each message. `DestroyedIsFinal` says that
after `destroy()` no socket is created and nothing is sent; the late open event of a socket that had
been replaced before can still set the status to connected, and no property forbids it.

### WebhookManager

`obj` holds the endpoint objects and `live` the ones still in the map: a delivery under way keeps
using an object that was deleted. A delivery counts its backoff timers and its requests, since the
timer and the retry processor can both attempt it. `redis` is the hash, `commands` the commands on
their way. Actions are the methods of the API, the outcomes of a request, the backoff timer, the
retry processor, Redis answering or failing, and a restart. Of the fields that `updateWebhook` can
change only `active` is modelled: nothing in the repository calls it, and a caller that lowered
`maxRetries` or set `failureCount` during a delivery is left out.

### CircuitBreaker and BreakerPromise

BreakerPromise is what a breaker promises its users: once open it closes only through half open, and
from its opening until its timeout no call begins. A half-open breaker may open again; this code never
does that, since a failure leaves it half open. CircuitBreaker is the code: calls that overlap,
functions that succeed and fail, saves that fail (a success whose save fails is reported again as a
failure), and errors recorded elsewhere. The property `KeepsPromise` is the refinement.

### ErrorRecovery

Records, the retry queue and the notifications of one service and operation. `flow` is where
`recordError` awaits for each error; `ticks` are runs of the processing interval, which may overlap because a
run awaits a save for each record. Actions are the steps of `recordError` and its workflow, manual retries,
resolution, the steps of the interval, and saves that fail. A save that fails in the interval rejects its
callback, which nobody handles: `alive` becomes false and nothing happens any more. The same holds for
an error that the service records itself when it starts; in a route the client gets status 500, and
a workflow logs the failure. A manual retry schedules a delay that passes: a request body whose
strategy gives no valid delay is left out.

### SyncEngine

`jobs` is the status of each job in memory, `store` and `pending` the list in Redis and the commands
that read or write it. `execs` are executions with what they await and their statistics. `Advance`
is the loop of `performSync` up to its next await. The routes, `cancelExecution`, Redis, restarts
and the start of the service are the other actions.

The process has a second engine, made by `webhook-processing-service.ts`: `hookJobs` are its jobs and
`hookPhase` its start. It executes nothing, but it loads the same list, creates mock jobs when it
starts and a job for each webhook, and saves all its jobs under `sync:jobs`. So a save of one engine
drops the jobs that only the other has, and a restart loses them. That is what the code does;
`StoreCatchesUp` says that what is stored last is nevertheless the whole and present list of the engine
that saved it. Statuses other than running are one, because the engine tells no others apart, and a
mapping is an action that saves the jobs unchanged.

## Runs

| Run | Result | What it shows |
| --- | --- | --- |
| ws_safety | holds | nothing sendable waits while the socket is open, the queue is bounded and behind the wire, messages keep the order of `send()`, `destroy()` is final |
| ws_retries_end | holds | with a url that the WebSocket constructor refuses the retry loop ends |
| ws_retry_stops | violated | the close event after a failed attempt clears the timer of the next one ("Will schedule next attempt automatically") |
| ws_silent_server | violated | a server that answers no heartbeat is never noticed, because each heartbeat resets the counter |
| wh_safety | holds | fewer attempts than twice the limit, a waiting delivery has a timer, the hash catches up with memory |
| wh_live | holds | every delivery comes to rest and every `sendWebhook` gets to its last endpoint |
| wh_deleted | violated | a delivery that ends after `deleteWebhook()` writes the endpoint back, and a restart loads it |
| cb_outages | holds | the counts match the state, the breaker keeps BreakerPromise, it closes again after every outage (`halfOpenMaxCalls` equals `successThreshold`, as in the code's only configuration) |
| cb_half_open | violated | a half-open breaker lets more calls through than `halfOpenMaxCalls` |
| er_retries | holds | a record marked retrying is queued or about to be, no queued retry goes uncounted, retries happen, notifications are sent unless the process ends |
| er_resolved | violated | an error that was resolved while queued is retried and made active again |
| se_executions | holds | a job is executed once at a time, every record is counted once, the list stored last is the present one of the engine that saved it, a running job is being run |

Deadlock is checked except where the system may come to rest: sync and webhook behaviours end when
the bounds are used up, and the two sessions of the WebSocket that stop are the point of their runs.

### Bounds

- WebSocket: two sockets suffice for a replaced socket whose late events meet the current one; the
  two runs that show a disagreement use three. Three messages with a queue of two fill it and overflow it. One retry
  and one missed heartbeat are enough for every branch of the retry code in the safety run.
- Webhooks: the safety run has one endpoint and two deliveries of two attempts each, a queue limit of
  one so that a waiting delivery is trimmed, disabling after one failure, one restart and one Redis
  error. The liveness run has two endpoints, because `sendWebhook` goes through them in order.
- Circuit breaker: three callers and a threshold of three failures and two successes make late outcomes of
  one phase meet the next one; two outages make it open twice.
- Error recovery: one network error (scheduled twice by the code) and one server error, two overlapping
  runs of the interval, a manual retry and one failing save.
- Sync engine: one job (the code relates jobs only through the list that is saved, and the engine that
  has not got the job saves a list without it), two executions, two records in every mode, and one
  fault: a request that overwrites the status, a restart or a failing command. `MaxPending` limits the
  saves that Redis has not executed when a request, a webhook or the mock data comes: 1 lets a save be
  issued behind the loads of both starting engines, and executions, which it does not limit, add theirs
  to it. The theorems hold for every value of it.

### Fairness

Nothing is assumed of users, of servers or of when connections are lost. Timers that are set fire;
a socket that is connecting or closing reaches an outcome; a request ends, because the code gives it
an abort timeout; Redis answers or fails. For the breaker, callers keep asking and outages end: its
recovery is meaningless otherwise. For error recovery the interval keeps firing. All of it is weak
fairness.

## Proofs

TLC checks instances; the theorems below hold for all values of the constants that satisfy the named
assumption of each module (limits are natural numbers, thresholds are positive, the null value is
not an identity).

- **WebSocketManagerProofs**: the type invariant, `NothingSendableWaits`, `QueueBehindWire`,
  `SendOrder`, `DestroyedIsFinal`. The inductive invariant `IInv` adds that a sendable message in
  the queue has never been tried, that queued ids were issued, and that the socket of a destroyed
  manager is neither connecting nor open; without the first, a flush could leave a sendable message
  behind after its last attempt.
- **WebhookManagerProofs**: `AttemptsBounded` and `RetryingHasTimer` follow from a budget
  (`RetryBudget`) that relates the attempts, timers and requests of one delivery. `StoreFollowsMemory`
  needs in addition that nothing has been written for endpoints not yet registered, and that the load of a
  starting process is the first of its commands.
- **CircuitBreakerProofs**: the type invariant and `CountsMatchState` are inductive together;
  `PromiseKept` shows step by step that the breaker implements BreakerPromise.
- **ErrorRecoveryProofs**: `RetryingIsQueued` with the type invariant. The work is in the queue: the
  interval removes the first entry of a record, and another entry or the new status must remain.
- **SyncEngineProofs**: the type invariant, `ExclusiveExecutions`, `RecordsAccounted`,
  `StoreCatchesUp` and `RunningIsExecuted`. `ExclusiveExecutions` is not inductive: `IInv` adds that
  the job of an execution under way is marked running or deleted (`LoopingIsRunning`), that a job
  which a starting service is about to load is not one that requests already work on (`LoadIsNew`), and that
  ids are never reused (`JobsKnown`), in the list of the second engine as well. Every step of an execution is first shown to be of one shape
  (`Ran`), and one lemma shows that this shape keeps the invariant.

Only model-checked: everything that must eventually happen (`RetriesEnd`, `DeliveriesSettle`,
`SendsFinish`, `BreakerRecovers`, `RetryHappens`, `NotificationsSent`), which is beyond the prover, and
`QueueBounded` and `RetriesAreCounted`, which count the elements of a set or of a queue.

## Not modelled

Contents of messages, signatures, statistics of response times, logging and notifications' wording
are left out everywhere: no control depends on them. In the sync engine the mappings, the conflict
list, transformations and the expiry of the stored list are left out. In error recovery the start of
another process, workflows added at run time and the stored copy of the breaker are left out.

Some properties are restricted to behaviours without a fault because the code does go wrong after
one: a save that fails in `scheduleRetry` leaves an error that nothing retries, a restart or a failing
save during an execution leaves a job marked running for ever, and a request that overwrites the status of
a running job lets it run twice. The model has these behaviours; no document of the repository
excludes them, so no run reports them.

Scoring, forecasting and reporting compute floating-point numbers from stored or simulated data and
are out of TLC's reach. The web application displays data. The copy of Redis under `.local` is
third-party code; the modules assume only that it executes a connection's commands in order.

## Plan

1. A/B testing: life cycle of an experiment, sticky assignments, metrics against assignments, monitoring
   and early stopping; proofs that metrics never exceed assignments.
   An update can set the status to running without `startExperiment` (`ab-testing-service.ts:379`).
2. Incoming webhooks: the queue and its processors. The endpoint is read before an awaited save and
   written after it (`webhook-processing-service.ts:361`), and a failing save of the statistics
   counts a completed webhook again as a failed one (`:446`).
3. Event manager: handlers against subscriptions, a handler that subscribes while unsubscribe is
   awaited (`event-manager.ts:142`), wildcard channels (`:310`). Visitor sessions: updates against
   the clean-up (`session-manager.ts:113` and `:350`).
4. WebSocket server composed with WebSocketManager: subscriptions and the heartbeat of the two sides
   (`websocket-server.ts:326`).
5. Tracker and consent: modules registered while `init()` is under way (`Tracker.ts:227`). Sessions
   over several tabs and their storage events (`SessionManager.ts:459`).
6. Restarts in ErrorRecovery and the stored copy of the circuit breaker; a property for cancelled
   executions in SyncEngine; a proof of `QueueBounded`.
