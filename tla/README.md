# WaveCom notification backend: TLA+ models, model checking and proofs

This directory holds TLA+ specifications of the WaveCom notification backend,
TLC configurations that check them on small instances, and proofs that the TLA+
proof system checks for every instance. All models are translated from the
TypeScript sources under `src/`; `README.md:NN` below always means the README of
the backend itself.

## 1. The system

### 1.1 Parts, their state and how they interact

| Part | Source | State it keeps | Operations |
| --- | --- | --- | --- |
| API replica, notifications | `controllers/notification.controller.ts`, `services/notification.service.ts` | none of its own; a mongoose copy of the record inside a request | create (store, publish, save status), get, list, delete |
| Worker | `workers/notificationWorker.ts` | up to `prefetch` (10) messages in memory, each with its own copy of the record | consume, find, mark processing, send with a timeout, record, retry with backoff, give up, acknowledge, shut down |
| Queue access | `services/queue.service.ts` | none; a retry count in a message header | `publishToQueue` (fire and forget), `consumeFromQueue` (manual ack, message-level retry, dead letters) |
| RabbitMQ connection | `config/rabbitmq.config.ts` | `connection`, `channel`, `isReconnecting`, `isShuttingDown` | `connect`, close handlers, `scheduleReconnect`, `getChannel`, `close` |
| Notification record | `models/notification.model.ts` | status, attempts, history | written by API and workers, field by field |
| Read cache | `services/cache.service.ts` | entries in Redis, with TTL 60 s and 20 s | get, set, invalidate; key building |
| Recipients | `services/recipient.service.ts`, `controllers/recipient.controller.ts` | records with a unique e-mail address | find or create and welcome, get, list, update, push token, delete |
| Statistics | `services/notification.stats.service.ts` | none | four aggregations for the statistics, three for the analytics, side by side |
| Queue metrics | `services/queue.metrics.service.ts` | none | asks the management API for both queues, side by side |
| Rate limiter | `middleware/rateLimiter.middleware.ts` | a counter in Redis kept by a library | count, reject, fail open |
| Providers | `services/providers/` | none | calls of Resend, Twilio, Firebase |
| Process life cycle | `server.ts`, `config/database.config.ts`, `config/redis.config.ts`, end of `notificationWorker.ts` | signal handlers, forced-exit timers, the HTTP server, the state of three clients | connect with attempts, listen, graceful shutdown per signal, forced exit |
| Configuration, wiring, validation | `config/`, `app.ts`, `routes/`, `validators/` | none after start-up | |

A client's POST reaches some API replica, which stores a record, publishes
`{notificationId, attempt: 1}` and saves the status. A worker consumes the
message, loads the record, marks it `processing`, calls a provider and either
records `sent` or waits, publishes the next attempt and records `queued`, or
records `failed`; then it acknowledges. API and workers never talk directly: they
share MongoDB, RabbitMQ and (API only) Redis. Registering a recipient runs the
same create-and-queue path for the welcome mail.

### 1.2 What is hard, and what makes each part correct

* **Two writers per record.** The API saves after publishing, and so does the
  worker that publishes a retry; whoever takes the message may be faster.
  Correct: a record never says `sent` undeserved, attempts never go back, no
  double send.
* **At-least-once delivery.** Crashes and lost connections bring messages back;
  a retry is published before the old message is acknowledged. Correct: nothing
  published is ever lost, everything published is settled in the end.
* **Swallowed errors.** Almost every failure in the worker is logged and the
  message acknowledged. Correct: at most `maxAttempts` sends, one at a time.
* **A timeout that does not cancel.** A send may succeed after it was counted as
  failed.
* **Sockets without confirms.** A publish that returned may still be lost.
* **One connection object, several concurrent `connect` calls.** Start-up and
  reconnects interleave at every `await` and share four fields. Correct: the
  channel handed out belongs to an open connection, the guard is never stuck,
  no reconnect after shutdown, a lost connection is replaced.
* **Cache fill against DELETE**, keys that leave out a filter, invalidation that
  fails. Correct: an answer shows what was asked for; a deleted record fades.
* **Two requests for one address**, an update in between. Correct: one recipient,
  one welcome, and no POST undoes an update.
* **A nack and a copy in two frames.** The message-level retry rejects a message
  and publishes its successor; a worker may die in between. Correct: no message
  vanishes, none is multiplied, none circulates for ever.
* **Answers made of several queries** over records that change between them.
  Correct: figures that belong together agree, rates are rates, and who walks a
  list sees every record once; where the code cannot promise that, the reason is
  one of a few named ones.
* **Signals at any moment**: during start-up, twice, while a request hangs.
  Correct: exit code 0 means that requests were answered and what `close` can see was
  closed, nobody is served by a service that was closed, every shutdown ends.

`PROJECT.json` lists these hazards with their lines and the properties for them.

## 2. Modules

| Module | What it is |
| --- | --- |
| `RetryPolicy` | abstract specification: one accepted notification is tried in order, at most `MaxAttempts` times, until delivered, and given up only when all tries were used |
| `Delivery` | the pipeline in detail; refines `RetryPolicy` when nothing fails |
| `DeliveryInvariant` | the inductive invariants of `Delivery` |
| `DeliverySafetyProofs` | theorems about `Delivery`: types, and what holds however messages come again |
| `DeliveryTokenProofs` | theorems about `Delivery` while nothing is redelivered, and the refinement of `RetryPolicy` |
| `ReadCache` | GET one, GET list and DELETE through the shared cache, with workers saving |
| `CacheProofs` | theorems about `ReadCache` |
| `RabbitConnection` | the connection object of one process |
| `ConnectionProofs` | theorems about `RabbitConnection` |
| `RecipientRegistry` | concurrent registration, update and deletion of recipients, and the welcome mail |
| `RegistryProofs` | theorems about `RecipientRegistry` |
| `DeadLetter` | message-level retry, dead-letter queue, queue metrics |
| `DeadLetterProofs` | theorems about `DeadLetter` |
| `Lifecycle` | an API process from start to exit, again and again |
| `LifecycleProofs` | theorems about `Lifecycle` |
| `Reports` | statistics, analytics and pages, as queries over changing records |
| `ReportsProofs` | theorems about `Reports` |
| `MC...` | values for the constants of a module: budgets, small maps, symmetry sets |

The modules hang together at these points: `RecipientRegistry` takes what
`createAndQueue` does to its caller (queued, queue error, exception) from the
outcomes of `Delivery`; `Delivery` has a worker's connection in three states
(consuming, detached, reattached), which is what `RabbitConnection` shows in
detail; `DeadLetter` is the branch of `consumeFromQueue` that `Delivery` leaves
out, and shares its picture of a worker, its socket and the queue; `Lifecycle`
has the connection object of `RabbitConnection` from outside: which connections
are open, which one its field names and which calls of `connect` are on their way,
without their awaits; `ReadCache` and `Reports` see the workers only as saves of a record.

Conventions: one action per stretch of code between two `await`s; an action that
models a failing call has a name of its own (`...Throws`, `...Fails`) next to the
successful one. An operator marked "Faulty variant" is never used by the
specification: substituted for the operator after it, it is a plausible bug, and
shows that the property it is paired with can fail. Histories (`sends`,
`delivered`, `gaveUp`, `raced`, `welcomes`, `patched`, `mishaps`, `moved`, `asOf`,
...) are only read by properties.

### 2.1 `Delivery`

| Model | Code |
| --- | --- |
| `request[id]` | how far `createAndQueue` and its controller have come, and the answer |
| `apiWire`, `wire[w]` | messages handed to `sendToQueue` and not yet read by the broker |
| `store[id]` | status and attempts of the MongoDB record |
| `ready` | the queue, as a bag: RabbitMQ reorders on redelivery |
| `worker[w]` | consuming; detached (connection lost); reattached (reconnected, but with no consumer: `consumeFromQueue` is called once, from `start`); down |
| `closing` | workers in `gracefulShutdown` |
| `pc[s]`, `job[s]`, `seen[s]` | one slot per unacknowledged message: its next step, message and the copy of the record in memory |

`Merge` is mongoose's `save`: it writes the fields that differ from what was
loaded. `SaveThrows` covers a record that is gone and a failing call. `AckThrows`
is the chain that `queue.service.ts:86-120` produces after a lost connection:
`ack` throws, `nack` in the catch throws as well, nobody handles the rejection,
the process ends and docker restarts it.

`ShutDown`, `CloseArrives` and `Exit` are `gracefulShutdown` of the worker: it asks
the broker to close the channel and waits for that answer only. The handlers go on
meanwhile; the broker takes back what they have not acknowledged, and the process
exits in the middle of whatever they do.

### 2.2 `ReadCache`

A record is a version number; a reader goes through look-up, count, load and
fill, one `await` each. `KeyOf` is `buildNotificationKey`/`buildListKey`, without
the recipient filter, as in the code. `Expire` may drop an entry at any time.
`raced` remembers the notifications a GET had loaded and not yet cached when
their DELETE cleared the entry, or whose entry could not be cleared.
`CrashInDelete` is a replica that dies with the record deleted and its entry still
there.

### 2.3 `RabbitConnection`

`pc[c]` is what call `c` of `connect` awaits; `on[c]` is the connection or channel
its pending call went out on, which need not be the one the fields name by the
time it is answered. The four declarations are four awaits, each on
`this.channel` as it is then. `CloseHandler` clears the fields whichever
connection closed, as the code does.

### 2.4 `RecipientRegistry`

Lookup, insert, the branch for error 11000 and the welcome mail are separate
steps; `Canonical` is `toLowerCase().trim()`, which the lookup applies itself and
the schema applies on insert. The unique index is what makes an insert fail.
`profile[k][f]` says who wrote field `f` last: a POST, which writes all of them
once, or an update, which writes those it was given. `created`, `email` and
`profile` are the collection; a deleted recipient keeps its number. The welcome
mail has the outcomes of `createAndQueue`: queued; not queued, or queued and only
the save after it failed (`WelcomeNotQueued`); an exception, with the mail queued or
not (`WelcomeThrows`). A client that deletes the welcome notification before it is
saved makes both saves reject (event `unsent`).

### 2.5 `DeadLetter`

Only a message that `JSON.parse` rejects, or that is JSON `null`, gets into the catch
of `consumeFromQueue` with its channel alive, and no publisher of this system writes
one: `Inject` is somebody else. `Reject` writes the nack (a slot that is `rejected`) and, while
retries are left, the copy with the next `x-retry-count` (`copies[w]`) into one
socket; `NackArrives` and `CopyArrives` are the broker reading them, a copy never
before its nack. Whatever closes the connection takes both along. `AskMetrics`,
`FetchQueue` and `FetchFails` are `getStats` of the metrics service.

### 2.6 `Lifecycle`

| Model | Code |
| --- | --- |
| `stage`, `step`, `attempt` | the service `startServer` is connecting, and where its loop of attempts stands |
| `service[s]`, `redis` | MongoDB, open or closed; whether the field `connection` of RabbitMQ names an open one; the status of the ioredis client, which reconnects by itself |
| `connections`, `reconnects`, `isReconnecting` | connections to RabbitMQ that are open, named or not; calls of `connect` by `scheduleReconnect` on their way; the field |
| `http`, `requests` | the HTTP server and the requests it is handling |
| `shutdown[g]` | the `gracefulShutdown` of signal `g` |

`gracefulShutdown` runs once per signal, each with a timer of its own. `Drained`
calls back every `server.close` at once: the first shutdown goes on, a second one
is told that the server was closing and exits with 1. A signal before the server
listens finds nothing to close and leaves start-up running beside it.

`CloseRabbit` closes what the field names and nothing else. Two things escape it: a
connection that an attempt of `connect` opened before its channel or a declaration
failed, which the next attempt puts another in place of (`RabbitHalfway`), and one
that a reconnect on its way opens later (`ReconnectOpens`). `mishaps` remembers what
happened to the process that its exit code does not tell: a signal before the server
listened (`early`), a broken connection (`lost`), a connection put in place of an
open one (`leaked`), a `close` with a reconnect on its way (`racing`).

### 2.7 `Reports`

`Ask` starts the queries of one answer, which `Query` evaluates one by one, in any
order, each on the records of that moment; `Create`, the saves and `Delete` come
in between. `Evaluate` says what each aggregation computes; `Rate` is the rounding
to one decimal as integer arithmetic. `NextPage` and `HasNext` are a client
that walks a list as long as the answer names a further page; it is not in the
repository. `moved` remembers what happened since a statistic was
asked for, or since a walk began.

## 3. Runs

`Safe` is a specification without fairness, `Spec` has it. The theorems of section 4
are about `Safe`, which `Spec` implies.

| Run | Instance | Question and result |
| --- | --- | --- |
| `DeliveryNominal` | 2 notifications, 1 worker with 2 slots, 2 attempts, no failures | implements `RetryPolicy`, its fairness included |
| `DeliveryOutages` | 1 notification, 2 workers, a lost connection, a graceful shutdown, fairness | nothing lost; everything published is settled, unless a connection was lost; a busy worker gets back to consuming |
| `DeliveryFailures` | 1 notification, 2 workers, 3 attempts; 2 failing database calls, and once each a worker crash, a hidden delivery, a deletion, an API crash, an API publish failure or loss | types; `sent` only when delivered; at most `MaxAttempts` sends, never two at a time; nobody is notified twice; a 502 without a failing save means no delivery; attempts never go back |
| `DeadLetters` | 2 messages that no try can handle, 1 worker with 2 slots, 2 retries; a crash, a drop, metrics asked for once, one unanswered fetch; fairness | nothing vanishes, one live copy, the tries come in turn and to the last one, the metrics show every message, nothing circulates for ever |
| `CacheRaces` | 1 notification with 2 versions, 2 readers, lists by two channels, every failure once, fairness | types; an answer shows what was asked for; after a DELETE only the known race or a failing Redis leaves an entry; a deleted notification leaves all entries for good |
| `ConnectionRaces` | 2 lost connections, a refused attempt, a channel failure, 2 attempts per call, fairness | types; channels are connected; the flag means work; no reconnect after `close`; after one lost connection there is a channel again |
| `RecipientRaces` | 3 requests, 2 spellings of 1 address, 2 records, every failure, a deletion and an update once, fairness | one recipient unless one is deleted, one welcome, no 500 without one of three causes, no update undone; a new recipient is welcomed unless something fails |
| `Lifecycle` | SIGTERM and SIGINT, 2 attempts per service, 2 requests; 2 failing attempts, and once each a broken RabbitMQ connection, a failure of Redis, a failing close, an unhandled error; fairness | types; what exit code 0 promises, and which connections it does not speak of; requests have their services, a broken RabbitMQ aside; a signal ends the process; without one the API listens in the end |
| `Reports` | 3 records of 2 channels and 2 recipients, 2 per page; 4 saves, a deletion, a failing query, one report | types; rates within range, figures that agree, a walk that shows every record once, each unless something named has happened |

Runs that refute a statement of the documentation:

| Run | Statement | What happens |
| --- | --- | --- |
| `RetryOverSent` | README.md:65, success leaves `sent` | the handler of the previous attempt saves `queued` over it |
| `DeafWorker` | README.md:467, automatic recovery | an idle worker reconnects and never consumes again |
| `ListsMatchRecipient` | README.md:235, filter by `recipientId` | the list key leaves the recipient out |

Other disagreements seen in the code while modelling it. They have no run; where
one would break a property, the property excludes its cause by name (`Without`,
`raced`, `mishaps`):

* README.md:280, `queued` means waiting for a worker: the API's save of `queued`
  may also come after a fast worker's `sent` (notification.service.ts:149).
* The comment at notification.service.ts:158, nothing will process what could not
  be queued: not so if the publish succeeded and the save after it failed.
  `UnqueuedIsNotSent` therefore excludes failing database calls.
* README.md:473, messages are acknowledged only after processing succeeds: two
  failing lookups and the message is acknowledged untouched
  (notificationWorker.ts:105). `NotLost` excludes failing database calls.
* README.md:453 and queue.service.ts:22, messages survive a restart of RabbitMQ:
  without publisher confirms one in the socket does not. `NotLost` excludes it.
* README.md:465, the guard prevents overlapping reconnects: a `connect` left over
  from start-up lowers the flag of a running reconnect (rabbitmq.config.ts:74).
* README.md:134, explicit invalidation on delete: a GET may fill the cache after
  the DELETE cleared it, and lists are never invalidated.
* README.md:497, connections are closed cleanly before the exit: `close` sees only the
  connection its field names (rabbitmq.config.ts:120-134). One that an attempt left
  open when its channel or a declaration failed (line 56) is never closed; a reconnect
  on its way does not look at `isShuttingDown` and may open one after `close` (line
  24). The exit code is 0 all the same. `CleanExit` excepts just these two (`leaked`,
  `racing`), for RabbitMQ alone.
* notification.service.ts:154, 172: a welcome notification that a client deletes before
  it is saved makes both saves reject, and the registration is answered 500
  (recipient.service.ts:83), with the recipient stored and the mail possibly queued.
  `SameRecipient` names that cause of an error.
* README.md:239 and the 201 text at recipient.controller.ts:37, creating a
  recipient sends a welcome mail: a queue error is only logged, and after a failure
  between insert and welcome the repeated POST finds the recipient and sends none.
* README.md:467 again: with two lost connections the close of a stale one clears
  the fields of the live one, and its reconnect may be suppressed by a flag that is
  about to be lowered (rabbitmq.config.ts:33). `ChannelComesBack` claims one lost
  connection only.
* README.md:305, a message goes to the dead-letter queue after up to three attempts:
  every retry nacks the original without requeueing it (queue.service.ts:105), so
  that the queue holds a dead letter per try while the message is still being tried,
  four of them in the end. `TriesInTurn` holds under either reading: it says that no
  try is dead-lettered twice or before its turn and that the last one is tried, and
  does not decide whether the tries before it belong there.
* README.md:305 counts an exception in handling a message among its causes: the
  handler of the worker catches everything, so that only a message which does not
  parse, or is JSON `null`, gets there.
* README.md:352-355, waits of 5, 10 and 20 s before retries and a fourth attempt: the
  code waits `2^attempt * 5`, 10 s after the first attempt and 20 s after the second
  (notificationWorker.ts:144), never 5 s, and after the third, with the default of
  `maxAttempts`, there is neither a wait nor a retry. Lengths of waits are not
  modelled; that there are at most `maxAttempts` attempts is `SendsBounded`.
* README.md:497, the worker drains its messages and has a forced exit: it has
  neither (notificationWorker.ts:217). `NotLost` and `EventuallySettled` hold all
  the same, because the broker hands out again what was cut off.
* README.md:485, a Redis that fails is no reason to fail: at start-up it is
  (server.ts:19). `connectRedis` may even give up although the client is connected,
  because `connect` of a connected client rejects (redis.config.ts:53);
  `EventuallyServes` names that case (`GaveUpConnected`), which ends in a restart.
* server.ts:49, a shutdown closes the server first: a signal that comes before the
  server listens does not stop start-up, which may listen with its services closed
  until the process exits. `CleanExit` and `RequestsHaveServices` exclude it
  (`early`).
* The delivery rate of the statistics may exceed 100 %, when records are created or
  deleted between the queries it divides (notification.stats.service.ts:67).

### 3.1 Bounds and why they are enough

* *Budgets.* `spent[e] < Budget[e]` bounds how often event `e` happens. A crash
  and a database failure let one hit the handling of the other; two failing
  database calls reach the outer catch and its second lookup; two drops are what it
  takes for a stale connection to close beside a live one. Properties that exclude
  an event say so with `Without`, and their run still has the other events. In
  `DeliveryOutages` the graceful shutdown stands for crashes too: its `Exit` may
  come after any step of a handler.
* *Attempts.* 2 or 3: with 2 there is a first, a retried and a last attempt;
  3 (the default) adds one in the middle.
* *Workers and slots.* Two handlers at a time, in one process or in two, are what
  it takes for a retry to overlap the handler that published it. The two workers
  are interchangeable and a symmetry set in `DeliveryFailures`, which checks no
  liveness; no other run uses symmetry.
* *Notifications.* Records do not interact except through slots and a dying
  worker, hence two where slots are shared and one elsewhere.
* *Connections.* Two lost connections start at most two reconnects, so two slots
  suffice; with two attempts per call every failure of an attempt has a next
  attempt to hit. The bound of 6 connections is never the reason a step is missing
  (a larger bound reaches the same states).
* *Versions.* A record of `ReadCache` is saved at most `MaxVersion` times.
* *Dead letters.* Two messages share the slots of one worker and the totals of the
  metrics; two retries make a first, a middle and a last try; one worker dies and
  comes back, which is what a second one would see of it.
* *Recipients.* Three requests are a winner of the race, a loser, and one that comes
  after a deletion, for which the second record is.
* *Life cycle.* Two signals meet in every stage of a shutdown; two attempts make one
  that is repeated and one that is the last. One broken RabbitMQ connection starts a
  reconnect, which is what a shutdown can meet; a failed attempt of start-up or of that
  reconnect leaks a connection.
* *Reports.* Three records make two pages. Four saves deliver two of them, which
  is what it takes for a deletion between two queries to make a rate above 100 %.
  Records are created one after the other: equal `createdAt` are left out.

The runs of `Delivery`, `DeadLetter`, `RabbitConnection`, `RecipientRegistry` and
`Reports` set `CHECK_DEADLOCK FALSE`: when every request was answered, every
message settled and every budget spent these systems are at rest, which is not an
error. A reader of `ReadCache` can always ask again, and a process of `Lifecycle`
can always go on or be restarted, so there deadlock is checked.

### 3.2 Fairness and why the code justifies it

* Handlers and requests (`HandlerStep`, `RequestStep`, `ReaderStep`,
  `RemovalStep`, `ConnectStep`, `StartStep`, `SlotStep`, `ShutDownStep`): a Node.js event loop resumes a function whose
  awaited call has ended. Calls end: sends have a timeout, delays are timers,
  database calls resolve or reject.
* `FlushApi`, `FlushWorker`: amqplib writes its buffer while the socket lives;
  a socket that breaks instead is an event with a budget.
* `Consume`: the broker hands what it has to a consumer with an unused slot.
  It is fair as a whole, not per message.
* `Restart`: `docker-compose.yml` restarts workers. `Reconnect`:
  `scheduleReconnect` makes up to ten attempts over minutes; that one of them
  succeeds is an assumption of the liveness properties of `Delivery`, which
  `RabbitConnection` looks at on its own, exhaustion included.
* `Expire`: every entry is written with `EX`.
* Reconnects of `Lifecycle` (`RabbitStep`) are not fair: they may hang over an exit.
* `RedisStep`: ioredis goes on connecting by its retry strategy.
* `ForceExit`: the timer of a shutdown runs out. Nothing else of a shutdown in
  `Lifecycle` is fair, nor are its requests: both may hang, and `ShutdownEnds` must
  hold all the same.
* Nothing is fair about clients, deletions, failures, crashes and drops.

## 4. Theorems

Every invariant that a run checks on a small instance is a theorem for every
instance, and so are the action properties `AttemptsGrow` and `ShutdownStaysDown`
and the safety half of the refinement of `RetryPolicy`. The assumptions are the
named ones of each module, which its runs evaluate; they ask for positive bounds,
finite sets and distinct names, and nothing about budgets: no theorem bounds how
often anything fails.

About `Delivery`, for every number of notifications, workers, slots, attempts and
failures (`ParametersAssumption`: at least one slot and one attempt, a finite set
of workers, a `NoMessage` that is no message). The invariants are in
`DeliveryInvariant`.

* `TypeCorrect`: `Safe => []TypeOK`. The type invariant is strengthened by
  `HandlersTyped`: a busy slot has a message, and one in the backoff has an attempt
  left, without which a retry could name an attempt beyond the last.
* `SentIsDelivered`: `Safe => []SentMeansDelivered`. The strengthening
  `DeliveredFirst` says that who is about to record `sent` has seen a delivery; the
  argument then follows `Merge`: a merged record says `sent` only if the copy or
  the record did.
* `RefusedIsNotSent`: `Safe => []UnqueuedIsNotSent`. `NothingBeforePublish` says that
  a notification that was never published is nowhere and untouched, and `Refused`
  that only such a one is about to be answered 502, a deleted record aside.
* `NothingIsLost`: `Safe => []NotLost`. `NotLost` alone is not inductive, because an
  acknowledgement takes a message away. `LossInv` adds that a handler on its way to
  the acknowledgement is `Covered`: its notification is settled, or a later attempt
  is with the broker or ahead of the ack in the same socket. It needs that a dead
  process handles nothing (`DownMeansIdle`) and the invariants above. A worker in
  `gracefulShutdown` is covered only for acks it has already written (`MayAck`):
  later ones throw.
* `SendsAreBounded` and `OneSenderOnly`: `Safe => []SendsBounded` and
  `Safe => []SingleSender`. While nothing is redelivered a notification is one token
  (`OneToken`): it is in the socket of the API, in the queue, in the socket of a
  worker, or with one handler that may still try it, and there only once. A handler
  passes its token on when it publishes the retry, which is why the save after that
  must not come back to it. `TriedInOrder` ties the token to the calls so far: who
  holds attempt `a` finds fewer than `a` of them.
* `AttemptsNeverGoBack`: `Safe => AttemptsGrow`. A step that saves a record has the
  token, or saves a status only; `TriedInOrder` bounds the attempts in the record
  by those of the token.
* `NobodyTwice`: `Safe => []AtMostOnce`. `NotTriedAgain` says that after a delivery
  the token is with a handler that records it, and nowhere else.
* `KeepsPolicySafely`: `Safe /\ []Without(Events) => Policy!Safe`, the refinement
  while nothing fails, without the fairness. `CountedExactly` makes the token's
  attempt the number of calls plus one, so that a handler that gives up has used
  every try (`UsedUp`); each `Next` step is then a step of `RetryPolicy` or leaves
  its variables alone.

About `DeadLetter`, from its `ParametersAssumption`, for every number of messages,
workers, slots and retries:

* `TypeCorrect`: `Safe => []TypeOK`, inductive as it stands.
* `RetryDoesNotMultiply` and `DeadLettersInTurn`: `Safe => []SingleLiveCopy` and
  `Safe => []TriesInTurn`. A message is a token again, but while a worker
  rejects it there are two: the original and the copy that follows it through the
  socket. `OneCopy` says just that, `InTurn` that the dead letters of a message are
  the tries before the token, `NothingBefore` that one not injected is nowhere, and
  `AllTried` that, without a crash or a drop, a message with neither copy nor
  original has used its last retry.
* `NothingVanishes`: `Safe => []NeverVanishes`, inductive beside the types (a busy
  slot holds a message): whatever takes a live copy away leaves another or a dead
  letter.
* `MetricsShowEverything`: `Safe => []EveryMessageIsShown`. `AnsweredInv` follows one
  answer: once the main queue was fetched, its total and the dead letters cover every
  message known when both were asked for. It rests on `NeverVanishes` and on counting
  a bag by the pairs of a message and a number up to its count (`Each`).

About `Reports`, from its `ParametersAssumption` (finitely many channels, at least one
record per page), for every number of records and recipients:

* `TypeCorrect`: `Safe => []TypeOK`. That `page` stays in bounds needs that there
  are no more pages than records, and this that `count` is one of records.
* `RatesInRange`: `Safe => []RatesWithinRange`. `PartsInv` holds whatever happens:
  part and whole of one aggregation count the same records.
* `FiguresDoAgree`: `Safe => []FiguresAgree`. `SnapshotInv` says that, as long as
  nothing is created or deleted, there is one set of records that every query
  answered so far was about, and the queries to come will be; that the statuses
  and the channels add up to it is arithmetic of finite sets (`StatusSum`,
  `ChannelsSum`). An average needs `SentIsTimed`: a record that says `sent` has a
  latency.
* `WalkShowsAll`: `Safe => []WalkShowsEachOnce`. `WalkInv` divides the list at the
  last position the pages have `Covered`. Creations only move records to later
  positions: while there is none, what was shown stays before that point. Deletions
  only move them to earlier ones: while there is none, what is still to be shown
  stays behind it, and the count of the last page knows of it. The theorem says no
  more than that: nothing is missed as long as no record at all is deleted and none is
  created between the count and the find of a page; nothing is shown twice as long as
  none is created.

About `RabbitConnection`, from `ConnectionAssumption` (positive bounds, distinct
names):

* `ConnectionTyped`: `Safe => []TypeOK`; who waits for another attempt has one.
* `ChannelStaysConnected`: `Safe => []ChannelIsConnected`, which is inductive as
  it stands because any close clears both fields.
* `FlagIsNeverStuck`: `Safe => []FlagMeansAtWork`. A step of one call leaves the
  others running, and whatever ends a reconnect lowers the flag.
* `ShutdownIsFinal`: `Safe => ShutdownStaysDown`, from the invariant that
  `isShuttingDown` is raised before anything is closed.

About `Lifecycle`, from its `ParametersAssumption` (positive bounds), for every set
of signals:

* `LifecycleTyped`: `Safe => []TypeOK`, strengthened by: who waits for another
  attempt has one.
* `ExitIsClean` and `RequestsAreServed`: `Safe => []CleanExit` and
  `Safe => []RequestsHaveServices`. Neither is inductive. The invariant says how far
  a process has come: start-up connects in order and the server is last
  (`ServerIsLast`, `ConnectedInOrder`), a shutdown closes in order and the server is
  first (`ClosedInOrder`), and a server that takes no requests has none
  (`NoIdleRequests`). Whatever a second signal does, these hold. For RabbitMQ
  `ConnectionsNamed` says that, unless one was put in place of another, at most one
  connection is open and the field names it; hence `NothingLeft` after `close`: no
  connection is open and none will be opened, unless one was `leaked` or a reconnect
  was on its way (`racing`). Both theorems keep the exceptions of their properties.

About `RecipientRegistry`, from `RegistryAssumption` (the schema's form of an address
is a spelling of it and its own form; names are distinct), for every number of
requests, spellings and records:

* `RegistryTyped`: `Safe => []TypeOK`, with records created in order
  (`RecordsInOrder`) and requests that name created ones (`RequestsInOrder`).
* `WelcomeIsUnique`: `Safe => []WelcomedOnce`. `WelcomePending` adds that whoever is
  about to queue a welcome is the only one, for a record that has had none: only an
  insert leads there, and its record is new.
* `OneRecipientPerAddress`: `Safe => []SameRecipient`. `Unique` is the index;
  `FoundByAddress` says that, deletions aside, a request holds the record of its
  address, that the loser of a race will find the winner, and that an error has a
  cause; `FoundOrGone` that with deletions too the record a request holds has its
  address or is gone, so that of two records answered for one address one is gone.
* `UpdatesSurvive`: `Safe => []ProfileKeepsUpdates`, inductive once a record that is
  yet to be created is known to have no updates.

About `ReadCache`, from `CacheAssumption` (finitely many notifications), for every
number of readers, filters and versions:

* `CacheTyped` and `AnswersAreRight`: `Safe => []TypeOK` and
  `Safe => []AnswersMatchQuery`. `CacheInv` and `ReaderInv` say that an entry fits
  its key and that what a request has loaded fits its query, at every step between.
* `DeletedIsInvalidated`: `Safe => []InvalidationHolds`. `RemovalInv` adds that no GET
  is about to fill; a record whose DELETE has begun is gone for good (`StoreInv`),
  so that no GET can load it any more.

The strengthenings are invariants of every reachable state, which the theorems'
proofs show on their way; the runs check the properties they lead to.

Only model-checked, because it is out of the prover's reach:

* liveness under fairness: `EventuallySettled`, `BusyWorkerReturns`,
  `EventuallyFinished`, `ChannelComesBack`, `NewcomersWelcomed`, `DeletedFades`,
  `ShutdownEnds` and `EventuallyServes`;
* the fairness of `RetryPolicy`, which `KeepsRetryPolicy` includes: that a
  notification is resolved at all.

## 5. Abstractions and what is not modelled

* Time: delays and TTLs are steps that happen at some point; the lengths of
  backoffs are not modelled.
* A failing database write in `Delivery` has no effect. Writes that took effect
  and reported an error are modelled for the insert of a recipient only.
* Messages, recipients, provider names, history entries and error texts are left
  out; a record is its status and attempts, or a version.
* Statuses and pages as parts of the key of a cached list: they multiply keys the
  way the channel does.
* Rate limiting is a library with its store; providers are calls of services, of
  which `Delivery` has the outcomes; validation, configuration and wiring have no
  state. Seen there, and not modelled: PATCH stores a phone number in normal form
  and POST as it was sent (recipient.controller.ts:156), and the length of a push
  token is not checked on update (recipient.service.ts:118).
* An API replica that dies in the middle of a GET leaves nothing behind.
* Closing a service of `Lifecycle` succeeds, hangs or fails; a failing one exits
  with 1 whichever it is (`CloseFails`).

## 6. Plan

Done: all modules of section 2, and the theorems of section 4. What is left:

1. The parts of the liveness properties that are safety: that a step which helps
   stays possible until it is taken (an unsettled notification keeps its token, a
   message that circulates has fewer retries left each time), as action properties
   of the same invariants.
2. The branch of `Delivery` in which messages are redelivered: how often a
   notification may be sent as a function of the crashes and drops so far.
