------------------------------ MODULE Delivery ------------------------------
(***************************************************************************)
(* The delivery pipeline of a notification: the API replica that stores it *)
(* and publishes its first message, the RabbitMQ queue, the workers that   *)
(* consume, send, retry and acknowledge, and the MongoDB record they share.*)
(*                                                                         *)
(* One step of a handler runs from one await to the next, so everything    *)
(* another process can do in between is a step of its own.  A save is a    *)
(* mongoose save: it writes the fields that differ from the copy in memory *)
(* (Merge) and throws when the record is gone.  Publishing is fire and     *)
(* forget: a message sits in the socket of its process until it reaches    *)
(* the broker.                                                             *)
(***************************************************************************)
EXTENDS Integers, FiniteSets

CONSTANTS Ids,          \* notifications clients may ask for
          Workers,      \* worker processes
          Prefetch,     \* unacknowledged messages per worker (prefetch)
          MaxAttempts,  \* maxAttempts of every record
          NoMessage,    \* what a handler slot holds when it handles nothing
          Budget        \* how often each environment event may happen

Events == {"crash",      \* a worker process dies
           "drop",       \* a worker loses its connection to the broker
           "shutdown",   \* a worker is told to stop
           "db",         \* one database call fails
           "ambiguous",  \* a send times out although the provider takes it
           "delete",     \* a client deletes the record
           "apiCrash",   \* the API process dies inside a request
           "apiDrop"}    \* the API has no channel, or loses what it wrote

Attempts == 1..MaxAttempts
Slots    == Workers \X (1..Prefetch)
Messages == [id : Ids, attempt : Attempts]

ASSUME ParametersAssumption == /\ Prefetch \in Nat \ {0}
                               /\ MaxAttempts \in Nat \ {0}
                               /\ IsFiniteSet(Workers)
                               /\ NoMessage \notin Messages
                               /\ Budget \in [Events -> Nat]

Statuses  == {"absent", "pending", "queued", "processing", "sent", "failed"}
Documents == [status : Statuses, attempts : 0..MaxAttempts]
NoRecord  == [status |-> "absent", attempts |-> 0]

RequestStates == {"none", "publish", "saveQueued", "saveFailed",
                  "201", "502", "500", "crashed"}
WorkerStates  == {"consuming", "detached", "reattached", "down"}
HandlerStates == {"idle", "find", "start", "send", "saveSent", "backoff",
                  "saveQueued", "saveFailed", "recover", "ack", "acked"}

VARIABLES request,    \* request[id]: where the POST handler of id stands
          apiWire,    \* ids whose first message is in an API socket
          store,      \* store[id]: the record in MongoDB
          ready,      \* ready[m]: copies of m waiting in the queue
          wire,       \* wire[w][m]: copies of m in the socket of worker w
          worker,     \* worker[w]: its connection, or "down"
          closing,    \* workers that have begun gracefulShutdown
          pc,         \* pc[s]: the step handler slot s is about to take
          job,        \* job[s]: the message slot s handles
          seen,       \* seen[s]: the record as slot s last loaded or saved it
          published,  \* history: ids whose first message was published
          sends,      \* history: calls of the provider for id
          delivered,  \* history: how often the provider took id
          gaveUp,     \* history: ids a worker recorded as failed
          spent       \* spent[e]: how often event e happened

apiVars     == <<request, apiWire, published>>
queueVars   == <<ready, wire>>
handlerVars == <<pc, job, seen>>
historyVars == <<sends, delivered, gaveUp>>
vars == <<apiVars, store, queueVars, worker, closing, handlerVars, historyVars,
          spent>>

-----------------------------------------------------------------------------
(* Helpers. *)

WorkerOf(s) == s[1]
SlotsOf(w)  == {s \in Slots : WorkerOf(s) = w}
Message(id, a) == [id |-> id, attempt |-> a]
NoneOf      == [m \in Messages |-> 0]
Add(bag, m) == [bag EXCEPT ![m] = @ + 1]
Take(bag, m) == [bag EXCEPT ![m] = @ - 1]

Spend(e) == /\ spent[e] < Budget[e]
            /\ spent' = [spent EXCEPT ![e] = @ + 1]

Missing(id) == store[id].status = "absent"

\* save() writes only the fields that differ from what was loaded, over
\* whatever the record holds by now.
Merge(current, loaded, new) ==
  [status   |-> IF new.status # loaded.status
                THEN new.status ELSE current.status,
   attempts |-> IF new.attempts # loaded.attempts
                THEN new.attempts ELSE current.attempts]

\* save() throws when the record is gone or the database call fails.
SaveThrows(id) == \/ Missing(id) /\ UNCHANGED spent
                  \/ ~Missing(id) /\ Spend("db")

\* The messages worker w has not acknowledged, as the broker counts them.
Unacked(w, m) == Cardinality({s \in SlotsOf(w) : pc[s] # "idle" /\ job[s] = m})

\* The queue once the broker takes back what worker w has not acknowledged.
Requeued(w) == [m \in Messages |-> ready[m] + Unacked(w, m)]

-----------------------------------------------------------------------------
(* The POST handler: createAndQueue. *)

Create(id) == /\ request[id] = "none"
              /\ request' = [request EXCEPT ![id] = "publish"]
              /\ store' = [store EXCEPT ![id] = [status |-> "pending",
                                                 attempts |-> 0]]
              /\ UNCHANGED <<apiWire, published, queueVars, worker, closing,
                             handlerVars, historyVars, spent>>

CreateFails(id) == /\ request[id] = "none"
                   /\ Spend("db")
                   /\ request' = [request EXCEPT ![id] = "500"]
                   /\ UNCHANGED <<apiWire, published, store, queueVars, worker,
                                  closing, handlerVars, historyVars>>

Publish(id) == /\ request[id] = "publish"
               /\ request' = [request EXCEPT ![id] = "saveQueued"]
               /\ apiWire' = apiWire \union {id}
               /\ published' = published \union {id}
               /\ UNCHANGED <<store, queueVars, worker, closing, handlerVars,
                              historyVars, spent>>

\* Faulty variant: a full write buffer counts as a failure, though amqplib
\* writes the message later.
PublishRefusesFull(id) == /\ request[id] = "publish"
                          /\ Spend("apiDrop")
                          /\ request' = [request EXCEPT ![id] = "saveFailed"]
                          /\ apiWire' = apiWire \union {id}
                          /\ published' = published \union {id}
                          /\ UNCHANGED <<store, queueVars, worker, closing,
                                         handlerVars, historyVars>>

PublishThrows(id) == /\ request[id] = "publish"
                     /\ Spend("apiDrop")
                     /\ request' = [request EXCEPT ![id] = "saveFailed"]
                     /\ UNCHANGED <<apiWire, published, store, queueVars,
                                    worker, closing, handlerVars, historyVars>>

\* The save after a publish, or after a failure of either: both write a
\* status the copy in memory did not have, and nothing else.
SaveStatus(id, at, status, answer) ==
  /\ request[id] = at
  /\ ~Missing(id)
  /\ store' = [store EXCEPT ![id].status = status]
  /\ request' = [request EXCEPT ![id] = answer]
  /\ UNCHANGED <<apiWire, published, queueVars, worker, closing, handlerVars,
                 historyVars, spent>>

SaveStatusThrows(id, at, answer) ==
  /\ request[id] = at
  /\ SaveThrows(id)
  /\ request' = [request EXCEPT ![id] = answer]
  /\ UNCHANGED <<apiWire, published, store, queueVars, worker, closing,
                 handlerVars, historyVars>>

SaveQueued(id)       == SaveStatus(id, "saveQueued", "queued", "201")
SaveQueuedThrows(id) == SaveStatusThrows(id, "saveQueued", "saveFailed")
SaveFailed(id)       == SaveStatus(id, "saveFailed", "failed", "502")
SaveFailedThrows(id) == SaveStatusThrows(id, "saveFailed", "500")

\* The first message reaches the broker.
FlushApi(id) == /\ id \in apiWire
                /\ apiWire' = apiWire \ {id}
                /\ ready' = Add(ready, Message(id, 1))
                /\ UNCHANGED <<request, published, store, wire, worker,
                               closing, handlerVars, historyVars, spent>>

\* The connection of the replica breaks with the message still in its socket.
LoseApiWire(id) == /\ id \in apiWire
                   /\ Spend("apiDrop")
                   /\ apiWire' = apiWire \ {id}
                   /\ UNCHANGED <<request, published, store, queueVars, worker,
                                  closing, handlerVars, historyVars>>

\* The replica dies inside the request, with or without what it wrote.
CrashApi(id) == /\ request[id] \in {"publish", "saveQueued", "saveFailed"}
                /\ Spend("apiCrash")
                /\ request' = [request EXCEPT ![id] = "crashed"]
                /\ apiWire' \in {apiWire, apiWire \ {id}}
                /\ UNCHANGED <<published, store, queueVars, worker, closing,
                               handlerVars, historyVars>>

\* DELETE /api/notifications/:id, at any moment of the record's life.
Delete(id) == /\ ~Missing(id)
              /\ Spend("delete")
              /\ store' = [store EXCEPT ![id] = NoRecord]
              /\ UNCHANGED <<apiVars, queueVars, worker, closing, handlerVars,
                             historyVars>>

-----------------------------------------------------------------------------
(* The handler of one message in a worker: processNotification. *)

Goto(s, step, record) == /\ pc' = [pc EXCEPT ![s] = step]
                         /\ seen' = [seen EXCEPT ![s] = record]
                         /\ UNCHANGED job

\* Faulty variant: gives up one attempt early.
AfterFailureEarly(attempt) ==
  IF attempt < MaxAttempts - 1 THEN "backoff" ELSE "saveFailed"

\* handleFailure: one more attempt, or none.
AfterFailure(attempt) == IF attempt < MaxAttempts THEN "backoff" ELSE "saveFailed"

\* The broker hands a message to a worker with an unused prefetch slot.
Receive(s, m) == /\ worker[WorkerOf(s)] = "consuming"
                 /\ WorkerOf(s) \notin closing
                 /\ pc[s] = "idle"
                 /\ ready[m] > 0
                 /\ ready' = Take(ready, m)
                 /\ pc' = [pc EXCEPT ![s] = "find"]
                 /\ job' = [job EXCEPT ![s] = m]
                 /\ UNCHANGED <<apiVars, store, wire, worker, closing, seen,
                                historyVars, spent>>

\* Faulty variant: also skips what some worker seems to be processing.
IsDoneEager(record) == record.status \in {"absent", "sent", "processing"}

\* Nothing is left to do for a record that is gone or was sent.
IsDone(record) == record.status \in {"absent", "sent"}

Find(s) == /\ pc[s] = "find"
           /\ LET record == store[job[s].id]
              IN  IF IsDone(record) THEN Goto(s, "ack", NoRecord)
                                    ELSE Goto(s, "start", record)
           /\ UNCHANGED <<apiVars, store, queueVars, worker, closing,
                          historyVars, spent>>

FindThrows(s) == /\ pc[s] = "find"
                 /\ Spend("db")
                 /\ Goto(s, "recover", NoRecord)
                 /\ UNCHANGED <<apiVars, store, queueVars, worker, closing,
                                historyVars>>

\* A successful save of the copy in memory, after which the handler goes on.
Save(s, new, next) ==
  LET id == job[s].id
  IN  /\ ~Missing(id)
      /\ store' = [store EXCEPT ![id] = Merge(store[id], seen[s], new)]
      /\ Goto(s, next, IF next = "ack" THEN NoRecord ELSE new)
      /\ UNCHANGED <<apiVars, queueVars, worker, closing, sends, delivered,
                     spent>>

\* A save that throws: "recover" where the outer catch takes over, "ack" where
\* safeHandleFailure swallows the error.
SaveFails(s, next) ==
  /\ SaveThrows(job[s].id)
  /\ Goto(s, next, NoRecord)
  /\ UNCHANGED <<apiVars, store, queueVars, worker, closing, historyVars>>

\* Faulty variant: counts the attempt that comes next.
StartCountsNext(s) == /\ pc[s] = "start"
                      /\ Save(s, [status   |-> "processing",
                                  attempts |-> job[s].attempt + 1], "send")
                      /\ UNCHANGED gaveUp

Start(s) == /\ pc[s] = "start"
            /\ Save(s, [status |-> "processing", attempts |-> job[s].attempt],
                    "send")
            /\ UNCHANGED gaveUp

StartThrows(s) == pc[s] = "start" /\ SaveFails(s, "recover")

\* The call of the provider: it takes the notification, refuses it, or takes
\* it while the worker sees a timeout.
Send(s, taken, next) == /\ pc[s] = "send"
                        /\ sends' = [sends EXCEPT ![job[s].id] = @ + 1]
                        /\ delivered' = [delivered EXCEPT
                                           ![job[s].id] = @ + taken]
                        /\ Goto(s, next, seen[s])
                        /\ UNCHANGED <<apiVars, store, queueVars, worker,
                                       closing, gaveUp>>

\* Faulty variants: the provider's answer is not looked at, one way or the other.
SendAcceptedUnseen(s) ==
  Send(s, 1, AfterFailure(job[s].attempt)) /\ UNCHANGED spent
SendRefusedUnseen(s) == Send(s, 0, "saveSent") /\ UNCHANGED spent

SendAccepted(s) == Send(s, 1, "saveSent") /\ UNCHANGED spent
SendRefused(s)  == Send(s, 0, AfterFailure(job[s].attempt)) /\ UNCHANGED spent
SendTimesOut(s) == /\ Send(s, 1, AfterFailure(job[s].attempt))
                   /\ Spend("ambiguous")

SaveSent(s) == /\ pc[s] = "saveSent"
               /\ Save(s, [seen[s] EXCEPT !.status = "sent"], "ack")
               /\ UNCHANGED gaveUp

SaveSentThrows(s) == pc[s] = "saveSent" /\ SaveFails(s, "recover")

\* The outer catch loads the record again and treats it as a failed attempt.
Recover(s) == /\ pc[s] = "recover"
              /\ LET record == store[job[s].id]
                 IN  IF record.status = "absent"
                     THEN Goto(s, "ack", NoRecord)
                     ELSE Goto(s, AfterFailure(job[s].attempt), record)
              /\ UNCHANGED <<apiVars, store, queueVars, worker, closing,
                             historyVars, spent>>

RecoverThrows(s) == /\ pc[s] = "recover"
                    /\ Spend("db")
                    /\ Goto(s, "ack", NoRecord)
                    /\ UNCHANGED <<apiVars, store, queueVars, worker, closing,
                                   historyVars>>

\* After the backoff the next attempt is published, on whatever channel the
\* process has by then.
Retry(s) ==
  LET w == WorkerOf(s)
  IN  /\ pc[s] = "backoff"
      /\ worker[w] \in {"consuming", "reattached"}
      /\ w \notin closing
      /\ wire' = [wire EXCEPT
                    ![w] = Add(@, Message(job[s].id, job[s].attempt + 1))]
      /\ Goto(s, "saveQueued", seen[s])
      /\ UNCHANGED <<apiVars, store, ready, worker, closing, historyVars,
                     spent>>

\* Without a channel publishToQueue throws and safeHandleFailure swallows it.
RetryThrows(s) == /\ pc[s] = "backoff"
                  /\ \/ worker[WorkerOf(s)] = "detached"
                     \/ WorkerOf(s) \in closing
                  /\ Goto(s, "ack", NoRecord)
                  /\ UNCHANGED <<apiVars, store, queueVars, worker, closing,
                                 historyVars, spent>>

SaveRetry(s) == /\ pc[s] = "saveQueued"
                /\ Save(s, [seen[s] EXCEPT !.status = "queued"], "ack")
                /\ UNCHANGED gaveUp

\* Faulty variant: no safeHandleFailure, so the outer catch retries again.
SaveRetryThrowsOut(s) == pc[s] = "saveQueued" /\ SaveFails(s, "recover")

SaveRetryThrows(s) == pc[s] = "saveQueued" /\ SaveFails(s, "ack")

SaveGiveUp(s) == /\ pc[s] = "saveFailed"
                 /\ Save(s, [seen[s] EXCEPT !.status = "failed"], "ack")
                 /\ gaveUp' = gaveUp \union {job[s].id}

SaveGiveUpThrows(s) == pc[s] = "saveFailed" /\ SaveFails(s, "ack")

\* channel.ack on the channel the message came from.
Ack(s) == /\ pc[s] = "ack"
          /\ worker[WorkerOf(s)] = "consuming"
          /\ WorkerOf(s) \notin closing
          /\ Goto(s, "acked", NoRecord)
          /\ UNCHANGED <<apiVars, store, queueVars, worker, closing,
                         historyVars, spent>>

\* Faulty variant: a nack that requeues instead of the ack.
NackArrives(s) == /\ pc[s] = "acked"
                  /\ wire[WorkerOf(s)] = NoneOf
                  /\ pc' = [pc EXCEPT ![s] = "idle"]
                  /\ job' = [job EXCEPT ![s] = NoMessage]
                  /\ ready' = Add(ready, job[s])
                  /\ UNCHANGED <<apiVars, store, wire, worker, closing, seen,
                                 historyVars, spent>>

\* The broker reads the ack, after everything the worker wrote before it.
AckArrives(s) == /\ pc[s] = "acked"
                 /\ wire[WorkerOf(s)] = NoneOf
                 /\ pc' = [pc EXCEPT ![s] = "idle"]
                 /\ job' = [job EXCEPT ![s] = NoMessage]
                 /\ UNCHANGED <<apiVars, store, queueVars, worker, closing,
                                seen, historyVars, spent>>

-----------------------------------------------------------------------------
(* Workers, their sockets and their connections. *)

\* The process is gone and everything in its memory with it; the broker takes
\* back what it had not acknowledged, unless it did so when the channel broke.
Dies(w) ==
  /\ worker' = [worker EXCEPT ![w] = "down"]
  /\ closing' = closing \ {w}
  /\ ready' = IF worker[w] = "consuming" THEN Requeued(w) ELSE ready
  /\ wire' = [wire EXCEPT ![w] = NoneOf]
  /\ pc' = [s \in Slots |-> IF WorkerOf(s) = w THEN "idle" ELSE pc[s]]
  /\ job' = [s \in Slots |-> IF WorkerOf(s) = w THEN NoMessage ELSE job[s]]
  /\ seen' = [s \in Slots |-> IF WorkerOf(s) = w THEN NoRecord ELSE seen[s]]
  /\ UNCHANGED <<apiVars, store, historyVars>>

\* Faulty variant: the rejection is logged and the process lives on.
AckThrowsLogged(s) == /\ pc[s] = "ack"
                      /\ worker[WorkerOf(s)] \in {"detached", "reattached"}
                      /\ pc' = [pc EXCEPT ![s] = "idle"]
                      /\ job' = [job EXCEPT ![s] = NoMessage]
                      /\ UNCHANGED <<apiVars, store, queueVars, worker,
                                     closing, seen, historyVars, spent>>

\* ack on a closed channel throws, nack in the catch throws again, and the
\* rejection nobody handles ends the process.
AckThrows(s) == /\ pc[s] = "ack"
                /\ \/ worker[WorkerOf(s)] \in {"detached", "reattached"}
                   \/ WorkerOf(s) \in closing
                /\ Dies(WorkerOf(s))
                /\ UNCHANGED spent

CrashWorker(w) == worker[w] # "down" /\ Spend("crash") /\ Dies(w)

\* docker restarts the process, which connects and consumes.
Restart(w) == /\ worker[w] = "down"
              /\ worker' = [worker EXCEPT ![w] = "consuming"]
              /\ UNCHANGED <<apiVars, store, queueVars, closing, handlerVars,
                             historyVars, spent>>

\* What the worker wrote reaches the broker.
Flush(w, m) == /\ wire[w][m] > 0
               /\ wire' = [wire EXCEPT ![w] = Take(@, m)]
               /\ ready' = Add(ready, m)
               /\ UNCHANGED <<apiVars, store, worker, closing, handlerVars,
                              historyVars, spent>>

\* The connection breaks: the broker takes the unacknowledged messages back,
\* the handlers in memory go on, and so does the process.
DropConnection(w) ==
  LET gone(s) == WorkerOf(s) = w /\ pc[s] = "acked"
  IN  /\ worker[w] \in {"consuming", "reattached"}
      /\ Spend("drop")
      /\ worker' = [worker EXCEPT ![w] = "detached"]
      /\ ready' = IF worker[w] = "consuming" THEN Requeued(w) ELSE ready
      /\ wire' = [wire EXCEPT ![w] = NoneOf]
      /\ pc' = [s \in Slots |-> IF gone(s) THEN "idle" ELSE pc[s]]
      /\ job' = [s \in Slots |-> IF gone(s) THEN NoMessage ELSE job[s]]
      /\ UNCHANGED <<apiVars, store, closing, seen, historyVars>>

\* scheduleReconnect opens a connection and a channel; nothing consumes on it.
Reconnect(w) == /\ worker[w] = "detached"
                /\ w \notin closing
                /\ worker' = [worker EXCEPT ![w] = "reattached"]
                /\ UNCHANGED <<apiVars, store, queueVars, closing, handlerVars,
                               historyVars, spent>>

\* SIGTERM: gracefulShutdown asks to close the channel and waits for the
\* broker, not for the handlers, which go on.
ShutDown(w) == /\ worker[w] # "down"
               /\ w \notin closing
               /\ Spend("shutdown")
               /\ closing' = closing \union {w}
               /\ UNCHANGED <<apiVars, store, queueVars, worker, handlerVars,
                              historyVars>>

\* Faulty variant: what was delivered counts as acknowledged.
CloseForgets(w) == /\ w \in closing
                   /\ worker[w] \in {"consuming", "reattached"}
                   /\ wire[w] = NoneOf
                   /\ \A s \in SlotsOf(w) : pc[s] # "acked"
                   /\ worker' = [worker EXCEPT ![w] = "detached"]
                   /\ UNCHANGED <<apiVars, store, queueVars, closing,
                                  handlerVars, historyVars, spent>>

\* The broker closes the channel, after everything written before, and takes
\* the unacknowledged messages back.
CloseArrives(w) ==
  /\ w \in closing
  /\ worker[w] \in {"consuming", "reattached"}
  /\ wire[w] = NoneOf
  /\ \A s \in SlotsOf(w) : pc[s] # "acked"
  /\ worker' = [worker EXCEPT ![w] = "detached"]
  /\ ready' = IF worker[w] = "consuming" THEN Requeued(w) ELSE ready
  /\ UNCHANGED <<apiVars, store, wire, closing, handlerVars, historyVars,
                 spent>>

\* process.exit, whatever the handlers are doing.
Exit(w) == /\ w \in closing
           /\ worker[w] = "detached"
           /\ Dies(w)
           /\ UNCHANGED spent

-----------------------------------------------------------------------------
(* The system. *)

Init == /\ request = [id \in Ids |-> "none"]
        /\ apiWire = {}
        /\ store = [id \in Ids |-> NoRecord]
        /\ ready = NoneOf
        /\ wire = [w \in Workers |-> NoneOf]
        /\ worker = [w \in Workers |-> "consuming"]
        /\ closing = {}
        /\ pc = [s \in Slots |-> "idle"]
        /\ job = [s \in Slots |-> NoMessage]
        /\ seen = [s \in Slots |-> NoRecord]
        /\ published = {}
        /\ sends = [id \in Ids |-> 0]
        /\ delivered = [id \in Ids |-> 0]
        /\ gaveUp = {}
        /\ spent = [e \in Events |-> 0]

RequestStep(id) == \/ Publish(id) \/ PublishThrows(id)
                   \/ SaveQueued(id) \/ SaveQueuedThrows(id)
                   \/ SaveFailed(id) \/ SaveFailedThrows(id)

ClientStep(id) == Create(id) \/ CreateFails(id) \/ Delete(id)

HandlerStep(s) == \/ Find(s) \/ FindThrows(s)
                  \/ Start(s) \/ StartThrows(s)
                  \/ SendAccepted(s) \/ SendRefused(s) \/ SendTimesOut(s)
                  \/ SaveSent(s) \/ SaveSentThrows(s)
                  \/ Recover(s) \/ RecoverThrows(s)
                  \/ Retry(s) \/ RetryThrows(s)
                  \/ SaveRetry(s) \/ SaveRetryThrows(s)
                  \/ SaveGiveUp(s) \/ SaveGiveUpThrows(s)
                  \/ Ack(s) \/ AckThrows(s) \/ AckArrives(s)

Consume == \E s \in Slots, m \in Messages : Receive(s, m)

ShutDownStep(w) == CloseArrives(w) \/ Exit(w)

FlushWorker(w) == \E m \in Messages : Flush(w, m)

Next == \/ \E id \in Ids : \/ ClientStep(id) \/ RequestStep(id)
                           \/ FlushApi(id) \/ LoseApiWire(id) \/ CrashApi(id)
        \/ \E s \in Slots : HandlerStep(s)
        \/ Consume
        \/ \E w \in Workers : \/ CrashWorker(w) \/ Restart(w) \/ FlushWorker(w)
                              \/ DropConnection(w) \/ Reconnect(w)
                              \/ ShutDown(w) \/ ShutDownStep(w)

Safe == Init /\ [][Next]_vars

\* Event loops go on, sockets are written, the broker hands out what it has,
\* docker restarts what died and a lost connection comes back.
Fairness == /\ \A id \in Ids : WF_vars(RequestStep(id)) /\ WF_vars(FlushApi(id))
            /\ \A s \in Slots : WF_vars(HandlerStep(s))
            /\ WF_vars(Consume)
            /\ \A w \in Workers : /\ WF_vars(FlushWorker(w))
                                  /\ WF_vars(Restart(w))
                                  /\ WF_vars(Reconnect(w))
                                  /\ WF_vars(ShutDownStep(w))

Spec == Safe /\ Fairness

-----------------------------------------------------------------------------
(* Properties. *)

\* Every variable has its type: counts are never negative, a record never
\* names an attempt beyond the last (handleFailure, processNotification).
TypeOK == /\ request \in [Ids -> RequestStates]
          /\ apiWire \subseteq Ids
          /\ store \in [Ids -> Documents]
          /\ ready \in [Messages -> Nat]
          /\ wire \in [Workers -> [Messages -> Nat]]
          /\ worker \in [Workers -> WorkerStates]
          /\ closing \subseteq Workers
          /\ pc \in [Slots -> HandlerStates]
          /\ job \in [Slots -> Messages \union {NoMessage}]
          /\ seen \in [Slots -> Documents]
          /\ published \subseteq Ids
          /\ sends \in [Ids -> Nat]
          /\ delivered \in [Ids -> Nat]
          /\ gaveUp \subseteq Ids
          /\ spent \in [Events -> Nat]

\* None of these events has happened so far.
Without(events) == \A e \in events : spent[e] = 0

\* The events after which the broker hands out a message again.
Redelivering == {"crash", "drop", "shutdown"}

\* The pipeline is through with a notification.
Settled(id) == delivered[id] > 0 \/ id \in gaveUp \/ Missing(id)

\* The broker will see to it that somebody handles m (again).
BrokerHolds(m) == \/ ready[m] > 0
                  \/ \E s \in Slots : /\ worker[WorkerOf(s)] = "consuming"
                                      /\ pc[s] # "idle"
                                      /\ job[s] = m

InHand(id) == \/ Settled(id)
              \/ id \in apiWire
              \/ \E a \in Attempts : BrokerHolds(Message(id, a))

\* A published notification is never lost: until it was delivered, given up
\* or deleted, some message for it is in the queue or unacknowledged, however
\* workers crash and connections break (retry is published before the ack).
NotLost == Without({"db", "apiCrash", "apiDrop"})
             => \A id \in published : InHand(id)

\* Nobody is notified twice as long as nothing is redelivered, no save fails
\* and no timeout hides a delivery: deletions and dying API replicas that
\* cut across the retries do not change that.
AtMostOnce == Without(Redelivering \union {"db", "ambiguous"})
                => \A id \in Ids : delivered[id] <= 1

\* The provider is called at most maxAttempts times, failing database calls
\* included: a failure while handling a failure must not retry twice
\* (safeHandleFailure).
SendsBounded == Without(Redelivering)
                  => \A id \in Ids : sends[id] <= MaxAttempts

\* A retry overlaps the handler that published it, but two handlers never
\* call the provider for one notification at the same time.
SingleSender == Without(Redelivering)
                  => \A s, t \in Slots :
                       pc[s] = "send" /\ pc[t] = "send" /\ s # t
                         => job[s].id # job[t].id

\* Who is told that a notification could not be queued, and will post it again,
\* never sees it delivered too: a publish that returned counts as queued, also
\* with a full write buffer, unless the save after it fails (publishToQueue, the
\* catch of createAndQueue).
UnqueuedIsNotSent ==
  Without({"db"}) => \A id \in Ids : request[id] = "502" => delivered[id] = 0

\* A record says "sent" only if the provider took the notification, whatever
\* fails and whoever writes over whom.
SentMeansDelivered ==
  \A id \in Ids : store[id].status = "sent" => delivered[id] > 0

\* The attempt count of a record never goes back, although the handler that
\* published a retry still saves its own copy after the retry has begun.
AttemptsGrow ==
  [][Without(Redelivering)
       => \A id \in Ids : \/ Missing(id)'
                          \/ store[id].attempts <= store'[id].attempts]_vars

\* Every published notification is delivered, given up or deleted in the end,
\* although workers die in the middle of it; a lost connection may leave
\* workers without a consumer.
EventuallySettled ==
  \A id \in Ids : id \in published ~> Settled(id) \/ ~Without({"drop"})

\* A worker that loses its connection while it handles a message gets back to
\* consuming: the failing ack ends the process and docker restarts it.
BusyWorkerReturns ==
  \A w \in Workers :
    (/\ worker[w] \in {"detached", "reattached"}
     /\ \E s \in SlotsOf(w) : pc[s] # "idle") ~> worker[w] = "consuming"

\* With nothing failing the pipeline keeps the promise of RetryPolicy: tries
\* in order, none after a delivery, all of them before it gives up.
Phase(id) == IF id \in gaveUp THEN "gaveUp"
             ELSE IF delivered[id] > 0 THEN "delivered"
             ELSE IF request[id] \in {"none", "500"} THEN "none" ELSE "open"

Policy == INSTANCE RetryPolicy WITH phase <- [id \in Ids |-> Phase(id)],
                                    tries <- sends

KeepsRetryPolicy == Policy!Spec

-----------------------------------------------------------------------------
(* What the documentation says and the code does not do. *)

\* README.md:65: a successful send leaves the record "sent".
SentStaysSent ==
  [][\A id \in Ids : request[id] = "201" /\ store[id].status = "sent"
                        => store'[id].status \in {"sent", "absent"}]_vars

\* README.md:467: the worker recovers from an outage without a restart.
RecoversFromOutage ==
  \A id \in Ids : id \in published ~> Settled(id)
=============================================================================
