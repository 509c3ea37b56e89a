----------------------------- MODULE DeadLetter -----------------------------
(***************************************************************************)
(* The message-level retry of consumeFromQueue and the dead-letter queue,  *)
(* with the metrics that look at both queues.                              *)
(*                                                                         *)
(* What gets here is a message that JSON.parse rejects, or the JSON value  *)
(* null, of which the consumer cannot read the fields.  Both throw again   *)
(* on every try, before any await: the catch writes a nack and, while      *)
(* retries are left, a copy with a higher x-retry-count into the socket of *)
(* its worker.  The broker reads both later, the nack first, and dead-     *)
(* letters what was nacked.                                                *)
(***************************************************************************)
EXTENDS Integers, FiniteSets

CONSTANTS Ids,                \* messages that cannot be handled
          Workers,            \* worker processes
          Prefetch,           \* unacknowledged messages per worker
          MaxMessageRetries,  \* MAX_MESSAGE_RETRIES
          NoMessage,          \* what an unused slot holds
          Budget              \* how often each environment event may happen

Events == {"crash",   \* a worker process dies or is shut down
           "drop",    \* a worker loses its connection
           "ask",     \* somebody asks for the queue metrics
           "fetch"}   \* the management API does not answer one request

Slots    == Workers \X (1..Prefetch)
Messages == [id : Ids, retry : 0..MaxMessageRetries]
Queues   == {"main", "dlq"}

ASSUME ParametersAssumption == /\ Prefetch \in Nat \ {0}
                               /\ MaxMessageRetries \in Nat
                               /\ IsFiniteSet(Ids)
                               /\ IsFiniteSet(Workers)
                               /\ NoMessage \notin Messages
                               /\ Budget \in [Events -> Nat]

VARIABLES injected,  \* messages somebody has put into the queue
          ready,     \* ready[m]: copies of m waiting in the main queue
          dlq,       \* dlq[m]: copies of m in the dead-letter queue
          worker,    \* worker[w]: "consuming", "deaf" or "down"
          pc,        \* pc[s]: "idle", "delivered" or "rejected"
          job,       \* job[s]: the message slot s has not settled
          copies,    \* copies[w]: copies written to the socket of w
          open,      \* queues whose metrics are still being fetched
          shown,     \* shown[q]: total of queue q in the answer
          asOf,      \* history: injected, and dead letters, when asked
          spent      \* spent[e]: how often event e happened

brokerVars  == <<injected, ready, dlq>>
workerVars  == <<worker, pc, job, copies>>
metricsVars == <<open, shown, asOf>>
vars == <<brokerVars, workerVars, metricsVars, spent>>

-----------------------------------------------------------------------------
(* Helpers. *)

WorkerOf(s) == s[1]
SlotsOf(w)  == {s \in Slots : WorkerOf(s) = w}
Message(id, r) == [id |-> id, retry |-> r]
NoneOf       == [m \in Messages |-> 0]
Add(bag, m)  == [bag EXCEPT ![m] = @ + 1]
Take(bag, m) == [bag EXCEPT ![m] = @ - 1]
Each(bag)    == UNION {{m} \X (1..bag[m]) : m \in DOMAIN bag}
Total(bag)   == Cardinality(Each(bag))

Spend(e) == /\ spent[e] < Budget[e]
            /\ spent' = [spent EXCEPT ![e] = @ + 1]

\* Faulty variant: one retry too few.
HasRetriesFewer(m) == m.retry < MaxMessageRetries - 1

HasRetries(m) == m.retry < MaxMessageRetries

\* The copy that is published in place of m.
Copy(m) == Message(m.id, m.retry + 1)

\* What the broker has handed out and not seen settled.
Busy    == {s \in Slots : pc[s] # "idle"}
Unacked(w, m) == Cardinality({s \in SlotsOf(w) : s \in Busy /\ job[s] = m})

-----------------------------------------------------------------------------
(* The queue and the handler. *)

\* Somebody publishes a message that no try can handle.
Inject(id) == /\ id \notin injected
              /\ injected' = injected \union {id}
              /\ ready' = Add(ready, Message(id, 0))
              /\ UNCHANGED <<dlq, workerVars, metricsVars, spent>>

Receive(s, m) == /\ worker[WorkerOf(s)] = "consuming"
                 /\ pc[s] = "idle"
                 /\ ready[m] > 0
                 /\ ready' = Take(ready, m)
                 /\ pc' = [pc EXCEPT ![s] = "delivered"]
                 /\ job' = [job EXCEPT ![s] = m]
                 /\ UNCHANGED <<injected, dlq, worker, copies, metricsVars, spent>>

\* A try throws; nack and, with a retry left, the copy go to the socket.
Reject(s) == /\ pc[s] = "delivered"
             /\ pc' = [pc EXCEPT ![s] = "rejected"]
             /\ copies' = IF HasRetries(job[s])
                          THEN [copies EXCEPT ![WorkerOf(s)] =
                                                Add(@, Copy(job[s]))]
                          ELSE copies
             /\ UNCHANGED <<brokerVars, worker, job, metricsVars, spent>>

\* Faulty variant: the slot still holds what was settled.
SettleKeepsJob(s) == /\ pc[s] = "rejected"
                     /\ pc' = [pc EXCEPT ![s] = "idle"]
                     /\ UNCHANGED <<injected, worker, job, copies,
                                    metricsVars, spent>>

Settle(s) == /\ pc[s] = "rejected"
             /\ pc' = [pc EXCEPT ![s] = "idle"]
             /\ job' = [job EXCEPT ![s] = NoMessage]
             /\ UNCHANGED <<injected, worker, copies, metricsVars, spent>>

\* Faulty variants: the queue has no dead-letter exchange; nack requeues.
NackDiscards(s) == Settle(s) /\ UNCHANGED <<ready, dlq>>
NackRequeues(s) == Settle(s) /\ ready' = Add(ready, job[s]) /\ UNCHANGED dlq

\* The broker reads the nack and moves the message to the dead-letter queue.
NackArrives(s) == Settle(s) /\ dlq' = Add(dlq, job[s]) /\ UNCHANGED ready

\* Faulty variant: the copy is written before the nack.
CopyOvertakes(w, m) == /\ copies[w][m] > 0
                       /\ copies' = [copies EXCEPT ![w] = Take(@, m)]
                       /\ ready' = Add(ready, m)
                       /\ UNCHANGED <<injected, dlq, worker, pc, job,
                                      metricsVars, spent>>

\* The broker reads a copy, after the nack written before it.
CopyArrives(w, m) ==
  /\ copies[w][m] > 0
  /\ ~\E s \in SlotsOf(w) : pc[s] = "rejected" /\ Copy(job[s]) = m
  /\ copies' = [copies EXCEPT ![w] = Take(@, m)]
  /\ ready' = Add(ready, m)
  /\ UNCHANGED <<injected, dlq, worker, pc, job, metricsVars, spent>>

-----------------------------------------------------------------------------
(* Workers and their connections. *)

\* The broker takes back what it has handed to w, the socket is lost.
Disconnects(w, state) ==
  /\ worker' = [worker EXCEPT ![w] = state]
  /\ ready' = [m \in Messages |-> ready[m] + Unacked(w, m)]
  /\ pc' = [s \in Slots |-> IF WorkerOf(s) = w THEN "idle" ELSE pc[s]]
  /\ job' = [s \in Slots |-> IF WorkerOf(s) = w THEN NoMessage ELSE job[s]]
  /\ copies' = [copies EXCEPT ![w] = NoneOf]
  /\ UNCHANGED <<injected, dlq, metricsVars>>

CrashWorker(w) == worker[w] # "down" /\ Spend("crash") /\ Disconnects(w, "down")

\* Whoever reconnects has no consumer; nothing in hand means no failing ack
\* that would end the process.
DropConnection(w) == /\ worker[w] = "consuming"
                     /\ Spend("drop")
                     /\ Disconnects(w, "deaf")

Restart(w) == /\ worker[w] = "down"
              /\ worker' = [worker EXCEPT ![w] = "consuming"]
              /\ UNCHANGED <<brokerVars, pc, job, copies, metricsVars, spent>>

-----------------------------------------------------------------------------
(* GET /api/queue/stats: two requests to the management API, side by side. *)

\* What the management API reports as the messages of a queue.
Counted(q) == IF q = "main" THEN Total(ready) + Cardinality(Busy) ELSE Total(dlq)

AskMetrics == /\ open = {}
              /\ Spend("ask")
              /\ open' = Queues
              /\ shown' = [q \in Queues |-> 0]
              /\ asOf' = [known |-> injected, dead |-> Total(dlq), ok |-> TRUE]
              /\ UNCHANGED <<brokerVars, workerVars>>

\* Faulty variant: what is handed out is left out.
FetchReady(q) == /\ q \in open
                 /\ open' = open \ {q}
                 /\ shown' = [shown EXCEPT ![q] = IF q = "main" THEN Total(ready)
                                                  ELSE Total(dlq)]
                 /\ UNCHANGED <<brokerVars, workerVars, asOf, spent>>

FetchQueue(q) == /\ q \in open
                 /\ open' = open \ {q}
                 /\ shown' = [shown EXCEPT ![q] = Counted(q)]
                 /\ UNCHANGED <<brokerVars, workerVars, asOf, spent>>

\* No answer, or not an OK: zeros.
FetchFails(q) == /\ q \in open
                 /\ Spend("fetch")
                 /\ open' = open \ {q}
                 /\ asOf' = [asOf EXCEPT !.ok = FALSE]
                 /\ UNCHANGED <<brokerVars, workerVars, shown>>

-----------------------------------------------------------------------------
(* The system. *)

Init == /\ injected = {}
        /\ ready = NoneOf
        /\ dlq = NoneOf
        /\ worker = [w \in Workers |-> "consuming"]
        /\ pc = [s \in Slots |-> "idle"]
        /\ job = [s \in Slots |-> NoMessage]
        /\ copies = [w \in Workers |-> NoneOf]
        /\ open = {}
        /\ shown = [q \in Queues |-> 0]
        /\ asOf = [known |-> {}, dead |-> 0, ok |-> TRUE]
        /\ spent = [e \in Events |-> 0]

Consume == \E s \in Slots, m \in Messages : Receive(s, m)

SlotStep(s) == Reject(s) \/ NackArrives(s)

FlushWorker(w) == \E m \in Messages : CopyArrives(w, m)

Metrics == AskMetrics \/ \E q \in Queues : FetchQueue(q) \/ FetchFails(q)

Next == \/ \E id \in Ids : Inject(id)
        \/ Consume
        \/ \E s \in Slots : SlotStep(s)
        \/ \E w \in Workers : \/ FlushWorker(w) \/ CrashWorker(w)
                              \/ DropConnection(w) \/ Restart(w)
        \/ Metrics

Safe == Init /\ [][Next]_vars

\* The broker hands out what it has, event loops go on, sockets are written
\* and docker restarts what died.
Fairness == /\ WF_vars(Consume)
            /\ \A s \in Slots : WF_vars(SlotStep(s))
            /\ \A w \in Workers : WF_vars(FlushWorker(w)) /\ WF_vars(Restart(w))

Spec == Safe /\ Fairness

-----------------------------------------------------------------------------
(* Properties. *)

\* Every variable has its type: no copy has a retry count beyond the maximum,
\* and a slot holds a message exactly while it is unacknowledged.
TypeOK == /\ injected \subseteq Ids
          /\ ready \in [Messages -> Nat]
          /\ dlq \in [Messages -> Nat]
          /\ worker \in [Workers -> {"consuming", "deaf", "down"}]
          /\ pc \in [Slots -> {"idle", "delivered", "rejected"}]
          /\ job \in [Slots -> Messages \union {NoMessage}]
          /\ \A s \in Slots : pc[s] = "idle" <=> job[s] = NoMessage
          /\ copies \in [Workers -> [Messages -> Nat]]
          /\ open \subseteq Queues
          /\ shown \in [Queues -> Nat]
          /\ asOf \in [known : SUBSET Ids, dead : Nat, ok : BOOLEAN]
          /\ spent \in [Events -> Nat]

Without(events) == \A e \in events : spent[e] = 0

\* The broker would hand m to a worker, or has.
Live(m) == ready[m] > 0 \/ \E s \in Busy : job[s] = m

\* Nothing is left of id but dead letters.
Finished(id) == \A r \in 0..MaxMessageRetries :
                  /\ ~Live(Message(id, r))
                  /\ \A w \in Workers : copies[w][Message(id, r)] = 0

\* A message that cannot be handled never vanishes: until it is tried again
\* some copy is in the queue, unacknowledged or dead, although the copy in
\* the socket may be lost with it (nack before sendToQueue in the catch).
NeverVanishes == \A id \in injected : \E r \in 0..MaxMessageRetries :
                   Live(Message(id, r)) \/ dlq[Message(id, r)] > 0

\* Retrying never multiplies a message: the broker holds at most one live
\* copy of it, also when the worker dies between the nack and the copy.
SingleLiveCopy ==
  \A m, n \in Messages :
    m.id = n.id =>
      /\ ready[m] <= 1
      /\ ready[m] > 0 /\ ready[n] > 0 => m = n
      /\ ready[m] > 0 => \A s \in Busy : job[s] # n
      /\ \A s, t \in Busy : job[s] = m /\ job[t] = n => s = t

\* The count in the header never starts again and never branches: no try is
\* dead-lettered twice, and while one is alive neither it nor a later one is a
\* dead letter.  Nor does it end early: while no worker dies or loses its
\* connection what is left of a message in the end is the dead letter of its
\* try after MAX_MESSAGE_RETRIES retries (x-retry-count).
TriesInTurn ==
  /\ \A m \in Messages :
       /\ dlq[m] <= 1
       /\ Live(m) => \A n \in Messages :
                       n.id = m.id /\ n.retry >= m.retry => dlq[n] = 0
  /\ Without({"crash", "drop"}) =>
       \A id \in injected : Finished(id) =>
                              dlq[Message(id, MaxMessageRetries)] = 1

\* A message that cannot be handled does not circulate for ever, whoever
\* crashes; a lost connection may leave nobody to consume it.
EventuallyFinished ==
  \A id \in Ids : id \in injected ~> Finished(id) \/ ~Without({"drop"})

\* With both fetches answered every message known when they were asked for is
\* shown in one of the queues, unless one was dead-lettered in between and
\* falls between the two answers; an answer that is late, or zero, never shows
\* more dead letters than there are (getStats asks for both side by side).
EveryMessageIsShown ==
  /\ shown["dlq"] <= Total(dlq)
  /\ open = {} /\ asOf.ok /\ Total(dlq) = asOf.dead
       => Cardinality(asOf.known) <= shown["main"] + shown["dlq"]
=============================================================================
