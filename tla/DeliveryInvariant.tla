------------------------- MODULE DeliveryInvariant -------------------------
(***************************************************************************)
(* The inductive invariants behind the theorems about Delivery.  TLC checks*)
(* them on small instances; the proof modules prove them in general.       *)
(***************************************************************************)
EXTENDS Delivery

\* A busy handler has a message, and one that waits for a retry has an attempt
\* left to publish.
HandlersTyped ==
  \A s \in Slots : /\ pc[s] # "idle" => job[s] \in Messages
                   /\ pc[s] = "backoff" => job[s].attempt < MaxAttempts

TypeInv == TypeOK /\ HandlersTyped

\* Who is about to record "sent" has seen the provider take the notification.
DeliveredFirst ==
  \A s \in Slots : pc[s] = "saveSent" => delivered[job[s].id] > 0

SentInv == SentMeansDelivered /\ DeliveredFirst

\* Where a notification can be outside its record.
MessagesOf(id) == {m \in Messages : m.id = id}
InQueue(id)    == \E m \in MessagesOf(id) : ready[m] > 0
InSocket(id)   == \E w \in Workers, m \in MessagesOf(id) : wire[w][m] > 0
Handled(id)    == \E s \in Slots : pc[s] # "idle" /\ job[s].id = id
Present(id)    == id \in apiWire \/ InQueue(id) \/ InSocket(id) \/ Handled(id)

\* Nothing happens to a notification whose first message was not published.
NothingBeforePublish ==
  \A id \in Ids :
    /\ request[id] \in {"none", "publish"} => id \notin published
    /\ id \notin published => /\ ~Present(id)
                              /\ store[id].attempts = 0
                              /\ sends[id] = 0
                              /\ delivered[id] = 0
                              /\ id \notin gaveUp

\* With the database at hand only a publish that threw is about to be answered
\* 502, or a save of a record that is gone, which the answer cannot follow.
Refused ==
  \A id \in Ids : /\ request[id] = "saveFailed" => \/ id \notin published
                                                   \/ Missing(id)
                  /\ request[id] = "502" => id \notin published

RefusalInv == /\ NothingBeforePublish
              /\ Without({"db"}) => Refused

\* A dead process handles nothing.
DownMeansIdle ==
  \A s \in Slots : worker[WorkerOf(s)] = "down" => pc[s] = "idle"

\* The events that can lose a message: a database call that fails where the
\* error is swallowed, and an API replica that takes an unsent message along.
LossEvents == {"db", "apiCrash", "apiDrop"}

\* The steps of a handler after which it will acknowledge its message.
PassedSteps == {"saveQueued", "ack", "acked"}

\* A later attempt for id than a is with the broker, or was written to the
\* socket of worker w ahead of any ack to come.
PassedOn(w, id, a) ==
  \E b \in Attempts : /\ b > a
                      /\ \/ BrokerHolds(Message(id, b))
                         \/ wire[w][Message(id, b)] > 0

\* The broker has yet to read the ack of slot s: it was written, or will be if
\* the channel lasts that long.
MayAck(s) == /\ worker[WorkerOf(s)] = "consuming"
             /\ \/ pc[s] = "acked"
                \/ pc[s] \in PassedSteps /\ WorkerOf(s) \notin closing

\* A handler may acknowledge only what is settled or passed on.
Covered(s) == MayAck(s) => \/ Settled(job[s].id)
                           \/ PassedOn(WorkerOf(s), job[s].id, job[s].attempt)

NothingLost == /\ \A id \in published : InHand(id)
               /\ \A s \in Slots : Covered(s)

LossInv == /\ TypeInv
           /\ SentInv
           /\ RefusalInv
           /\ DownMeansIdle
           /\ Without(LossEvents) => NothingLost

-----------------------------------------------------------------------------
(* While nothing is redelivered a notification is one token: it is in the  *)
(* socket of the API, in the queue, in the socket of a worker, or with one *)
(* handler that may still try it.                                          *)

Undisturbed == Without(Redelivering)

\* No worker has lost its connection or is about to stop.
Calm == \A w \in Workers : worker[w] = "consuming" /\ w \notin closing

\* The steps before and after the call of the provider from which the message
\* may be tried, now or by a retry.
UntriedSteps == {"find", "start", "send"}
ActiveSteps  == UntriedSteps \union {"saveSent", "backoff", "recover"}

Active(s, id) == pc[s] \in ActiveSteps /\ job[s].id = id

InHandler(id) == \E s \in Slots : Active(s, id)

\* In one place only, and there only once.
OneToken(id) ==
  /\ id \in apiWire => ~InQueue(id) /\ ~InSocket(id) /\ ~InHandler(id)
  /\ InQueue(id) => ~InSocket(id) /\ ~InHandler(id)
  /\ InSocket(id) => ~InHandler(id)
  /\ \A m, n \in MessagesOf(id) :
       /\ ready[m] <= 1
       /\ ready[m] > 0 /\ ready[n] > 0 => m = n
       /\ \A v, w \in Workers : /\ wire[v][m] <= 1
                                /\ wire[v][m] > 0 /\ wire[w][n] > 0
                                     => v = w /\ m = n
  /\ \A s, t \in Slots : Active(s, id) /\ Active(t, id) => s = t

\* Attempt a finds fewer than a calls of the provider, and no later attempt
\* in the record.
TriedInOrder(id) ==
  /\ sends[id] <= MaxAttempts
  /\ id \in apiWire => sends[id] = 0 /\ store[id].attempts = 0
  /\ \A m \in MessagesOf(id) :
       ready[m] > 0 \/ (\E w \in Workers : wire[w][m] > 0)
         => sends[id] < m.attempt /\ store[id].attempts < m.attempt
  /\ \A s \in Slots : Active(s, id) =>
       /\ sends[id] <= job[s].attempt
       /\ store[id].attempts <= job[s].attempt
       /\ pc[s] \in UntriedSteps => sends[id] < job[s].attempt

TokenInv == Undisturbed => /\ Calm
                           /\ \A id \in Ids : /\ OneToken(id)
                                              /\ TriedInOrder(id)

\* What was delivered is not tried again: its handler records it, or finds
\* the record deleted.
NotTriedAgain(id) ==
  delivered[id] > 0 =>
    /\ delivered[id] = 1
    /\ id \notin apiWire /\ ~InQueue(id) /\ ~InSocket(id)
    /\ \A s \in Slots : Active(s, id) => \/ pc[s] = "saveSent"
                                         \/ pc[s] = "recover" /\ Missing(id)

OnceInv == Without(Redelivering \union {"db", "ambiguous"})
             => \A id \in Ids : NotTriedAgain(id)

-----------------------------------------------------------------------------
(* While nothing fails every try is counted, and one handler gives up.     *)

\* The handler is about to record that the notification was given up.
GivingUp(s, id) == pc[s] = "saveFailed" /\ job[s].id = id

\* All tries were used, all were refused, and no message is left.
UsedUp(id) == /\ sends[id] = MaxAttempts
              /\ delivered[id] = 0
              /\ id \notin apiWire
              /\ ~InQueue(id) /\ ~InSocket(id) /\ ~InHandler(id)

\* No request is refused, and every notification asked for has its record.
GoesWell(id) == /\ request[id] \in {"none", "publish", "saveQueued", "201"}
                /\ request[id] # "none" => ~Missing(id)

\* A waiting message names the try that comes next.
CountedExactly(id) ==
  /\ \A m \in MessagesOf(id) :
       ready[m] > 0 \/ (\E w \in Workers : wire[w][m] > 0)
         => m.attempt = sends[id] + 1
  /\ \A s \in Slots : Active(s, id) =>
       /\ pc[s] # "recover"
       /\ pc[s] \in UntriedSteps => job[s].attempt = sends[id] + 1
       /\ pc[s] = "backoff" => job[s].attempt = sends[id]
  /\ \A s \in Slots : GivingUp(s, id) =>
       /\ UsedUp(id)
       /\ id \notin gaveUp
       /\ \A t \in Slots : GivingUp(t, id) => t = s
  /\ id \in gaveUp => UsedUp(id)

QuietInv == Without(Events) => \A id \in Ids : GoesWell(id) /\ CountedExactly(id)
=============================================================================
