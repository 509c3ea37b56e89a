------------------------- MODULE DeliveryTokenProofs -------------------------
(***************************************************************************)
(* How often the provider is called, for every value of the constants of   *)
(* Delivery: as long as nothing is redelivered a notification is a single  *)
(* token that moves from the API through queue and sockets to one handler  *)
(* at a time (TokenInv).                                                   *)
(***************************************************************************)
EXTENDS DeliverySafetyProofs

-----------------------------------------------------------------------------
(* Steps that redeliver nothing. *)

\* An event that has not happened by the end of a step does not happen in it.
LEMMA NotSpent ==
  ASSUME TypeInv, [Next]_vars, NEW e \in Events, spent'[e] = 0
  PROVE  spent[e] = 0 /\ ~Spend(e)
BY EventsCount DEF Spend, TypeInv, TypeOK

\* While workers stay connected these are all the steps there are, and the
\* workers stay as they are.
LEMMA CalmSteps ==
  ASSUME TypeInv, Calm, [Next]_vars, Undisturbed'
  PROVE  /\ \/ \E id \in Ids : \/ ClientStep(id) \/ RequestStep(id)
                               \/ LoseApiWire(id) \/ CrashApi(id)
            \/ \E id \in Ids : FlushApi(id)
            \/ \E s \in Slots : HandlerStep(s) /\ ~AckThrows(s)
            \/ Consume
            \/ \E w \in Workers : FlushWorker(w)
            \/ UNCHANGED vars
         /\ Undisturbed
         /\ Calm'
<1>1. \A e \in Redelivering : e \in Events /\ spent[e] = 0 /\ ~Spend(e)
  BY NotSpent DEF Undisturbed, Without, Redelivering, Events
<1>2. Undisturbed
  BY <1>1 DEF Undisturbed, Without
<1>3. \A s \in Slots : ~AckThrows(s)
  BY SlotWorker DEF AckThrows, Calm
<1>4. \A w \in Workers : /\ ~CrashWorker(w) /\ ~Restart(w) /\ ~DropConnection(w)
                         /\ ~Reconnect(w) /\ ~ShutDown(w) /\ ~ShutDownStep(w)
  BY <1>1 DEF CrashWorker, Restart, DropConnection, Reconnect, ShutDown,
     ShutDownStep, CloseArrives, Exit, Calm, Redelivering
<1>5. \/ \E id \in Ids : \/ ClientStep(id) \/ RequestStep(id)
                         \/ LoseApiWire(id) \/ CrashApi(id)
      \/ \E id \in Ids : FlushApi(id)
      \/ \E s \in Slots : HandlerStep(s) /\ ~AckThrows(s)
      \/ Consume
      \/ \E w \in Workers : FlushWorker(w)
      \/ UNCHANGED vars
  BY <1>3, <1>4 DEF Next
<1>6. UNCHANGED <<worker, closing>>
  <2>1. ASSUME NEW s \in Slots, HandlerStep(s), ~AckThrows(s)
        PROVE  UNCHANGED <<worker, closing>>
    <3>1. AckArrives(s) => UNCHANGED <<worker, closing>>
      BY DEF AckArrives
    <3> QED
      BY <2>1, <3>1, HandlerGoes
  <2>2. ASSUME NEW id \in Ids, \/ ClientStep(id) \/ RequestStep(id)
                              \/ LoseApiWire(id) \/ CrashApi(id)
        PROVE  UNCHANGED <<worker, closing>>
    BY <2>2, ApiFrame
  <2> QED
    BY <1>5, <2>1, <2>2 DEF FlushApi, Consume, Receive, FlushWorker, Flush, vars
<1> QED
  BY <1>2, <1>5, <1>6 DEF Calm

-----------------------------------------------------------------------------
(* Steps that make no token. *)

\* The step makes no token for id: tokens stay where they are or disappear.
NoNewToken(id) ==
  /\ id \in apiWire' => id \in apiWire
  /\ \A m \in MessagesOf(id) : /\ ready'[m] <= ready[m]
                               /\ \A w \in Workers : wire'[w][m] <= wire[w][m]
  /\ \A s \in Slots : Active(s, id)' =>
       /\ Active(s, id) /\ job'[s] = job[s]
       /\ pc'[s] \in UntriedSteps => pc[s] \in UntriedSteps

\* What the model counts about a notification, in both states of a step.
LEMMA Counts ==
  ASSUME TypeInv, TypeInv', NEW id \in Ids
  PROVE  /\ \A m \in MessagesOf(id) :
              /\ m \in Messages /\ m.id = id /\ m.attempt \in Attempts
              /\ ready[m] \in Nat /\ ready'[m] \in Nat
              /\ \A w \in Workers : wire[w][m] \in Nat /\ wire'[w][m] \in Nat
         /\ store[id].attempts \in Nat /\ store'[id].attempts \in Nat
         /\ sends[id] \in Nat /\ sends'[id] \in Nat
         /\ delivered[id] \in Nat /\ delivered'[id] \in Nat
BY MessageFacts, ParametersAssumption DEF MessagesOf, TypeInv, TypeOK, Documents

LEMMA FewerTokens ==
  ASSUME TypeInv, TypeInv', NEW id \in Ids, OneToken(id), NoNewToken(id)
  PROVE  OneToken(id)'
<1>1. /\ InQueue(id)' => InQueue(id)
      /\ InSocket(id)' => InSocket(id)
      /\ InHandler(id)' => InHandler(id)
  BY Counts DEF NoNewToken, InQueue, InSocket, InHandler, MessagesOf
<1>2. \A m, n \in MessagesOf(id) :
        /\ ready'[m] <= 1
        /\ ready'[m] > 0 /\ ready'[n] > 0 => m = n
        /\ \A v, w \in Workers : /\ wire'[v][m] <= 1
                                 /\ wire'[v][m] > 0 /\ wire'[w][n] > 0
                                      => v = w /\ m = n
  BY Counts DEF NoNewToken, OneToken
<1> QED
  BY <1>1, <1>2 DEF NoNewToken, OneToken, MessagesOf

\* If nobody calls the provider and no later attempt is recorded the order of
\* the attempts is kept.
LEMMA FewerTried ==
  ASSUME TypeInv, TypeInv', NEW id \in Ids, TriedInOrder(id), NoNewToken(id),
         sends'[id] = sends[id],
         store'[id].attempts \in {0, store[id].attempts}
  PROVE  TriedInOrder(id)'
<1>1. \A m \in MessagesOf(id) :
        ready'[m] > 0 \/ (\E w \in Workers : wire'[w][m] > 0)
          => sends'[id] < m.attempt /\ store'[id].attempts < m.attempt
  BY Counts, ParametersAssumption DEF NoNewToken, TriedInOrder, Attempts
<1>2. ASSUME NEW s \in Slots, Active(s, id)'
      PROVE  /\ sends'[id] <= job'[s].attempt
             /\ store'[id].attempts <= job'[s].attempt
             /\ pc'[s] \in UntriedSteps => sends'[id] < job'[s].attempt
  <2>1. job[s].attempt \in Attempts
    BY <1>2, MessageFacts DEF NoNewToken, Active, ActiveSteps, UntriedSteps,
       TypeInv, HandlersTyped
  <2> QED
    BY <1>2, <2>1, Counts, ParametersAssumption
       DEF NoNewToken, TriedInOrder, Attempts
<1> QED
  BY <1>1, <1>2, Counts DEF NoNewToken, TriedInOrder, MessagesOf

\* A step that moves or makes a token of a notification concerns it.
Concerns(id) ==
  \/ Publish(id) \/ FlushApi(id)
  \/ \E s \in Slots, m \in MessagesOf(id) : Receive(s, m)
  \/ \E w \in Workers, m \in MessagesOf(id) : Flush(w, m)
  \/ \E s \in Slots : HandlerStep(s) /\ pc[s] # "idle" /\ job[s].id = id

\* The API writes no count of attempts.
LEMMA ApiAttempts ==
  ASSUME TypeInv, NEW other \in Ids, NEW id \in Ids,
         \/ ClientStep(other) \/ RequestStep(other)
         \/ LoseApiWire(other) \/ CrashApi(other)
  PROVE  store'[id].attempts \in {0, store[id].attempts}
<1>1. CASE SaveQueued(other) \/ SaveFailed(other)
  <2>1. PICK status \in Statuses :
          store' = [store EXCEPT ![other].status = status]
    BY <1>1 DEF SaveQueued, SaveFailed, SaveStatus, Statuses
  <2> QED
    BY <2>1 DEF TypeInv, TypeOK, Documents
<1>2. CASE ~(SaveQueued(other) \/ SaveFailed(other))
  BY <1>2 DEF ClientStep, RequestStep, Create, CreateFails, Delete, NoRecord,
     Publish, PublishThrows, SaveQueuedThrows, SaveFailedThrows,
     SaveStatusThrows, LoseApiWire, CrashApi, TypeInv, TypeOK
<1> QED
  BY <1>1, <1>2

\* All other steps leave its tokens and its history alone.
LEMMA OtherSteps ==
  ASSUME TypeInv, TypeInv', Calm, Undisturbed', [Next]_vars, NEW id \in Ids,
         ~Concerns(id)
  PROVE  /\ NoNewToken(id)
         /\ \A s \in Slots : pc'[s] # "idle" /\ job'[s].id = id
                              => pc'[s] = pc[s] /\ job'[s] = job[s]
         /\ store'[id].attempts \in {0, store[id].attempts}
         /\ sends'[id] = sends[id]
         /\ delivered'[id] = delivered[id]
         /\ id \in gaveUp' => id \in gaveUp
<1> DEFINE Alone == /\ NoNewToken(id)
                    /\ \A s \in Slots : pc'[s] # "idle" /\ job'[s].id = id
                                         => pc'[s] = pc[s] /\ job'[s] = job[s]
                    /\ store'[id].attempts \in {0, store[id].attempts}
                    /\ sends'[id] = sends[id]
                    /\ delivered'[id] = delivered[id]
                    /\ id \in gaveUp' => id \in gaveUp
<1>m. \A m \in Messages : m.id = id <=> m \in MessagesOf(id)
  BY DEF MessagesOf
<1>1. ASSUME NEW other \in Ids, \/ ClientStep(other) \/ RequestStep(other)
                               \/ LoseApiWire(other) \/ CrashApi(other)
      PROVE  Alone
  <2>1. UNCHANGED <<ready, wire, pc, job, historyVars>>
    BY <1>1, ApiFrame DEF queueVars, handlerVars
  <2>2. id \in apiWire' => id \in apiWire
    BY <1>1, ApiFrame DEF Publish, Concerns
  <2>3. NoNewToken(id)
    BY <2>1, <2>2, Counts DEF NoNewToken, Active
  <2> QED
    BY <1>1, <2>1, <2>3, ApiAttempts DEF historyVars, handlerVars
<1>2. ASSUME NEW other \in Ids, FlushApi(other) PROVE Alone
  <2>1. /\ UNCHANGED <<wire, pc, job, store, historyVars>>
        /\ apiWire' \subseteq apiWire
        /\ other # id
    BY <1>2 DEF FlushApi, handlerVars, Concerns
  <2>2. \A m \in MessagesOf(id) : ready'[m] = ready[m]
    BY <1>2, <2>1 DEF FlushApi, Add, Message, MessagesOf, TypeInv, TypeOK
  <2>3. NoNewToken(id)
    BY <2>1, <2>2, Counts DEF NoNewToken, Active
  <2> QED
    BY <2>1, <2>3 DEF historyVars
<1>3. ASSUME NEW s \in Slots, NEW m \in Messages, Receive(s, m) PROVE Alone
  <2>1. m.id # id
    BY <1>m, <1>3 DEF Concerns
  <2>2. /\ UNCHANGED <<apiWire, wire, store, historyVars>>
        /\ job'[s] = m
        /\ \A t \in Slots : t # s => pc'[t] = pc[t] /\ job'[t] = job[t]
        /\ \A n \in MessagesOf(id) : ready'[n] = ready[n]
    BY <1>3, <2>1 DEF Receive, Take, apiVars, MessagesOf, TypeInv, TypeOK
  <2>3. NoNewToken(id)
    BY <2>1, <2>2, Counts DEF NoNewToken, Active
  <2> QED
    BY <2>1, <2>2, <2>3 DEF historyVars
<1>4. ASSUME NEW w \in Workers, NEW m \in Messages, Flush(w, m) PROVE Alone
  <2>1. m.id # id
    BY <1>m, <1>4 DEF Concerns
  <2>2. /\ UNCHANGED <<apiWire, pc, job, store, historyVars>>
        /\ \A n \in MessagesOf(id) : /\ ready'[n] = ready[n]
                                     /\ \A v \in Workers : wire'[v][n] = wire[v][n]
    BY <1>4, <2>1 DEF Flush, Add, Take, apiVars, handlerVars, MessagesOf,
       TypeInv, TypeOK
  <2>3. NoNewToken(id)
    BY <2>2, Counts DEF NoNewToken, Active
  <2> QED
    BY <2>2, <2>3 DEF historyVars
<1>5. ASSUME NEW s \in Slots, HandlerStep(s), ~AckThrows(s) PROVE Alone
  <2>1. pc[s] = "idle" \/ job[s].id # id
    BY <1>5 DEF Concerns
  <2>2. /\ ~AckArrives(s) => job' = job
        /\ \A t \in Slots : t # s => pc'[t] = pc[t] /\ job'[t] = job[t]
        /\ AckArrives(s) => pc'[s] = "idle"
        /\ UNCHANGED <<apiWire, ready>>
    <3>1. CASE AckArrives(s)
      BY <3>1 DEF AckArrives, apiVars, queueVars, TypeInv, TypeOK
    <3> QED
      BY <1>5, <3>1, HandlerGoes DEF Goto, apiVars, TypeInv, TypeOK
  <2>3. \A w \in Workers, m \in MessagesOf(id) : wire'[w][m] = wire[w][m]
    <3>1. CASE Retry(s)
      BY <2>1, <3>1 DEF Retry, Add, Message, MessagesOf, TypeInv, TypeOK
    <3>2. CASE AckArrives(s)
      BY <3>2 DEF AckArrives, queueVars
    <3> QED
      BY <1>5, <3>1, <3>2, HandlerGoes
  <2>4. \A t \in Slots : pc'[t] # "idle" /\ job'[t].id = id
                           => pc'[t] = pc[t] /\ job'[t] = job[t]
    BY <1>5, <2>1, <2>2, HandlerGoes
  <2>5. NoNewToken(id)
    BY <2>2, <2>3, <2>4, Counts DEF NoNewToken, Active, ActiveSteps, UntriedSteps
  <2> QED
    BY <1>5, <2>1, <2>4, <2>5, HandlerTouches
<1>6. CASE UNCHANGED vars
  BY <1>6, Counts DEF vars, apiVars, queueVars, handlerVars, historyVars,
     NoNewToken, Active
<1> QED
  BY <1>1, <1>2, <1>3, <1>4, <1>5, <1>6, CalmSteps DEF Consume, FlushWorker

-----------------------------------------------------------------------------
(* Steps that move a token. *)

Token(id) == OneToken(id) /\ TriedInOrder(id)

\* Whoever is active is busy.
LEMMA ActiveFacts ==
  ASSUME TypeInv, NEW s \in Slots, NEW id \in Ids, Active(s, id)
  PROVE  /\ pc[s] # "idle"
         /\ Handled(id) /\ InHandler(id)
         /\ job[s] \in MessagesOf(id)
         /\ job[s].attempt \in Attempts
BY MessageFacts DEF Active, ActiveSteps, UntriedSteps, Handled, InHandler,
   MessagesOf, TypeInv, HandlersTyped

\* Publishing makes the only token there is.
LEMMA PublishToken ==
  ASSUME TypeInv, TypeInv', NothingBeforePublish, NEW id \in Ids, Publish(id)
  PROVE  Token(id)'
<1>1. /\ ~Present(id)
      /\ sends[id] = 0
      /\ store[id].attempts = 0
  BY DEF Publish, NothingBeforePublish
<1>2. UNCHANGED <<ready, wire, pc, job, store, sends>>
  BY DEF Publish, queueVars, handlerVars, historyVars
<1>3. \A s \in Slots : ~Active(s, id)
  BY <1>1, ActiveFacts DEF Present
<1>4. \A m \in MessagesOf(id) : /\ ready[m] = 0
                                /\ \A w \in Workers : wire[w][m] = 0
  BY <1>1, Counts DEF Present, InQueue, InSocket
<1>5. OneToken(id)'
  BY <1>2, <1>3, <1>4 DEF OneToken, InQueue, InSocket, InHandler, Active,
     MessagesOf
<1>6. TriedInOrder(id)'
  BY <1>1, <1>2, <1>3, <1>4, ParametersAssumption DEF TriedInOrder, Active,
     MessagesOf
<1> QED
  BY <1>5, <1>6 DEF Token

\* The token of the API moves to the queue.
LEMMA FlushApiToken ==
  ASSUME TypeInv, TypeInv', NEW id \in Ids, FlushApi(id), Token(id)
  PROVE  Token(id)'
<1> DEFINE first == Message(id, 1)
<1>1. first \in MessagesOf(id) /\ first.attempt = 1
  BY MessageFacts, ParametersAssumption DEF Attempts, MessagesOf
<1>2. /\ UNCHANGED <<wire, pc, job, sends, store>>
      /\ id \in apiWire /\ id \notin apiWire'
      /\ \A m \in MessagesOf(id) :
           ready'[m] = IF m = first THEN ready[m] + 1 ELSE ready[m]
  BY <1>1 DEF FlushApi, handlerVars, historyVars, Add, MessagesOf, TypeInv, TypeOK
<1>3. /\ sends[id] = 0 /\ store[id].attempts = 0
      /\ \A s \in Slots : ~Active(s, id)
      /\ \A m \in MessagesOf(id) : /\ ready[m] = 0
                                   /\ \A w \in Workers : wire[w][m] = 0
  BY <1>2, Counts DEF Token, OneToken, TriedInOrder, InQueue, InSocket, InHandler
<1>4. \A m \in MessagesOf(id) : /\ ready'[m] = IF m = first THEN 1 ELSE 0
                                /\ \A w \in Workers : wire'[w][m] = 0
  BY <1>2, <1>3
<1>5. OneToken(id)'
  BY <1>2, <1>3, <1>4 DEF OneToken, InQueue, InSocket, InHandler, Active,
     MessagesOf
<1>6. TriedInOrder(id)'
  BY <1>1, <1>2, <1>3, <1>4, ParametersAssumption DEF TriedInOrder, Active,
     MessagesOf
<1> QED
  BY <1>5, <1>6 DEF Token

\* The token in the queue moves to the handler that receives it.
LEMMA ReceiveToken ==
  ASSUME TypeInv, TypeInv', NEW id \in Ids, NEW s \in Slots,
         NEW m \in MessagesOf(id), Receive(s, m), Token(id)
  PROVE  Token(id)'
<1>1. /\ UNCHANGED <<apiWire, wire, sends, store>>
      /\ pc[s] = "idle" /\ pc'[s] = "find" /\ job'[s] = m
      /\ \A t \in Slots : t # s => pc'[t] = pc[t] /\ job'[t] = job[t]
      /\ ready[m] > 0
      /\ \A n \in MessagesOf(id) :
           ready'[n] = IF n = m THEN ready[n] - 1 ELSE ready[n]
  BY DEF Receive, Take, apiVars, historyVars, MessagesOf, TypeInv, TypeOK
<1>2. id \notin apiWire /\ ~InSocket(id) /\ ~InHandler(id)
  BY <1>1 DEF Token, OneToken, InQueue
<1>3. \A n \in MessagesOf(id) : /\ ready[n] = IF n = m THEN 1 ELSE 0
                                /\ \A w \in Workers : wire[w][n] = 0
  BY <1>1, <1>2, Counts DEF Token, OneToken, InSocket
<1>4. /\ id \notin apiWire'
      /\ \A n \in MessagesOf(id) : /\ ready'[n] = 0
                                   /\ \A w \in Workers : wire'[w][n] = 0
      /\ \A t \in Slots : Active(t, id)' => t = s
  BY <1>1, <1>2, <1>3 DEF Active, InHandler
<1>5. OneToken(id)'
  BY <1>4 DEF OneToken, InQueue, InSocket, MessagesOf
<1>6. /\ sends'[id] <= MaxAttempts
      /\ sends'[id] < job'[s].attempt
      /\ store'[id].attempts < job'[s].attempt
  BY <1>1 DEF Token, TriedInOrder
<1>7. TriedInOrder(id)'
  <2>1. m.attempt \in Nat
    BY Counts DEF Attempts
  <2> QED
    BY <1>1, <1>4, <1>6, <2>1, Counts DEF TriedInOrder, MessagesOf
<1> QED
  BY <1>5, <1>7 DEF Token

\* The token in a socket moves to the queue.
LEMMA FlushToken ==
  ASSUME TypeInv, TypeInv', NEW id \in Ids, NEW v \in Workers,
         NEW m \in MessagesOf(id), Flush(v, m), Token(id)
  PROVE  Token(id)'
<1>1. /\ UNCHANGED <<apiWire, pc, job, sends, store>>
      /\ wire[v][m] > 0
      /\ \A n \in MessagesOf(id) :
           /\ ready'[n] = IF n = m THEN ready[n] + 1 ELSE ready[n]
           /\ \A w \in Workers : wire'[w][n] = IF w = v /\ n = m
                                               THEN wire[w][n] - 1 ELSE wire[w][n]
  BY DEF Flush, Add, Take, apiVars, handlerVars, historyVars, MessagesOf,
     TypeInv, TypeOK
<1>2. id \notin apiWire /\ ~InQueue(id) /\ ~InHandler(id)
  BY <1>1 DEF Token, OneToken, InSocket
<1>3. \A n \in MessagesOf(id), w \in Workers :
        wire[w][n] = IF w = v /\ n = m THEN 1 ELSE 0
  BY <1>1, Counts DEF Token, OneToken
<1>4. sends[id] < m.attempt /\ store[id].attempts < m.attempt
  BY <1>1 DEF Token, TriedInOrder
<1>5. /\ id \notin apiWire'
      /\ \A t \in Slots : ~Active(t, id)'
      /\ \A n \in MessagesOf(id) : /\ ready'[n] = IF n = m THEN 1 ELSE 0
                                   /\ \A w \in Workers : wire'[w][n] = 0
  BY <1>1, <1>2, <1>3, Counts DEF InQueue, InHandler, Active
<1>6. OneToken(id)'
  BY <1>5 DEF OneToken, InQueue, InSocket, InHandler, MessagesOf
<1>7. TriedInOrder(id)'
  BY <1>1, <1>4, <1>5 DEF Token, TriedInOrder, MessagesOf
<1> QED
  BY <1>6, <1>7 DEF Token

-----------------------------------------------------------------------------
(* Handlers keep their token, pass it on or drop it. *)

\* The one active handler of a notification has the only token.
LEMMA ActiveIsAlone ==
  ASSUME TypeInv, TypeInv', NEW s \in Slots, NEW id \in Ids, OneToken(id),
         Active(s, id)
  PROVE  /\ id \notin apiWire
         /\ \A m \in MessagesOf(id) : /\ ready[m] = 0
                                      /\ \A w \in Workers : wire[w][m] = 0
         /\ \A t \in Slots : Active(t, id) => t = s
BY ActiveFacts, Counts DEF OneToken, InQueue, InSocket

\* A handler that moves on without calling the provider or recording an attempt.
LEMMA GotoToken ==
  ASSUME TypeInv, TypeInv', NEW s \in Slots, NEW step, NEW record,
         Goto(s, step, record),
         UNCHANGED <<apiWire, ready, wire, sends>>,
         step \in ActiveSteps => pc[s] \in ActiveSteps,
         step \in UntriedSteps => pc[s] \in UntriedSteps,
         NEW id \in Ids, Token(id),
         store'[id].attempts \in {0, store[id].attempts}
  PROVE  Token(id)'
<1>1. /\ job' = job /\ pc'[s] = step
      /\ \A t \in Slots : t # s => pc'[t] = pc[t]
  BY DEF Goto, TypeInv, TypeOK
<1>2. NoNewToken(id)
  BY <1>1, Counts DEF NoNewToken, Active
<1> QED
  BY <1>2, FewerTokens, FewerTried DEF Token

\* The one active handler of a notification moves on within its token.
LEMMA ActiveToken ==
  ASSUME TypeInv, TypeInv', NEW s \in Slots, NEW step, NEW record,
         Goto(s, step, record), UNCHANGED <<apiWire, ready, wire>>,
         NEW id \in Ids, Token(id), Active(s, id),
         sends'[id] <= job[s].attempt, sends'[id] <= MaxAttempts,
         store'[id].attempts <= job[s].attempt,
         step \in UntriedSteps => sends'[id] < job[s].attempt
  PROVE  Token(id)'
<1>1. /\ job' = job /\ pc'[s] = step
      /\ \A t \in Slots : t # s => pc'[t] = pc[t]
  BY DEF Goto, TypeInv, TypeOK
<1>2. /\ id \notin apiWire'
      /\ \A m \in MessagesOf(id) : /\ ready'[m] = 0
                                   /\ \A w \in Workers : wire'[w][m] = 0
      /\ \A t \in Slots : Active(t, id)' => t = s
  BY <1>1, ActiveIsAlone DEF Token, Active
<1>3. OneToken(id)'
  BY <1>2 DEF OneToken, InQueue, InSocket, MessagesOf
<1>4. TriedInOrder(id)'
  BY <1>1, <1>2 DEF TriedInOrder, MessagesOf
<1> QED
  BY <1>3, <1>4 DEF Token

\* The token of a handler that retries moves to the socket of its worker.
LEMMA RetryToken ==
  ASSUME TypeInv, TypeInv', NEW s \in Slots, Retry(s), NEW id \in Ids, Token(id),
         job[s].id = id
  PROVE  Token(id)'
<1> DEFINE retry == Message(id, job[s].attempt + 1)
<1>1. /\ pc[s] = "backoff" /\ Active(s, id)
      /\ job[s].attempt \in Attempts /\ job[s].attempt < MaxAttempts
  BY MessageFacts DEF Retry, Active, ActiveSteps, TypeInv, HandlersTyped
<1>2. /\ retry \in MessagesOf(id)
      /\ retry.attempt = job[s].attempt + 1
  BY <1>1, MessageFacts, ParametersAssumption DEF Attempts, MessagesOf
<1>3. /\ UNCHANGED <<apiWire, ready, sends, store>>
      /\ job' = job /\ pc'[s] = "saveQueued"
      /\ \A t \in Slots : t # s => pc'[t] = pc[t]
      /\ \A w \in Workers, m \in MessagesOf(id) :
           wire'[w][m] = IF w = WorkerOf(s) /\ m = retry THEN wire[w][m] + 1
                                                         ELSE wire[w][m]
  BY <1>2, SlotWorker DEF Retry, Goto, Add, apiVars, historyVars, MessagesOf,
     TypeInv, TypeOK
<1>4. /\ id \notin apiWire
      /\ \A m \in MessagesOf(id) : /\ ready[m] = 0
                                   /\ \A w \in Workers : wire[w][m] = 0
      /\ \A t \in Slots : Active(t, id) => t = s
  BY <1>1, ActiveIsAlone DEF Token
<1>5. /\ id \notin apiWire'
      /\ \A t \in Slots : ~Active(t, id)'
      /\ \A m \in MessagesOf(id) :
           /\ ready'[m] = 0
           /\ \A w \in Workers : wire'[w][m] = IF w = WorkerOf(s) /\ m = retry
                                               THEN 1 ELSE 0
  <2>1. \A t \in Slots : ~Active(t, id)'
    BY <1>3, <1>4 DEF Active, ActiveSteps, UntriedSteps
  <2> QED
    BY <1>3, <1>4, <2>1
<1>6. OneToken(id)'
  BY <1>5 DEF OneToken, InQueue, InSocket, InHandler, MessagesOf
<1>7. /\ sends'[id] < retry.attempt /\ sends'[id] <= MaxAttempts
      /\ store'[id].attempts < retry.attempt
  BY <1>1, <1>2, <1>3, ParametersAssumption DEF Token, TriedInOrder, TypeInv,
     TypeOK, Documents, Attempts
<1>8. TriedInOrder(id)'
  BY <1>5, <1>7 DEF TriedInOrder, MessagesOf
<1> QED
  BY <1>6, <1>8 DEF Token

\* Only the save before the call of the provider writes a count of attempts.
LEMMA SaveAttempts ==
  ASSUME TypeInv, NEW s \in Slots, NEW new, NEW next, Save(s, new, next),
         job[s].id \in Ids
  PROVE  store'[job[s].id].attempts \in {new.attempts, store[job[s].id].attempts}
         /\ (new.attempts = seen[s].attempts
               => store'[job[s].id].attempts = store[job[s].id].attempts)
BY DEF Save, Merge, TypeInv, TypeOK

LEMMA HandlerToken ==
  ASSUME TypeInv, TypeInv', NEW s \in Slots, HandlerStep(s), ~AckThrows(s),
         NEW id \in Ids, Token(id), pc[s] # "idle", job[s].id = id
  PROVE  Token(id)'
<1>j. job[s] \in Messages /\ job[s].attempt \in Attempts
  BY MessageFacts DEF TypeInv, HandlersTyped
<1>a. \A a : AfterFailure(a) \in {"backoff", "saveFailed"}
  BY DEF AfterFailure
<1>3. CASE AckArrives(s)
  <2>1. /\ UNCHANGED <<apiWire, ready, wire, sends, store>>
        /\ pc'[s] = "idle"
        /\ \A t \in Slots : t # s => pc'[t] = pc[t] /\ job'[t] = job[t]
    BY <1>3 DEF AckArrives, apiVars, queueVars, historyVars, TypeInv, TypeOK
  <2>2. NoNewToken(id)
    BY <2>1, Counts DEF NoNewToken, Active, ActiveSteps, UntriedSteps
  <2> QED
    BY <2>1, <2>2, FewerTokens, FewerTried DEF Token
<1>4. CASE \/ Find(s) \/ FindThrows(s) \/ Recover(s) \/ RecoverThrows(s)
           \/ RetryThrows(s) \/ Ack(s)
  <2>1. \E step, record :
          /\ Goto(s, step, record)
          /\ step \in ActiveSteps => pc[s] \in ActiveSteps
          /\ step \in UntriedSteps => pc[s] \in UntriedSteps
    BY <1>4, <1>a DEF Find, FindThrows, Recover, RecoverThrows, RetryThrows, Ack,
       ActiveSteps, UntriedSteps
  <2>2. UNCHANGED <<apiWire, ready, wire, sends, store>>
    BY <1>4 DEF Find, FindThrows, Recover, RecoverThrows, RetryThrows, Ack,
       apiVars, queueVars, historyVars
  <2> QED
    BY <2>1, <2>2, GotoToken
<1>5. CASE Retry(s)
  BY <1>5, RetryToken
<1>6. CASE Start(s)
  <2> DEFINE new == [status |-> "processing", attempts |-> job[s].attempt]
  <2>1. /\ Active(s, id) /\ pc[s] \in UntriedSteps
        /\ Save(s, new, "send")
    BY <1>6 DEF Start, Active, ActiveSteps, UntriedSteps
  <2>2. /\ sends[id] < job[s].attempt
        /\ store[id].attempts <= job[s].attempt
        /\ sends[id] <= MaxAttempts
    BY <2>1 DEF Token, TriedInOrder
  <2>3. store'[id].attempts <= job[s].attempt
    BY <1>j, <2>1, <2>2, SaveAttempts DEF Attempts
  <2>4. /\ UNCHANGED <<apiWire, ready, wire, sends>>
        /\ Goto(s, "send", new)
    BY <2>1 DEF Save, apiVars, queueVars
  <2> QED
    BY <1>j, <2>1, <2>2, <2>3, <2>4, ActiveToken DEF TypeInv, TypeOK, Attempts
<1>7. CASE SaveSent(s) \/ SaveRetry(s) \/ SaveGiveUp(s)
  <2>1. PICK status : Save(s, [seen[s] EXCEPT !.status = status], "ack")
    BY <1>7 DEF SaveSent, SaveRetry, SaveGiveUp
  <2>2. [seen[s] EXCEPT !.status = status].attempts = seen[s].attempts
    BY DEF TypeInv, TypeOK, Documents
  <2>3. store'[id].attempts = store[id].attempts
    BY <2>1, <2>2, SaveAttempts
  <2>4. UNCHANGED <<apiWire, ready, wire, sends>> /\ \E r : Goto(s, "ack", r)
    BY <2>1 DEF Save, apiVars, queueVars
  <2> QED
    BY <2>3, <2>4, GotoToken DEF ActiveSteps, UntriedSteps
<1>8. CASE \/ StartThrows(s) \/ SaveSentThrows(s) \/ SaveRetryThrows(s)
           \/ SaveGiveUpThrows(s)
  <2>1. PICK next : /\ SaveFails(s, next)
                    /\ \/ next = "ack"
                       \/ next = "recover" /\ pc[s] \in ActiveSteps
    BY <1>8 DEF StartThrows, SaveSentThrows, SaveRetryThrows, SaveGiveUpThrows,
       ActiveSteps, UntriedSteps
  <2>2. /\ UNCHANGED <<apiWire, ready, wire, sends, store>>
        /\ Goto(s, next, NoRecord)
    BY <2>1 DEF SaveFails, apiVars, queueVars, historyVars
  <2> QED
    BY <2>1, <2>2, GotoToken DEF ActiveSteps, UntriedSteps
<1>9. CASE SendAccepted(s) \/ SendRefused(s) \/ SendTimesOut(s)
  <2>1. PICK taken, next : /\ Send(s, taken, next)
                           /\ next \in {"saveSent", "backoff", "saveFailed"}
    BY <1>9, <1>a DEF SendAccepted, SendRefused, SendTimesOut
  <2>2. Active(s, id) /\ pc[s] \in UntriedSteps
    BY <2>1 DEF Send, Active, ActiveSteps, UntriedSteps
  <2>3. /\ sends[id] < job[s].attempt
        /\ store[id].attempts <= job[s].attempt
    BY <2>2 DEF Token, TriedInOrder
  <2>4. /\ UNCHANGED <<apiWire, ready, wire, store>>
        /\ Goto(s, next, seen[s])
        /\ sends'[id] = sends[id] + 1
    BY <2>1 DEF Send, apiVars, queueVars, TypeInv, TypeOK
  <2>5. sends'[id] <= job[s].attempt /\ sends'[id] <= MaxAttempts
    BY <1>j, <2>3, <2>4, ParametersAssumption DEF TypeInv, TypeOK, Attempts
  <2>6. next \notin UntriedSteps
    BY <2>1 DEF UntriedSteps
  <2> QED
    BY <2>2, <2>3, <2>4, <2>5, <2>6, ActiveToken
<1> QED
  BY <1>3, <1>4, <1>5, <1>6, <1>7, <1>8, <1>9 DEF HandlerStep

LEMMA TokenStep ==
  TypeInv /\ NothingBeforePublish /\ TokenInv /\ [Next]_vars => TokenInv'
<1> SUFFICES ASSUME TypeInv, NothingBeforePublish, TokenInv, [Next]_vars,
                    Undisturbed'
             PROVE  Calm' /\ \A id \in Ids : Token(id)'
  BY DEF TokenInv, Token
<1>1. Undisturbed
  BY NotSpent DEF Undisturbed, Without, Redelivering, Events
<1>2. Calm /\ \A id \in Ids : Token(id)
  BY <1>1 DEF TokenInv, Token
<1>3. TypeInv'
  BY TypeStep
<1>4. ASSUME NEW id \in Ids PROVE Token(id)'
  <2>1. Token(id)
    BY <1>2
  <2>2. CASE ~Concerns(id)
    BY <1>2, <1>3, <2>1, <2>2, OtherSteps, FewerTokens, FewerTried DEF Token
  <2>3. CASE Publish(id) \/ FlushApi(id)
    BY <1>3, <2>1, <2>3, PublishToken, FlushApiToken
  <2>4. ASSUME NEW s \in Slots, NEW m \in MessagesOf(id), Receive(s, m)
        PROVE  Token(id)'
    BY <1>3, <2>1, <2>4, ReceiveToken
  <2>5. ASSUME NEW w \in Workers, NEW m \in MessagesOf(id), Flush(w, m)
        PROVE  Token(id)'
    BY <1>3, <2>1, <2>5, FlushToken
  <2>6. ASSUME NEW s \in Slots, HandlerStep(s), pc[s] # "idle", job[s].id = id
        PROVE  Token(id)'
    BY <1>2, <1>3, <2>1, <2>6, HandlerToken, SlotWorker DEF AckThrows, Calm
  <2> QED
    BY <2>2, <2>3, <2>4, <2>5, <2>6 DEF Concerns
<1> QED
  BY <1>2, <1>4, CalmSteps

LEMMA InitToken == Init => TokenInv
BY ParametersAssumption DEF Init, TokenInv, Calm, OneToken, TriedInOrder, InQueue,
   InSocket, InHandler, Active, ActiveSteps, UntriedSteps, MessagesOf, NoneOf,
   NoRecord

-----------------------------------------------------------------------------
(* What the token shows. *)

CountInv == TypeInv /\ NothingBeforePublish /\ TokenInv

LEMMA CountStep == CountInv /\ [Next]_vars => CountInv'
BY TypeStep, PublishStep, TokenStep DEF CountInv

LEMMA InitCount == Init => CountInv
BY InitType, InitRefusal, InitToken DEF CountInv, RefusalInv

\* The provider is called at most MaxAttempts times for a notification as long
\* as nothing is redelivered, whatever database calls fail, requests die and
\* records are deleted (handleFailure, safeHandleFailure).
THEOREM SendsAreBounded == Safe => []SendsBounded
<1>1. CountInv => SendsBounded
  BY DEF CountInv, TokenInv, TriedInOrder, SendsBounded, Undisturbed
<1> QED
  BY InitCount, CountStep, <1>1, PTL DEF Safe

\* Two handlers never call the provider for one notification at a time as long
\* as nothing is redelivered, although a retry overlaps the handler that
\* published it.
THEOREM OneSenderOnly == Safe => []SingleSender
<1>1. CountInv => SingleSender
  <2> SUFFICES ASSUME CountInv, Undisturbed, NEW s \in Slots, NEW t \in Slots,
                      pc[s] = "send", pc[t] = "send", job[s].id = job[t].id
               PROVE  s = t
    BY DEF SingleSender, Undisturbed
  <2>1. job[s].id \in Ids
    BY MessageFacts DEF CountInv, TypeInv, HandlersTyped
  <2>2. Active(s, job[s].id) /\ Active(t, job[s].id)
    BY DEF Active, ActiveSteps, UntriedSteps
  <2> QED
    BY <2>1, <2>2 DEF CountInv, TokenInv, OneToken
<1> QED
  BY InitCount, CountStep, <1>1, PTL DEF Safe

-----------------------------------------------------------------------------
(* The record never goes back to an earlier attempt. *)

LEMMA HandlerSaves ==
  ASSUME NEW s \in Slots, HandlerStep(s)
  PROVE  UNCHANGED store \/ Start(s) \/ SaveSent(s) \/ SaveRetry(s) \/ SaveGiveUp(s)
BY DEF HandlerStep, Find, FindThrows, StartThrows, SendAccepted, SendRefused,
   SendTimesOut, Send, SaveSentThrows, Recover, RecoverThrows, Retry, RetryThrows,
   SaveRetryThrows, SaveGiveUpThrows, SaveFails, Ack, AckThrows, Dies, AckArrives

LEMMA GrowStep ==
  ASSUME CountInv, [Next]_vars, Undisturbed, NEW id \in Ids
  PROVE  Missing(id)' \/ store[id].attempts <= store'[id].attempts
<1>t. TypeInv /\ store[id].attempts \in Nat
  BY ParametersAssumption DEF CountInv, TypeInv, TypeOK, Documents
<1>1. UNCHANGED store => store[id].attempts <= store'[id].attempts
  BY <1>t
<1>2. ASSUME NEW other \in Ids, Create(other)
      PROVE  store[id].attempts <= store'[id].attempts
  <2>1. CASE other = id
    BY <1>t, <1>2, <2>1 DEF Create, CountInv, NothingBeforePublish, TypeInv, TypeOK
  <2>2. CASE other # id
    BY <1>t, <1>2, <2>2 DEF Create
  <2> QED
    BY <2>1, <2>2
<1>3. ASSUME NEW other \in Ids, Delete(other)
      PROVE  Missing(id)' \/ store'[id] = store[id]
  BY <1>t, <1>3 DEF Delete, Missing, NoRecord, TypeInv, TypeOK
<1>4. ASSUME NEW other \in Ids, SaveQueued(other) \/ SaveFailed(other)
      PROVE  store'[id].attempts = store[id].attempts
  <2>1. PICK status : store' = [store EXCEPT ![other].status = status]
    BY <1>4 DEF SaveQueued, SaveFailed, SaveStatus
  <2> QED
    BY <1>t, <2>1 DEF TypeInv, TypeOK, Documents
<1>5. ASSUME NEW s \in Slots, HandlerStep(s)
      PROVE  store[id].attempts <= store'[id].attempts
  <2>1. CASE pc[s] = "idle" \/ job[s].id # id
    BY <1>t, <1>5, <2>1, HandlerTouches
  <2>2. CASE Start(s) /\ job[s].id = id
    <3>1. Active(s, id)
      BY <2>2 DEF Start, Active, ActiveSteps, UntriedSteps
    <3>2. store[id].attempts <= job[s].attempt
      BY <3>1 DEF CountInv, TokenInv, TriedInOrder
    <3>3. store'[id].attempts \in {job[s].attempt, store[id].attempts}
      BY <1>t, <2>2, SaveAttempts DEF Start
    <3> QED
      BY <1>t, <3>2, <3>3
  <2>3. CASE (SaveSent(s) \/ SaveRetry(s) \/ SaveGiveUp(s)) /\ job[s].id = id
    <3>1. PICK status : Save(s, [seen[s] EXCEPT !.status = status], "ack")
      BY <2>3 DEF SaveSent, SaveRetry, SaveGiveUp
    <3>2. [seen[s] EXCEPT !.status = status].attempts = seen[s].attempts
      BY <1>t DEF TypeInv, TypeOK, Documents
    <3>3. store'[id].attempts = store[id].attempts
      BY <1>t, <2>3, <3>1, <3>2, SaveAttempts
    <3> QED
      BY <1>t, <3>3
  <2> QED
    BY <1>1, <1>5, <2>1, <2>2, <2>3, HandlerSaves
<1>6. ASSUME NEW other \in Ids, ClientStep(other) \/ RequestStep(other)
      PROVE  \/ UNCHANGED store
             \/ Create(other) \/ Delete(other) \/ SaveQueued(other) \/ SaveFailed(other)
  BY <1>6 DEF ClientStep, RequestStep, CreateFails, Publish, PublishThrows,
     SaveQueuedThrows, SaveFailedThrows, SaveStatusThrows
<1>7. ASSUME NEW other \in Ids, ClientStep(other) \/ RequestStep(other)
      PROVE  Missing(id)' \/ store[id].attempts <= store'[id].attempts
  <2>1. store'[id].attempts = store[id].attempts
          => store[id].attempts <= store'[id].attempts
    BY <1>t
  <2> QED
    BY <1>1, <1>2, <1>3, <1>4, <1>6, <1>7, <2>1
<1>8. \/ \E other \in Ids : ClientStep(other) \/ RequestStep(other)
      \/ \E s \in Slots : HandlerStep(s)
      \/ UNCHANGED store
  BY OthersTouch DEF Next
<1> QED
  BY <1>1, <1>5, <1>7, <1>8

\* The attempts in a record never go back as long as nothing is redelivered,
\* although the handler that published a retry still saves its own copy after
\* the retry has begun (the save of the changed fields only).
THEOREM AttemptsNeverGoBack == Safe => AttemptsGrow
<1>1. CountInv /\ [Next]_vars
        => [Without(Redelivering)
              => \A id \in Ids : \/ Missing(id)'
                                 \/ store[id].attempts <= store'[id].attempts]_vars
  BY GrowStep DEF Undisturbed
<1> QED
  BY InitCount, CountStep, <1>1, PTL DEF Safe, AttemptsGrow

-----------------------------------------------------------------------------
(* Nobody is notified twice. *)

LEMMA OnceStep ==
  CountInv /\ OnceInv /\ [Next]_vars => OnceInv'
<1> DEFINE events == Redelivering \union {"db", "ambiguous"}
<1> SUFFICES ASSUME CountInv, OnceInv, [Next]_vars, Without(events)',
                    NEW id \in Ids, delivered'[id] > 0
             PROVE  NotTriedAgain(id)'
  BY DEF OnceInv, NotTriedAgain
<1>e. \A e \in events : e \in Events /\ spent[e] = 0 /\ ~Spend(e)
  BY NotSpent DEF Without, Redelivering, Events, CountInv
<1>t. TypeInv /\ TypeInv' /\ Undisturbed /\ Undisturbed'
  BY <1>e, TypeStep DEF CountInv, Undisturbed, Without
<1>c. Calm /\ OneToken(id) /\ TriedInOrder(id)
  BY <1>t DEF CountInv, TokenInv
<1>n. NotTriedAgain(id)
  BY <1>e DEF OnceInv, Without
<1>g. delivered[id] > 0 /\ Missing(id) => Missing(id)'
  <2>1. delivered[id] > 0 => id \in published
    BY DEF CountInv, NothingBeforePublish
  <2>2. id \in published => request[id] # "none"
    BY DEF CountInv, NothingBeforePublish
  <2> QED
    BY <1>t, <2>1, <2>2, GoneStaysGone
<1>1. CASE ~Concerns(id)
  <2>1. /\ NoNewToken(id)
        /\ \A s \in Slots : Active(s, id)' => pc'[s] = pc[s]
        /\ delivered'[id] = delivered[id]
    BY <1>1, <1>c, <1>t, OtherSteps DEF Active, ActiveSteps, UntriedSteps
  <2>2. ~InQueue(id)' /\ ~InSocket(id)'
    BY <1>n, <1>t, <2>1, Counts DEF NotTriedAgain, NoNewToken, InQueue, InSocket,
       MessagesOf
  <2> QED
    BY <1>g, <1>n, <2>1, <2>2 DEF NotTriedAgain, NoNewToken
<1>2. ~Publish(id) /\ ~FlushApi(id)
  BY <1>n, <1>t DEF Publish, FlushApi, historyVars, CountInv, NothingBeforePublish,
     NotTriedAgain
<1>3. /\ \A s \in Slots, m \in MessagesOf(id) : ~Receive(s, m)
      /\ \A w \in Workers, m \in MessagesOf(id) : ~Flush(w, m)
  BY <1>n, <1>t DEF Receive, Flush, historyVars, NotTriedAgain, InQueue, InSocket
<1>4. ASSUME NEW s \in Slots, HandlerStep(s), pc[s] # "idle", job[s].id = id
      PROVE  NotTriedAgain(id)'
  <2>1. ~AckThrows(s)
    BY <1>c, SlotWorker DEF AckThrows, Calm
  <2>2. CASE SendAccepted(s) \/ SendRefused(s) \/ SendTimesOut(s)
    <3>1. Active(s, id) /\ pc[s] = "send"
      BY <1>4, <2>2 DEF SendAccepted, SendRefused, SendTimesOut, Send, Active,
         ActiveSteps, UntriedSteps
    <3>2. delivered[id] = 0
      BY <1>n, <1>t, <3>1, Counts DEF NotTriedAgain
    <3>3. ~SendRefused(s)
      BY <1>4, <1>t, <3>2 DEF SendRefused, Send, TypeInv, TypeOK
    <3>a. SendAccepted(s)
      BY <1>e, <2>2, <3>3 DEF SendTimesOut
    <3>4. /\ delivered'[id] = 1
          /\ UNCHANGED <<apiWire, ready, wire, job>>
          /\ pc'[s] = "saveSent"
          /\ \A t \in Slots : t # s => pc'[t] = pc[t]
      BY <1>4, <1>t, <3>2, <3>a DEF SendAccepted, Send, Goto, apiVars, queueVars,
         TypeInv, TypeOK
    <3>5. /\ id \notin apiWire
          /\ \A m \in MessagesOf(id) : /\ ready[m] = 0
                                       /\ \A w \in Workers : wire[w][m] = 0
          /\ \A t \in Slots : Active(t, id) => t = s
      BY <1>c, <1>t, <3>1, ActiveIsAlone
    <3>6. \A t \in Slots : Active(t, id)' => t = s
      BY <3>4, <3>5 DEF Active
    <3> QED
      BY <3>4, <3>5, <3>6 DEF NotTriedAgain, InQueue, InSocket, MessagesOf
  <2>3. CASE ~(SendAccepted(s) \/ SendRefused(s) \/ SendTimesOut(s))
    <3>1. delivered'[id] = delivered[id]
      BY <1>4, <2>1, <2>3 DEF HandlerStep, Find, FindThrows, Start, StartThrows,
         SaveSent, SaveSentThrows, Recover, RecoverThrows, Retry, RetryThrows,
         SaveRetry, SaveRetryThrows, SaveGiveUp, SaveGiveUpThrows, Save, SaveFails,
         Ack, AckArrives, historyVars
    <3>2. /\ delivered[id] = 1
          /\ id \notin apiWire /\ ~InQueue(id) /\ ~InSocket(id)
          /\ \A t \in Slots : Active(t, id) => \/ pc[t] = "saveSent"
                                               \/ pc[t] = "recover" /\ Missing(id)
      BY <1>n, <3>1 DEF NotTriedAgain
    <3>3. pc[s] \in {"saveSent", "recover", "saveQueued", "saveFailed", "ack", "acked"}
          /\ (pc[s] = "recover" => Missing(id))
      BY <1>4, <1>t, <3>2 DEF Active, ActiveSteps, UntriedSteps, TypeInv, TypeOK,
         HandlerStates
    <3>4. /\ UNCHANGED <<apiWire, ready, wire>>
          /\ \A t \in Slots : t # s => pc'[t] = pc[t] /\ job'[t] = job[t]
          /\ Active(s, id)' => pc'[s] = "recover" /\ Missing(id)'
      <4>1. CASE AckArrives(s)
        BY <1>t, <4>1 DEF AckArrives, apiVars, queueVars, Active, ActiveSteps,
           UntriedSteps, TypeInv, TypeOK
      <4>2. CASE SaveSent(s) \/ SaveRetry(s) \/ SaveGiveUp(s)
        BY <1>t, <4>2 DEF SaveSent, SaveRetry, SaveGiveUp, Save, Goto, apiVars,
           queueVars, Active, ActiveSteps, UntriedSteps, TypeInv, TypeOK
      <4>3. CASE SaveSentThrows(s)
        BY <1>4, <1>e, <1>t, <4>3 DEF SaveSentThrows, SaveFails, SaveThrows, Goto,
           apiVars, queueVars, Missing, TypeInv, TypeOK
      <4>4. CASE SaveRetryThrows(s) \/ SaveGiveUpThrows(s) \/ Ack(s)
        BY <1>t, <4>4 DEF SaveRetryThrows, SaveGiveUpThrows, SaveFails, Ack, Goto,
           apiVars, queueVars, Active, ActiveSteps, UntriedSteps, TypeInv, TypeOK
      <4>5. CASE Recover(s) \/ RecoverThrows(s)
        BY <1>4, <1>e, <1>t, <3>3, <4>5 DEF Recover, RecoverThrows, Missing, Goto,
           apiVars, queueVars, Active, ActiveSteps, UntriedSteps, TypeInv, TypeOK
      <4> QED
        BY <1>4, <2>1, <2>3, <3>3, <4>1, <4>2, <4>3, <4>4, <4>5 DEF HandlerStep, Find,
           FindThrows, Start, StartThrows, Retry, RetryThrows
    <3> QED
      BY <1>g, <3>1, <3>2, <3>4 DEF NotTriedAgain, Active, InQueue, InSocket,
         MessagesOf
  <2> QED
    BY <2>2, <2>3
<1> QED
  BY <1>1, <1>2, <1>3, <1>4 DEF Concerns

\* Nobody is notified twice as long as nothing is redelivered, no database call
\* fails and no timeout hides a delivery, whatever requests die and records are
\* deleted meanwhile (processNotification, handleFailure).
THEOREM NobodyTwice == Safe => []AtMostOnce
<1>1. Init => OnceInv
  BY DEF Init, OnceInv, NotTriedAgain
<1>2. CountInv /\ OnceInv => AtMostOnce
  BY Counts DEF OnceInv, NotTriedAgain, AtMostOnce, CountInv, TypeInv, TypeOK
<1> QED
  BY InitCount, CountStep, OnceStep, <1>1, <1>2, PTL DEF Safe

-----------------------------------------------------------------------------
(* While nothing fails every try is counted. *)

QuietBase == CountInv /\ SentInv /\ OnceInv /\ QuietInv

\* What holds on both sides of a step by the end of which nothing has failed.
LEMMA QuietSteps ==
  ASSUME QuietBase, [Next]_vars, Without(Events)'
  PROVE  /\ Without(Events)
         /\ \A e \in Events : ~Spend(e)
         /\ TypeInv /\ TypeInv'
         /\ Calm /\ Undisturbed'
         /\ \A id \in Ids : /\ OneToken(id) /\ TriedInOrder(id)
                            /\ NotTriedAgain(id)
                            /\ GoesWell(id) /\ CountedExactly(id)
<1>1. TypeInv /\ TypeInv'
  BY TypeStep DEF QuietBase, CountInv
<1>2. Without(Events) /\ \A e \in Events : ~Spend(e)
  BY <1>1, NotSpent DEF Without
<1>3. Undisturbed /\ Undisturbed' /\ Without(Redelivering \union {"db", "ambiguous"})
  BY <1>2 DEF Undisturbed, Without, Redelivering, Events
<1> QED
  BY <1>1, <1>2, <1>3 DEF QuietBase, CountInv, TokenInv, OnceInv, QuietInv

\* Who is handled was asked for, so the record is there.
LEMMA HandledHasRecord ==
  ASSUME NothingBeforePublish, NEW id \in Ids, GoesWell(id), Present(id)
  PROVE  /\ id \in published
         /\ request[id] \notin {"none", "publish"}
         /\ ~Missing(id)
BY DEF NothingBeforePublish, GoesWell

\* A save never makes a record absent.
LEMMA SaveKeepsRecord ==
  ASSUME TypeInv, NEW s \in Slots, HandlerStep(s), NEW id \in Ids, ~Missing(id)
  PROVE  ~Missing(id)'
<1>1. ASSUME NEW new, NEW next, Save(s, new, next), new.status # "absent"
      PROVE  ~Missing(id)'
  BY <1>1 DEF Save, Merge, Missing, TypeInv, TypeOK
<1>2. CASE Start(s)
  BY <1>1, <1>2 DEF Start
<1>3. CASE SaveSent(s) \/ SaveRetry(s) \/ SaveGiveUp(s)
  <2>1. PICK status \in {"sent", "queued", "failed"} :
          Save(s, [seen[s] EXCEPT !.status = status], "ack")
    BY <1>3 DEF SaveSent, SaveRetry, SaveGiveUp
  <2>2. [seen[s] EXCEPT !.status = status].status # "absent"
    BY DEF TypeInv, TypeOK, Documents
  <2> QED
    BY <1>1, <2>1, <2>2
<1> QED
  BY <1>2, <1>3, HandlerSaves DEF Missing

LEMMA GoesWellStep ==
  ASSUME QuietBase, [Next]_vars, Without(Events)', NEW id \in Ids
  PROVE  GoesWell(id)'
<1>q. /\ \A e \in Events : ~Spend(e)
      /\ TypeInv /\ GoesWell(id)
      /\ \A other \in Ids : GoesWell(other)
  BY QuietSteps
<1>1. ASSUME NEW other \in Ids, ClientStep(other) \/ RequestStep(other)
      PROVE  GoesWell(id)'
  <2>1. Create(other) \/ Publish(other) \/ SaveQueued(other)
    BY <1>1, <1>q DEF ClientStep, RequestStep, CreateFails, Delete, PublishThrows,
       SaveQueuedThrows, SaveFailed, SaveFailedThrows, SaveStatus,
       SaveStatusThrows, SaveThrows, GoesWell, Events
  <2>2. CASE Create(other)
    BY <1>q, <2>2 DEF Create, GoesWell, Missing, TypeInv, TypeOK
  <2>3. CASE Publish(other)
    BY <1>q, <2>3 DEF Publish, GoesWell, Missing, TypeInv, TypeOK
  <2>4. CASE SaveQueued(other)
    BY <1>q, <2>4 DEF SaveQueued, SaveStatus, GoesWell, Missing, TypeInv, TypeOK,
       Documents
  <2> QED
    BY <2>1, <2>2, <2>3, <2>4
<1>2. ASSUME NEW s \in Slots, HandlerStep(s) PROVE GoesWell(id)'
  <2>1. UNCHANGED request
    BY <1>2, HandlerGoes DEF apiVars, AckArrives, AckThrows, Dies
  <2> QED
    BY <1>2, <1>q, <2>1, SaveKeepsRecord DEF GoesWell
<1>3. CASE UNCHANGED <<request, store>>
  BY <1>q, <1>3 DEF GoesWell, Missing
<1>4. \/ \E other \in Ids : ClientStep(other) \/ RequestStep(other)
      \/ \E s \in Slots : HandlerStep(s)
      \/ UNCHANGED <<request, store>>
  BY <1>q DEF Next, FlushApi, LoseApiWire, CrashApi, Consume, Receive, CrashWorker,
     Restart, FlushWorker, Flush, DropConnection, Reconnect, ShutDown,
     ShutDownStep, CloseArrives, Exit, Dies, apiVars, Events, vars
<1> QED
  BY <1>1, <1>2, <1>3, <1>4

\* A step that makes no token and calls no provider counts as before.
LEMMA CountsAsBefore ==
  ASSUME TypeInv, TypeInv', NEW id \in Ids, CountedExactly(id), NoNewToken(id),
         sends'[id] = sends[id], delivered'[id] = delivered[id],
         \A s \in Slots : /\ Active(s, id)' => \/ pc'[s] = pc[s]
                                               \/ pc'[s] \in UntriedSteps
                          /\ GivingUp(s, id)' => GivingUp(s, id) /\ id \notin gaveUp',
         id \in gaveUp' => UsedUp(id)
  PROVE  CountedExactly(id)'
<1>1. UsedUp(id) => UsedUp(id)'
  BY Counts DEF UsedUp, NoNewToken, InQueue, InSocket, InHandler, MessagesOf
<1>2. \A m \in MessagesOf(id) :
        ready'[m] > 0 \/ (\E w \in Workers : wire'[w][m] > 0)
          => m.attempt = sends'[id] + 1
  BY Counts DEF NoNewToken, CountedExactly
<1>3. \A s \in Slots : Active(s, id)' =>
        /\ pc'[s] # "recover"
        /\ pc'[s] \in UntriedSteps => job'[s].attempt = sends'[id] + 1
        /\ pc'[s] = "backoff" => job'[s].attempt = sends'[id]
  BY DEF NoNewToken, CountedExactly, UntriedSteps
<1>4. \A s \in Slots : GivingUp(s, id)' =>
        /\ UsedUp(id)'
        /\ id \notin gaveUp'
        /\ \A t \in Slots : GivingUp(t, id)' => t = s
  BY <1>1 DEF CountedExactly
<1> QED
  BY <1>1, <1>2, <1>3, <1>4 DEF CountedExactly, MessagesOf

\* Where there is a token nothing was used up.
LEMMA TokenMeansUnused ==
  ASSUME NEW id \in Ids, CountedExactly(id),
         id \in apiWire \/ InQueue(id) \/ InSocket(id) \/ InHandler(id)
  PROVE  id \notin gaveUp /\ \A s \in Slots : ~GivingUp(s, id)
BY DEF CountedExactly, UsedUp

LEMMA PublishCounts ==
  ASSUME TypeInv, TypeInv', NothingBeforePublish, NEW id \in Ids, Publish(id)
  PROVE  CountedExactly(id)'
<1>1. ~Present(id) /\ id \notin gaveUp
  BY DEF Publish, NothingBeforePublish
<1>2. UNCHANGED <<ready, wire, pc, job, gaveUp>>
  BY DEF Publish, queueVars, handlerVars, historyVars
<1>3. \A s \in Slots : ~Active(s, id)' /\ ~GivingUp(s, id)'
  BY <1>1, <1>2 DEF Present, Handled, Active, GivingUp, ActiveSteps, UntriedSteps
<1>4. \A m \in MessagesOf(id) : /\ ~(ready'[m] > 0)
                                /\ \A w \in Workers : ~(wire'[w][m] > 0)
  BY <1>1, <1>2 DEF Present, InQueue, InSocket
<1> QED
  BY <1>1, <1>2, <1>3, <1>4 DEF CountedExactly, MessagesOf

LEMMA FlushApiCounts ==
  ASSUME TypeInv, TypeInv', NEW id \in Ids, FlushApi(id), Token(id),
         CountedExactly(id)
  PROVE  CountedExactly(id)'
<1> DEFINE first == Message(id, 1)
<1>1. first \in MessagesOf(id) /\ first.attempt = 1
  BY MessageFacts, ParametersAssumption DEF Attempts, MessagesOf
<1>2. /\ UNCHANGED <<wire, pc, job, sends, gaveUp>>
      /\ id \in apiWire
      /\ \A m \in MessagesOf(id) : ready'[m] = IF m = first THEN ready[m] + 1
                                                            ELSE ready[m]
  BY <1>1 DEF FlushApi, handlerVars, historyVars, Add, MessagesOf, TypeInv, TypeOK
<1>3. /\ sends[id] = 0
      /\ \A s \in Slots : ~Active(s, id) /\ ~GivingUp(s, id)
      /\ id \notin gaveUp
  BY <1>2, TokenMeansUnused DEF Token, OneToken, TriedInOrder, InHandler
<1>4. \A m \in MessagesOf(id) : /\ ready[m] = 0
                                /\ \A w \in Workers : wire[w][m] = 0
  BY <1>2, Counts DEF Token, OneToken, InQueue, InSocket
<1>5. \A m \in MessagesOf(id) : /\ ready'[m] > 0 => m = first
                                /\ \A w \in Workers : ~(wire'[w][m] > 0)
  BY <1>2, <1>4
<1>6. \A s \in Slots : ~Active(s, id)' /\ ~GivingUp(s, id)'
  BY <1>2, <1>3 DEF Active, GivingUp
<1> QED
  BY <1>1, <1>2, <1>3, <1>5, <1>6 DEF CountedExactly, MessagesOf

LEMMA ReceiveCounts ==
  ASSUME TypeInv, TypeInv', NEW id \in Ids, NEW s \in Slots,
         NEW m \in MessagesOf(id), Receive(s, m), Token(id), CountedExactly(id)
  PROVE  CountedExactly(id)'
<1>1. /\ UNCHANGED <<apiWire, wire, sends, gaveUp>>
      /\ pc[s] = "idle" /\ pc'[s] = "find" /\ job'[s] = m
      /\ \A t \in Slots : t # s => pc'[t] = pc[t] /\ job'[t] = job[t]
      /\ ready[m] > 0
      /\ \A n \in MessagesOf(id) :
           ready'[n] = IF n = m THEN ready[n] - 1 ELSE ready[n]
  BY DEF Receive, Take, apiVars, historyVars, MessagesOf, TypeInv, TypeOK
<1>2. /\ InQueue(id)
      /\ id \notin gaveUp
      /\ \A t \in Slots : ~GivingUp(t, id)
  BY <1>1, TokenMeansUnused DEF InQueue
<1>3. /\ m.attempt = sends[id] + 1
      /\ \A t \in Slots : ~Active(t, id)
  BY <1>1, <1>2 DEF CountedExactly, Token, OneToken, InHandler
<1>4. \A t \in Slots : /\ Active(t, id)' => t = s
                       /\ ~GivingUp(t, id)'
  BY <1>1, <1>2, <1>3 DEF Active, GivingUp
<1>5. \A n \in MessagesOf(id) :
        ready'[n] > 0 \/ (\E w \in Workers : wire'[w][n] > 0)
          => n.attempt = sends'[id] + 1
  BY <1>1, Counts DEF CountedExactly
<1> QED
  BY <1>1, <1>2, <1>3, <1>4, <1>5 DEF CountedExactly, MessagesOf

LEMMA FlushCounts ==
  ASSUME TypeInv, TypeInv', NEW id \in Ids, NEW v \in Workers,
         NEW m \in MessagesOf(id), Flush(v, m), Token(id), CountedExactly(id)
  PROVE  CountedExactly(id)'
<1>1. /\ UNCHANGED <<apiWire, pc, job, sends, gaveUp>>
      /\ wire[v][m] > 0
      /\ \A n \in MessagesOf(id) :
           /\ ready'[n] = IF n = m THEN ready[n] + 1 ELSE ready[n]
           /\ \A w \in Workers : wire'[w][n] = IF w = v /\ n = m
                                               THEN wire[w][n] - 1 ELSE wire[w][n]
  BY DEF Flush, Add, Take, apiVars, handlerVars, historyVars, MessagesOf,
     TypeInv, TypeOK
<1>2. /\ InSocket(id)
      /\ id \notin gaveUp
      /\ \A t \in Slots : ~GivingUp(t, id)
  BY <1>1, TokenMeansUnused DEF InSocket
<1>3. /\ m.attempt = sends[id] + 1
      /\ \A t \in Slots : ~Active(t, id)
  BY <1>1, <1>2 DEF CountedExactly, Token, OneToken, InHandler
<1>4. \A t \in Slots : ~Active(t, id)' /\ ~GivingUp(t, id)'
  BY <1>1, <1>2, <1>3 DEF Active, GivingUp
<1>5. \A n \in MessagesOf(id) :
        ready'[n] > 0 \/ (\E w \in Workers : wire'[w][n] > 0)
          => n.attempt = sends'[id] + 1
  BY <1>1, <1>3, Counts DEF CountedExactly
<1> QED
  BY <1>1, <1>2, <1>4, <1>5 DEF CountedExactly, MessagesOf

\* The provider is called: it takes the notification, or refuses a try that is
\* counted, and the last one leads to giving up.
LEMMA SendCounts ==
  ASSUME TypeInv, TypeInv', NEW s \in Slots, NEW id \in Ids, job[s].id = id,
         SendAccepted(s) \/ SendRefused(s), Token(id), CountedExactly(id),
         NotTriedAgain(id)
  PROVE  CountedExactly(id)'
<1>1. /\ Active(s, id) /\ pc[s] = "send"
      /\ id \notin gaveUp
      /\ \A t \in Slots : ~GivingUp(t, id)
      /\ delivered[id] = 0
  <2>1. Active(s, id) /\ pc[s] = "send"
    BY DEF SendAccepted, SendRefused, Send, Active, ActiveSteps, UntriedSteps
  <2>2. delivered[id] = 0
    BY <2>1, Counts DEF NotTriedAgain
  <2> QED
    BY <2>1, <2>2, TokenMeansUnused DEF InHandler
<1>2. /\ id \notin apiWire
      /\ \A m \in MessagesOf(id) : /\ ready[m] = 0
                                   /\ \A w \in Workers : wire[w][m] = 0
      /\ \A t \in Slots : Active(t, id) => t = s
  BY <1>1, ActiveIsAlone DEF Token
<1>3. PICK taken, next :
        /\ Send(s, taken, next)
        /\ \/ next = "saveSent"
           \/ taken = 0 /\ next = AfterFailure(job[s].attempt)
  BY DEF SendAccepted, SendRefused
<1>4. /\ UNCHANGED <<apiWire, ready, wire, job, gaveUp>>
      /\ pc'[s] = next
      /\ \A t \in Slots : t # s => pc'[t] = pc[t]
      /\ sends'[id] = sends[id] + 1
      /\ delivered'[id] = delivered[id] + taken
  BY <1>3 DEF Send, Goto, apiVars, queueVars, TypeInv, TypeOK
<1>5. job[s].attempt \in Attempts /\ job[s].attempt = sends'[id]
  BY <1>1, <1>4, ActiveFacts DEF CountedExactly, UntriedSteps
<1>6. /\ next \in {"saveSent", "backoff", "saveFailed"}
      /\ next = "saveFailed" => job[s].attempt = MaxAttempts /\ taken = 0
  BY <1>3, <1>5, ParametersAssumption DEF AfterFailure, Attempts
<1>7. \A t \in Slots : /\ Active(t, id)' => t = s
                       /\ GivingUp(t, id)' => t = s
  BY <1>1, <1>2, <1>4 DEF Active, GivingUp
<1>8. next = "saveFailed" => UsedUp(id)'
  <2>1. next = "saveFailed" => \A t \in Slots : ~Active(t, id)'
    BY <1>4, <1>7 DEF Active, ActiveSteps, UntriedSteps
  <2> QED
    BY <1>1, <1>2, <1>4, <1>5, <1>6, <2>1 DEF UsedUp, InQueue, InSocket, InHandler,
       MessagesOf
<1>9. \A t \in Slots : Active(t, id)' =>
        /\ pc'[t] # "recover"
        /\ pc'[t] \notin UntriedSteps
        /\ pc'[t] = "backoff" => job'[t].attempt = sends'[id]
  BY <1>4, <1>5, <1>6, <1>7 DEF UntriedSteps
<1>10. \A t \in Slots : GivingUp(t, id)' => t = s /\ next = "saveFailed"
  BY <1>4, <1>7 DEF GivingUp
<1> QED
  BY <1>1, <1>2, <1>4, <1>8, <1>9, <1>10 DEF CountedExactly, MessagesOf

\* A retry names the try after the ones that were used.
LEMMA RetryCounts ==
  ASSUME TypeInv, TypeInv', NEW s \in Slots, Retry(s), NEW id \in Ids, Token(id),
         job[s].id = id, CountedExactly(id)
  PROVE  CountedExactly(id)'
<1> DEFINE retry == Message(id, job[s].attempt + 1)
<1>1. /\ pc[s] = "backoff" /\ Active(s, id)
      /\ job[s].attempt \in Attempts /\ job[s].attempt < MaxAttempts
      /\ job[s].attempt = sends[id]
  BY MessageFacts DEF Retry, Active, ActiveSteps, TypeInv, HandlersTyped,
     CountedExactly
<1>2. /\ retry \in MessagesOf(id)
      /\ retry.attempt = sends[id] + 1
  BY <1>1, MessageFacts, ParametersAssumption DEF Attempts, MessagesOf
<1>3. /\ UNCHANGED <<apiWire, ready, sends, gaveUp>>
      /\ job' = job /\ pc'[s] = "saveQueued"
      /\ \A t \in Slots : t # s => pc'[t] = pc[t]
      /\ \A w \in Workers, m \in MessagesOf(id) : m # retry => wire'[w][m] = wire[w][m]
  BY <1>2, SlotWorker DEF Retry, Goto, Add, apiVars, historyVars, MessagesOf,
     TypeInv, TypeOK
<1>4. /\ \A m \in MessagesOf(id) : /\ ready[m] = 0
                                   /\ \A w \in Workers : wire[w][m] = 0
      /\ \A t \in Slots : Active(t, id) => t = s
      /\ id \notin gaveUp
      /\ \A t \in Slots : ~GivingUp(t, id)
  BY <1>1, ActiveIsAlone, TokenMeansUnused DEF Token, InHandler
<1>5. \A t \in Slots : ~Active(t, id)' /\ ~GivingUp(t, id)'
  BY <1>3, <1>4 DEF Active, GivingUp, ActiveSteps, UntriedSteps
<1>6. \A m \in MessagesOf(id) : /\ ~(ready'[m] > 0)
                                /\ \A w \in Workers : wire'[w][m] > 0 => m = retry
  BY <1>3, <1>4
<1> QED
  BY <1>2, <1>3, <1>4, <1>5, <1>6 DEF CountedExactly, MessagesOf

\* The other steps of a handler whose notification has its record.
LEMMA OtherHandlerCounts ==
  ASSUME TypeInv, TypeInv', NEW s \in Slots, HandlerStep(s), ~AckThrows(s),
         \A e \in Events : ~Spend(e),
         NEW id \in Ids, job[s].id = id, pc[s] # "idle", CountedExactly(id),
         ~Missing(id),
         ~(SendAccepted(s) \/ SendRefused(s) \/ SendTimesOut(s)), ~Retry(s)
  PROVE  CountedExactly(id)'
<1>r. pc[s] # "recover"
  BY DEF CountedExactly, Active, ActiveSteps
<1>1. \/ Find(s) \/ Start(s) \/ SaveSent(s) \/ RetryThrows(s) \/ SaveRetry(s)
      \/ SaveGiveUp(s) \/ Ack(s) \/ AckArrives(s)
  BY <1>r DEF HandlerStep, FindThrows, StartThrows, SaveSentThrows, Recover,
     RecoverThrows, SaveRetryThrows, SaveGiveUpThrows, SaveFails, SaveThrows, Events
<1>2. /\ UNCHANGED <<apiWire, ready, wire, sends, delivered>>
      /\ \A t \in Slots : t # s => pc'[t] = pc[t] /\ job'[t] = job[t]
      /\ \/ pc'[s] \in {"ack", "acked", "idle"}
         \/ pc[s] \in UntriedSteps /\ pc'[s] \in UntriedSteps /\ job'[s] = job[s]
      /\ gaveUp' = IF SaveGiveUp(s) THEN gaveUp \union {id} ELSE gaveUp
  <2>1. CASE Find(s) \/ RetryThrows(s) \/ Ack(s) \/ AckArrives(s)
    <3>1. ~SaveGiveUp(s)
      BY <2>1 DEF Find, RetryThrows, Ack, AckArrives, SaveGiveUp
    <3> QED
      BY <2>1, <3>1 DEF Find, RetryThrows, Ack, AckArrives, Goto, apiVars, queueVars,
         historyVars, UntriedSteps, TypeInv, TypeOK
  <2>2. CASE Start(s) \/ SaveSent(s) \/ SaveRetry(s)
    <3>1. ~SaveGiveUp(s)
      BY <2>2 DEF Start, SaveSent, SaveRetry, SaveGiveUp
    <3> QED
      BY <2>2, <3>1 DEF Start, SaveSent, SaveRetry, Save, Goto, apiVars, queueVars,
         UntriedSteps, TypeInv, TypeOK
  <2>3. CASE SaveGiveUp(s)
    BY <2>3 DEF SaveGiveUp, Save, Goto, apiVars, queueVars, TypeInv, TypeOK
  <2> QED
    BY <1>1, <2>1, <2>2, <2>3
<1>3. NoNewToken(id)
  BY <1>2, Counts DEF NoNewToken, Active, ActiveSteps, UntriedSteps
<1>4. \A t \in Slots : Active(t, id)' => pc'[t] = pc[t] \/ pc'[t] \in UntriedSteps
  BY <1>2 DEF Active, ActiveSteps, UntriedSteps
<1>5. SaveGiveUp(s) => GivingUp(s, id)
  BY DEF SaveGiveUp, GivingUp
<1>6. \A t \in Slots : GivingUp(t, id)' => GivingUp(t, id) /\ t # s
  BY <1>2 DEF GivingUp, UntriedSteps
<1>7. \A t \in Slots : GivingUp(t, id)' => GivingUp(t, id) /\ id \notin gaveUp'
  BY <1>2, <1>5, <1>6 DEF CountedExactly
<1>8. id \in gaveUp' => UsedUp(id)
  BY <1>2, <1>5 DEF CountedExactly
<1> QED
  BY <1>2, <1>3, <1>4, <1>7, <1>8, CountsAsBefore

LEMMA QuietStep == QuietBase /\ [Next]_vars => QuietInv'
<1> SUFFICES ASSUME QuietBase, [Next]_vars, Without(Events)', NEW id \in Ids
             PROVE  GoesWell(id)' /\ CountedExactly(id)'
  BY DEF QuietInv
<1>q. /\ \A e \in Events : ~Spend(e)
      /\ TypeInv /\ TypeInv' /\ Calm /\ Undisturbed' /\ NothingBeforePublish
      /\ Token(id) /\ NotTriedAgain(id) /\ GoesWell(id) /\ CountedExactly(id)
  BY QuietSteps DEF QuietBase, CountInv, Token
<1>1. CASE ~Concerns(id)
  <2>1. /\ NoNewToken(id)
        /\ \A s \in Slots : pc'[s] # "idle" /\ job'[s].id = id
                             => pc'[s] = pc[s] /\ job'[s] = job[s]
        /\ sends'[id] = sends[id]
        /\ delivered'[id] = delivered[id]
        /\ id \in gaveUp' => id \in gaveUp
    BY <1>1, <1>q, OtherSteps
  <2>2. \A s \in Slots : /\ Active(s, id)' => pc'[s] = pc[s]
                         /\ GivingUp(s, id)' => GivingUp(s, id) /\ id \notin gaveUp'
    BY <1>q, <2>1 DEF Active, ActiveSteps, UntriedSteps, GivingUp, CountedExactly
  <2>3. id \in gaveUp' => UsedUp(id)
    BY <1>q, <2>1 DEF CountedExactly
  <2> QED
    BY <1>q, <2>1, <2>2, <2>3, GoesWellStep, CountsAsBefore
<1>2. CASE Publish(id) \/ FlushApi(id)
  BY <1>2, <1>q, GoesWellStep, PublishCounts, FlushApiCounts
<1>3. ASSUME NEW s \in Slots, NEW m \in MessagesOf(id), Receive(s, m)
      PROVE  CountedExactly(id)'
  BY <1>3, <1>q, ReceiveCounts
<1>4. ASSUME NEW w \in Workers, NEW m \in MessagesOf(id), Flush(w, m)
      PROVE  CountedExactly(id)'
  BY <1>4, <1>q, FlushCounts
<1>5. ASSUME NEW s \in Slots, HandlerStep(s), pc[s] # "idle", job[s].id = id
      PROVE  CountedExactly(id)'
  <2>1. ~AckThrows(s)
    BY <1>q, SlotWorker DEF AckThrows, Calm
  <2>2. ~Missing(id)
    BY <1>5, <1>q, HandledHasRecord DEF Present, Handled
  <2>3. ~SendTimesOut(s)
    BY <1>q DEF SendTimesOut, Events
  <2>4. CASE SendAccepted(s) \/ SendRefused(s)
    BY <1>5, <1>q, <2>4, SendCounts
  <2>5. CASE Retry(s)
    BY <1>5, <1>q, <2>5, RetryCounts
  <2> QED
    BY <1>5, <1>q, <2>1, <2>2, <2>3, <2>4, <2>5, OtherHandlerCounts
<1> QED
  BY <1>1, <1>2, <1>3, <1>4, <1>5, GoesWellStep DEF Concerns

LEMMA BaseStep == QuietBase /\ [Next]_vars => QuietBase'
BY CountStep, SentStep, OnceStep, QuietStep DEF QuietBase, CountInv

LEMMA InitBase == Init => QuietBase
<1>1. Init => SentInv /\ OnceInv
  BY DEF Init, SentInv, SentMeansDelivered, DeliveredFirst, NoRecord, OnceInv,
     NotTriedAgain
<1>2. Init => QuietInv
  BY DEF Init, QuietInv, GoesWell, CountedExactly, Active, ActiveSteps,
     UntriedSteps, GivingUp, MessagesOf, NoneOf
<1> QED
  BY <1>1, <1>2, InitCount DEF QuietBase

-----------------------------------------------------------------------------
(* The pipeline implements RetryPolicy. *)

\* A step that changes neither the history of a notification nor whether it
\* was asked for leaves its phase.
LEMMA SamePhase ==
  ASSUME NEW id \in Ids, delivered'[id] = delivered[id],
         id \in gaveUp' <=> id \in gaveUp,
         request'[id] \in {"none", "500"} <=> request[id] \in {"none", "500"}
  PROVE  Phase(id)' = Phase(id)
BY DEF Phase

LEMMA InitPolicy == Init => Policy!Init
BY DEF Init, Policy!Init, Phase

\* Who is handled and neither delivered nor given up is open.
LEMMA HandledIsOpen ==
  ASSUME NothingBeforePublish, NEW id \in Ids, GoesWell(id), Present(id),
         delivered[id] = 0, id \notin gaveUp
  PROVE  Phase(id) = "open"
BY HandledHasRecord DEF Phase, GoesWell

LEMMA SendTries ==
  ASSUME QuietBase, [Next]_vars, Without(Events)', NEW s \in Slots,
         SendAccepted(s) \/ SendRefused(s)
  PROVE  Policy!Next
<1>t. pc[s] = "send" /\ job[s].id \in Ids /\ TypeInv
  BY MessageFacts DEF SendAccepted, SendRefused, Send, QuietBase, CountInv, TypeInv,
     HandlersTyped
<1>1. PICK id \in Ids : job[s].id = id /\ pc[s] = "send" /\ TypeInv
  BY <1>t
<1>2. /\ Active(s, id)
      /\ Token(id) /\ NotTriedAgain(id) /\ GoesWell(id) /\ CountedExactly(id)
  BY <1>1, QuietSteps DEF Active, ActiveSteps, UntriedSteps, Token
<1>3. /\ delivered[id] = 0
      /\ id \notin gaveUp
      /\ sends[id] < MaxAttempts
  <2>1. delivered[id] = 0
    BY <1>1, <1>2 DEF NotTriedAgain, TypeInv, TypeOK
  <2>2. job[s].attempt \in Attempts /\ sends[id] < job[s].attempt
    BY <1>1, <1>2, ActiveFacts DEF Token, TriedInOrder, UntriedSteps
  <2> QED
    BY <1>1, <1>2, <2>1, <2>2, TokenMeansUnused, ParametersAssumption
       DEF InHandler, TypeInv, TypeOK, Attempts
<1>4. Phase(id) = "open"
  BY <1>1, <1>2, <1>3, ActiveFacts, HandledIsOpen DEF QuietBase, CountInv, Present
<1>5. PICK taken \in {0, 1} : \E next : Send(s, taken, next)
  BY DEF SendAccepted, SendRefused
<1>6. /\ UNCHANGED <<request, gaveUp>>
      /\ sends' = [sends EXCEPT ![id] = @ + 1]
      /\ delivered'[id] = taken
      /\ \A other \in Ids : other # id => delivered'[other] = delivered[other]
  BY <1>1, <1>3, <1>5 DEF Send, apiVars, TypeInv, TypeOK
<1>7. Phase(id)' = IF taken = 1 THEN "delivered" ELSE "open"
  BY <1>1, <1>3, <1>4, <1>6 DEF Phase
<1>8. \A other \in Ids : other # id => Phase(other)' = Phase(other)
  BY <1>6, SamePhase
<1>9. \E outcome \in {"open", "delivered"} : Policy!Try(id, outcome)
  BY <1>1, <1>3, <1>4, <1>6, <1>7, <1>8 DEF Policy!Try
<1> QED
  BY <1>1, <1>9 DEF Policy!Next, Policy!Resolve

LEMMA PolicyStep ==
  QuietBase /\ [Next]_vars /\ Without(Events)' => [Policy!Next]_(Policy!policyVars)
<1> SUFFICES ASSUME QuietBase, [Next]_vars, Without(Events)'
             PROVE  Policy!Next \/ UNCHANGED Policy!policyVars
  OBVIOUS
<1>q. /\ \A e \in Events : ~Spend(e)
      /\ TypeInv /\ TypeInv' /\ Calm /\ NothingBeforePublish
      /\ \A id \in Ids : GoesWell(id) /\ CountedExactly(id)
  BY QuietSteps DEF QuietBase, CountInv
<1>s. ASSUME UNCHANGED historyVars,
             \A id \in Ids : request'[id] \in {"none", "500"}
                               <=> request[id] \in {"none", "500"}
      PROVE  UNCHANGED Policy!policyVars
  <2>1. \A id \in Ids : Phase(id)' = Phase(id)
    BY <1>s, SamePhase DEF historyVars
  <2> QED
    BY <1>s, <2>1 DEF Policy!policyVars, historyVars
<1>1. ASSUME NEW id \in Ids, Create(id) PROVE Policy!Next
  <2>1. /\ request[id] = "none" /\ request'[id] = "publish"
        /\ \A other \in Ids : other # id => request'[other] = request[other]
        /\ UNCHANGED <<sends, delivered, gaveUp>>
    BY <1>1, <1>q DEF Create, historyVars, TypeInv, TypeOK
  <2>2. id \notin gaveUp /\ delivered[id] = 0
    BY <1>q, <2>1 DEF NothingBeforePublish
  <2>3. Phase(id) = "none" /\ Phase(id)' = "open"
    BY <2>1, <2>2 DEF Phase
  <2>4. \A other \in Ids : other # id => Phase(other)' = Phase(other)
    BY <2>1, SamePhase
  <2> QED
    BY <2>1, <2>3, <2>4 DEF Policy!Next, Policy!Accept
<1>2. ASSUME NEW id \in Ids, ClientStep(id) \/ RequestStep(id), ~Create(id)
      PROVE  UNCHANGED Policy!policyVars
  <2>1. Publish(id) \/ SaveQueued(id)
    BY <1>2, <1>q DEF ClientStep, RequestStep, CreateFails, Delete, PublishThrows,
       SaveQueuedThrows, SaveFailed, SaveFailedThrows, SaveStatus,
       SaveStatusThrows, SaveThrows, GoesWell, Events
  <2>2. /\ UNCHANGED historyVars
        /\ request[id] \in {"publish", "saveQueued"}
        /\ request'[id] \in {"saveQueued", "201"}
        /\ \A other \in Ids : other # id => request'[other] = request[other]
    BY <1>q, <2>1 DEF Publish, SaveQueued, SaveStatus, TypeInv, TypeOK
  <2> QED
    BY <1>s, <2>2
<1>3. ASSUME NEW s \in Slots, SaveGiveUp(s) PROVE Policy!Next
  <2>t. pc[s] = "saveFailed" /\ job[s].id \in Ids
    BY <1>3, <1>q, MessageFacts DEF SaveGiveUp, TypeInv, HandlersTyped
  <2>1. PICK id \in Ids : job[s].id = id /\ pc[s] = "saveFailed"
    BY <2>t
  <2>2. /\ sends[id] = MaxAttempts /\ delivered[id] = 0
        /\ id \notin gaveUp
    BY <1>q, <2>1 DEF CountedExactly, GivingUp, UsedUp
  <2>3. Phase(id) = "open"
    BY <1>q, <2>1, <2>2, HandledIsOpen DEF Present, Handled
  <2>4. /\ UNCHANGED <<request, sends, delivered>>
        /\ gaveUp' = gaveUp \union {id}
    BY <1>3, <2>1 DEF SaveGiveUp, Save, apiVars
  <2>5. Phase(id)' = "gaveUp"
    BY <2>4 DEF Phase
  <2>6. \A other \in Ids : other # id => Phase(other)' = Phase(other)
    BY <2>4, SamePhase
  <2> QED
    BY <2>1, <2>2, <2>3, <2>4, <2>5, <2>6 DEF Policy!Next, Policy!Resolve,
       Policy!GiveUp
<1>4. ASSUME NEW s \in Slots, HandlerStep(s), ~SaveGiveUp(s),
             ~(SendAccepted(s) \/ SendRefused(s))
      PROVE  UNCHANGED Policy!policyVars
  <2>1. ~SendTimesOut(s) /\ ~AckThrows(s)
    BY <1>q, SlotWorker DEF SendTimesOut, AckThrows, Calm, Events
  <2>2. UNCHANGED historyVars
    BY <1>4, <2>1 DEF HandlerStep, Find, FindThrows, Start, StartThrows, SaveSent,
       SaveSentThrows, Recover, RecoverThrows, Retry, RetryThrows, SaveRetry,
       SaveRetryThrows, SaveGiveUpThrows, Save, SaveFails, Ack, AckArrives,
       historyVars
  <2>3. UNCHANGED request
    BY <1>4, <2>1, HandlerGoes DEF apiVars, AckArrives
  <2> QED
    BY <1>s, <2>2, <2>3
<1>5. CASE UNCHANGED <<request, historyVars>>
  BY <1>s, <1>5
<1>6. \/ \E id \in Ids : ClientStep(id) \/ RequestStep(id)
      \/ \E s \in Slots : HandlerStep(s)
      \/ UNCHANGED <<request, historyVars>>
  BY <1>q DEF Next, FlushApi, LoseApiWire, CrashApi, Consume, Receive, CrashWorker,
     Restart, FlushWorker, Flush, DropConnection, Reconnect, ShutDown,
     ShutDownStep, CloseArrives, Exit, Dies, apiVars, Events, vars
<1> QED
  BY <1>1, <1>2, <1>3, <1>4, <1>5, <1>6, SendTries

\* As long as nothing fails the pipeline implements the safety part of
\* RetryPolicy: tries in order, none after a delivery, all of them before a
\* notification is given up (createAndQueue, processNotification, handleFailure).
THEOREM KeepsPolicySafely == Safe /\ []Without(Events) => Policy!Safe
<1>1. QuietBase /\ [Next]_vars /\ Without(Events)' => [Policy!Next]_(Policy!policyVars)
  BY PolicyStep
<1> QED
  BY InitBase, InitPolicy, BaseStep, <1>1, PTL DEF Safe, Policy!Safe
=============================================================================
