------------------------ MODULE DeliverySafetyProofs ------------------------
(***************************************************************************)
(* Promises of Delivery that hold whatever workers and connections break,  *)
(* for every value of its constants: variables keep their types, a record  *)
(* says "sent" only after a delivery, who was told that a notification     *)
(* could not be queued never sees it delivered, and what was published is  *)
(* never lost (the inductive invariant is LossInv).                        *)
(***************************************************************************)
EXTENDS DeliveryInvariant, FiniteSetTheorems, TLAPS

\* Messages are the records Message builds; their fields have their ranges.
LEMMA MessageFacts ==
  /\ \A id \in Ids, a \in Attempts : /\ Message(id, a) \in Messages
                                     /\ Message(id, a).id = id
                                     /\ Message(id, a).attempt = a
  /\ \A m \in Messages : /\ m.id \in Ids
                         /\ m.attempt \in Attempts
                         /\ m = Message(m.id, m.attempt)
BY DEF Message, Messages

\* Every slot belongs to a worker.
LEMMA SlotWorker == \A s \in Slots : WorkerOf(s) \in Workers
BY DEF Slots, WorkerOf

\* A worker has finitely many slots, so what it holds can be counted.
LEMMA UnackedFinite ==
  ASSUME NEW w \in Workers, NEW m
  PROVE  /\ IsFiniteSet({s \in SlotsOf(w) : pc[s] # "idle" /\ job[s] = m})
         /\ Unacked(w, m) \in Nat
<1> DEFINE held == {s \in SlotsOf(w) : pc[s] # "idle" /\ job[s] = m}
<1>1. IsFiniteSet(1..Prefetch)
  BY FS_Interval, ParametersAssumption
<1>2. IsFiniteSet(Slots)
  BY <1>1, FS_Product, ParametersAssumption DEF Slots
<1>3. held \subseteq Slots
  BY DEF SlotsOf
<1>4. IsFiniteSet(held)
  BY <1>2, <1>3, FS_Subset
<1>5. Cardinality(held) \in Nat
  BY <1>4, FS_CardinalityType
<1> QED
  BY <1>4, <1>5 DEF Unacked

\* The broker takes back every message a handler of the worker holds.
LEMMA RequeuedHolds ==
  ASSUME NEW w \in Workers, NEW m \in Messages, ready[m] \in Nat
  PROVE  /\ Requeued(w)[m] \in Nat
         /\ ready[m] > 0 => Requeued(w)[m] > 0
         /\ \A s \in Slots : WorkerOf(s) = w /\ pc[s] # "idle" /\ job[s] = m
                              => Requeued(w)[m] > 0
<1> DEFINE held == {s \in SlotsOf(w) : pc[s] # "idle" /\ job[s] = m}
<1>1. /\ IsFiniteSet(held)
      /\ Unacked(w, m) \in Nat
  BY UnackedFinite
<1>2. Requeued(w)[m] = ready[m] + Unacked(w, m)
  BY DEF Requeued
<1>3. ASSUME NEW s \in Slots, WorkerOf(s) = w, pc[s] # "idle", job[s] = m
      PROVE  Unacked(w, m) > 0
  <2>1. held # {}
    BY <1>3 DEF SlotsOf
  <2>2. Cardinality(held) # 0
    BY <1>1, <2>1, FS_EmptySet
  <2> QED
    BY <1>1, <2>2 DEF Unacked
<1>4. ready[m] + Unacked(w, m) \in Nat
  BY <1>1
<1>5. ready[m] > 0 => ready[m] + Unacked(w, m) > 0
  BY <1>1
<1>6. Unacked(w, m) > 0 => ready[m] + Unacked(w, m) > 0
  BY <1>1
<1> QED
  BY <1>2, <1>3, <1>4, <1>5, <1>6

LEMMA InitType == Init => TypeInv
<1> SUFFICES ASSUME Init PROVE TypeInv
  OBVIOUS
<1>1. NoRecord \in Documents
  BY ParametersAssumption DEF NoRecord, Documents, Statuses
<1>2. NoneOf \in [Messages -> Nat]
  BY DEF NoneOf
<1> QED
  BY <1>1, <1>2 DEF Init, TypeInv, TypeOK, HandlersTyped, RequestStates,
     WorkerStates, HandlerStates

\* Where a handler may go after a failed attempt.
LEMMA AfterFailureFacts ==
  ASSUME NEW a \in Attempts
  PROVE  /\ AfterFailure(a) \in {"backoff", "saveFailed"}
         /\ AfterFailure(a) = "backoff" => a < MaxAttempts
BY DEF AfterFailure

\* A handler that moves on to another step keeps the handlers well typed.
LEMMA GotoTyped ==
  ASSUME TypeInv, NEW s \in Slots, pc[s] # "idle",
         NEW step \in HandlerStates \ {"idle"}, NEW record \in Documents,
         step = "backoff" => job[s].attempt < MaxAttempts,
         Goto(s, step, record)
  PROVE  /\ pc' \in [Slots -> HandlerStates]
         /\ job' \in [Slots -> Messages \union {NoMessage}]
         /\ seen' \in [Slots -> Documents]
         /\ HandlersTyped'
BY DEF TypeInv, TypeOK, HandlersTyped, Goto

\* What a save writes is a record again.
LEMMA MergeTyped ==
  ASSUME NEW current \in Documents, NEW loaded \in Documents,
         NEW new \in Documents
  PROVE  Merge(current, loaded, new) \in Documents
BY DEF Merge, Documents

LEMMA NoRecordTyped == NoRecord \in Documents
BY ParametersAssumption DEF NoRecord, Documents, Statuses

\* A save that succeeds, and one that throws, keep the types.
LEMMA SaveTyped ==
  ASSUME TypeInv, NEW s \in Slots, pc[s] # "idle", NEW new \in Documents,
         NEW next \in HandlerStates \ {"idle", "backoff"},
         Save(s, new, next), gaveUp' \subseteq Ids
  PROVE  TypeInv'
<1>1. job[s].id \in Ids
  BY MessageFacts DEF TypeInv, HandlersTyped
<1>2. Merge(store[job[s].id], seen[s], new) \in Documents
  BY <1>1, MergeTyped DEF TypeInv, TypeOK
<1>3. store' \in [Ids -> Documents]
  BY <1>1, <1>2 DEF Save, TypeInv, TypeOK
<1>4. (IF next = "ack" THEN NoRecord ELSE new) \in Documents
  BY NoRecordTyped
<1>5. Goto(s, next, IF next = "ack" THEN NoRecord ELSE new)
  BY DEF Save
<1>6. /\ pc' \in [Slots -> HandlerStates]
      /\ job' \in [Slots -> Messages \union {NoMessage}]
      /\ seen' \in [Slots -> Documents]
      /\ HandlersTyped'
  BY <1>4, <1>5, GotoTyped
<1> QED
  BY <1>3, <1>6 DEF Save, apiVars, queueVars, TypeInv, TypeOK

LEMMA SpentTyped ==
  ASSUME spent \in [Events -> Nat], NEW e \in Events,
         Spend(e) \/ UNCHANGED spent
  PROVE  spent' \in [Events -> Nat]
BY DEF Spend

LEMMA SaveFailsTyped ==
  ASSUME TypeInv, NEW s \in Slots, pc[s] # "idle",
         NEW next \in HandlerStates \ {"idle", "backoff"}, SaveFails(s, next)
  PROVE  TypeInv'
<1>1. /\ pc' \in [Slots -> HandlerStates]
      /\ job' \in [Slots -> Messages \union {NoMessage}]
      /\ seen' \in [Slots -> Documents]
      /\ HandlersTyped'
  BY GotoTyped, NoRecordTyped DEF SaveFails
<1>2. "db" \in Events
  BY DEF Events
<1>3. spent' \in [Events -> Nat]
  BY <1>2, SpentTyped DEF SaveFails, SaveThrows, TypeInv, TypeOK
<1> QED
  BY <1>1, <1>3 DEF SaveFails, apiVars, queueVars, historyVars, TypeInv, TypeOK

LEMMA SendTyped ==
  ASSUME TypeInv, NEW s \in Slots, NEW taken \in {0, 1},
         NEW next \in HandlerStates \ {"idle"},
         next = "backoff" => job[s].attempt < MaxAttempts,
         Send(s, taken, next), spent' \in [Events -> Nat]
  PROVE  TypeInv'
<1>1. job[s].id \in Ids
  BY MessageFacts DEF Send, TypeInv, HandlersTyped
<1>2. seen[s] \in Documents
  BY DEF TypeInv, TypeOK
<1>3. /\ pc' \in [Slots -> HandlerStates]
      /\ job' \in [Slots -> Messages \union {NoMessage}]
      /\ seen' \in [Slots -> Documents]
      /\ HandlersTyped'
  BY <1>2, GotoTyped DEF Send
<1>4. /\ sends' \in [Ids -> Nat]
      /\ delivered' \in [Ids -> Nat]
  BY <1>1 DEF Send, TypeInv, TypeOK
<1> QED
  BY <1>3, <1>4 DEF Send, apiVars, queueVars, TypeInv, TypeOK

\* A worker process that dies, by a crash or by an ack that throws.
LEMMA DiesTyped ==
  ASSUME TypeInv, NEW w \in Workers, Dies(w), spent' \in [Events -> Nat]
  PROVE  TypeInv'
<1>1. Requeued(w) \in [Messages -> Nat]
  BY RequeuedHolds DEF Requeued, TypeInv, TypeOK
<1>2. NoneOf \in [Messages -> Nat]
  BY DEF NoneOf
<1>3. /\ ready' \in [Messages -> Nat]
      /\ wire' \in [Workers -> [Messages -> Nat]]
      /\ worker' \in [Workers -> WorkerStates]
  BY <1>1, <1>2 DEF Dies, TypeInv, TypeOK, WorkerStates
<1>4. /\ pc' \in [Slots -> HandlerStates]
      /\ job' \in [Slots -> Messages \union {NoMessage}]
      /\ seen' \in [Slots -> Documents]
  BY NoRecordTyped DEF Dies, TypeInv, TypeOK, HandlerStates
<1>5. HandlersTyped'
  BY DEF Dies, TypeInv, HandlersTyped
<1> QED
  BY <1>3, <1>4, <1>5 DEF Dies, apiVars, historyVars, TypeInv, TypeOK

\* Every step keeps the types: one step of the proof for every action.
LEMMA TypeStep == TypeInv /\ [Next]_vars => TypeInv'
<1> SUFFICES ASSUME TypeInv, [Next]_vars PROVE TypeInv'
  OBVIOUS
<1>a. /\ "db" \in Events /\ "apiDrop" \in Events /\ "apiCrash" \in Events
      /\ "delete" \in Events /\ "crash" \in Events /\ "drop" \in Events
      /\ "ambiguous" \in Events /\ "shutdown" \in Events
  BY DEF Events
<1>b. spent \in [Events -> Nat]
  BY DEF TypeInv, TypeOK
<1>c. "sent" \in Statuses /\ "queued" \in Statuses /\ "failed" \in Statuses
      /\ "processing" \in Statuses
  BY DEF Statuses
<1>1. ASSUME NEW id \in Ids, ClientStep(id) PROVE TypeInv'
  <2>1. CASE Create(id)
    BY <2>1, ParametersAssumption DEF Create, TypeInv, TypeOK, HandlersTyped,
       RequestStates, Documents, Statuses, queueVars, handlerVars, historyVars
  <2>2. CASE CreateFails(id)
    BY <1>a, <1>b, <2>2, SpentTyped DEF CreateFails, TypeInv, TypeOK,
       HandlersTyped, RequestStates, queueVars, handlerVars, historyVars
  <2>3. CASE Delete(id)
    BY <1>a, <1>b, <2>3, SpentTyped, NoRecordTyped DEF Delete, TypeInv, TypeOK,
       HandlersTyped, apiVars, queueVars, handlerVars, historyVars
  <2> QED
    BY <1>1, <2>1, <2>2, <2>3 DEF ClientStep
<1>2. ASSUME NEW id \in Ids, RequestStep(id) PROVE TypeInv'
  <2>1. CASE Publish(id)
    BY <2>1 DEF Publish, TypeInv, TypeOK, HandlersTyped, RequestStates,
       queueVars, handlerVars, historyVars
  <2>2. CASE PublishThrows(id)
    BY <1>a, <1>b, <2>2, SpentTyped DEF PublishThrows, TypeInv, TypeOK,
       HandlersTyped, RequestStates, queueVars, handlerVars, historyVars
  <2>3. CASE SaveQueued(id) \/ SaveFailed(id)
    <3>1. store[id] \in Documents
      BY DEF TypeInv, TypeOK
    <3>2. \A status \in Statuses :
            [store[id] EXCEPT !.status = status] \in Documents
      BY <3>1 DEF Documents
    <3>3. PICK status \in Statuses :
            store' = [store EXCEPT ![id] = [store[id] EXCEPT !.status = status]]
      BY <1>c, <2>3 DEF SaveQueued, SaveFailed, SaveStatus
    <3>4. store' \in [Ids -> Documents]
      BY <3>2, <3>3 DEF TypeInv, TypeOK
    <3> QED
      BY <2>3, <3>4 DEF SaveQueued, SaveFailed, SaveStatus, TypeInv, TypeOK,
         HandlersTyped, RequestStates, queueVars, handlerVars, historyVars
  <2>4. CASE SaveQueuedThrows(id) \/ SaveFailedThrows(id)
    BY <1>a, <1>b, <2>4, SpentTyped DEF SaveQueuedThrows, SaveFailedThrows,
       SaveStatusThrows, SaveThrows, TypeInv, TypeOK, HandlersTyped,
       RequestStates, queueVars, handlerVars, historyVars
  <2> QED
    BY <1>2, <2>1, <2>2, <2>3, <2>4 DEF RequestStep
<1>3. ASSUME NEW id \in Ids, FlushApi(id) PROVE TypeInv'
  <2>1. Message(id, 1) \in Messages
    BY MessageFacts, ParametersAssumption DEF Attempts
  <2> QED
    BY <1>3, <2>1 DEF FlushApi, Add, TypeInv, TypeOK, HandlersTyped,
       handlerVars, historyVars
<1>4. ASSUME NEW id \in Ids, LoseApiWire(id) \/ CrashApi(id) PROVE TypeInv'
  BY <1>a, <1>b, <1>4, SpentTyped DEF LoseApiWire, CrashApi, TypeInv, TypeOK,
     HandlersTyped, RequestStates, queueVars, handlerVars, historyVars
<1>5. ASSUME NEW s \in Slots, HandlerStep(s) PROVE TypeInv'
  <2>w. WorkerOf(s) \in Workers
    BY SlotWorker
  <2>j. pc[s] # "idle" => /\ job[s] \in Messages
                          /\ job[s].id \in Ids
                          /\ job[s].attempt \in Attempts
    BY MessageFacts DEF TypeInv, HandlersTyped
  <2>s. seen[s] \in Documents
    BY DEF TypeInv, TypeOK
  <2>f. ASSUME pc[s] # "idle"
        PROVE  /\ AfterFailure(job[s].attempt) \in HandlerStates \ {"idle"}
               /\ AfterFailure(job[s].attempt) = "backoff"
                    => job[s].attempt < MaxAttempts
    BY <2>f, <2>j, AfterFailureFacts DEF HandlerStates
  <2>1. CASE Find(s) \/ Recover(s)
    <3>1. pc[s] # "idle"
      BY <2>1 DEF Find, Recover
    <3>2. store[job[s].id] \in Documents
      BY <2>j, <3>1 DEF TypeInv, TypeOK
    <3>3. PICK step \in HandlerStates \ {"idle"}, record \in Documents :
            /\ step = "backoff" => job[s].attempt < MaxAttempts
            /\ Goto(s, step, record)
      BY <2>1, <2>f, <3>1, <3>2, NoRecordTyped DEF Find, Recover, HandlerStates
    <3>4. /\ pc' \in [Slots -> HandlerStates]
          /\ job' \in [Slots -> Messages \union {NoMessage}]
          /\ seen' \in [Slots -> Documents]
          /\ HandlersTyped'
      BY <3>1, <3>3, GotoTyped
    <3> QED
      BY <2>1, <3>4 DEF Find, Recover, TypeInv, TypeOK, apiVars, queueVars,
         historyVars
  <2>2. CASE FindThrows(s) \/ RecoverThrows(s) \/ RetryThrows(s) \/ Ack(s)
    <3>1. PICK step \in HandlerStates \ {"idle", "backoff"} :
            Goto(s, step, NoRecord)
      BY <2>2 DEF FindThrows, RecoverThrows, RetryThrows, Ack, HandlerStates
    <3>2. pc[s] # "idle"
      BY <2>2 DEF FindThrows, RecoverThrows, RetryThrows, Ack
    <3>3. /\ pc' \in [Slots -> HandlerStates]
          /\ job' \in [Slots -> Messages \union {NoMessage}]
          /\ seen' \in [Slots -> Documents]
          /\ HandlersTyped'
      BY <3>1, <3>2, GotoTyped, NoRecordTyped
    <3>4. spent' \in [Events -> Nat]
      BY <1>a, <1>b, <2>2, SpentTyped DEF FindThrows, RecoverThrows,
         RetryThrows, Ack
    <3> QED
      BY <2>2, <3>3, <3>4 DEF FindThrows, RecoverThrows, RetryThrows, Ack,
         TypeInv, TypeOK, apiVars, queueVars, historyVars
  <2>3. CASE Start(s)
    <3>1. [status |-> "processing", attempts |-> job[s].attempt] \in Documents
      BY <1>c, <2>j, <2>3, ParametersAssumption DEF Start, Documents, Attempts
    <3> QED
      BY <2>3, <3>1, SaveTyped DEF Start, HandlerStates, TypeInv, TypeOK
  <2>4. CASE SaveSent(s) \/ SaveRetry(s) \/ SaveGiveUp(s)
    <3>1. \A status \in Statuses :
            [seen[s] EXCEPT !.status = status] \in Documents
      BY <2>s DEF Documents
    <3>2. gaveUp' \subseteq Ids
      BY <2>4, <2>j DEF SaveSent, SaveRetry, SaveGiveUp, TypeInv, TypeOK
    <3> QED
      BY <1>c, <2>4, <3>1, <3>2, SaveTyped
         DEF SaveSent, SaveRetry, SaveGiveUp, HandlerStates
  <2>5. CASE StartThrows(s) \/ SaveSentThrows(s) \/ SaveRetryThrows(s)
             \/ SaveGiveUpThrows(s)
    BY <2>5, SaveFailsTyped DEF StartThrows, SaveSentThrows, SaveRetryThrows,
       SaveGiveUpThrows, HandlerStates
  <2>6. CASE SendAccepted(s) \/ SendRefused(s) \/ SendTimesOut(s)
    <3>1. pc[s] # "idle"
      BY <2>6 DEF SendAccepted, SendRefused, SendTimesOut, Send
    <3>2. spent' \in [Events -> Nat]
      BY <1>a, <1>b, <2>6, SpentTyped DEF SendAccepted, SendRefused,
         SendTimesOut
    <3> QED
      BY <2>6, <2>f, <3>1, <3>2, SendTyped DEF SendAccepted, SendRefused,
         SendTimesOut, HandlerStates
  <2>7. CASE Retry(s)
    <3>1. Message(job[s].id, job[s].attempt + 1) \in Messages
      <4>1. job[s].attempt + 1 \in Attempts
        BY <2>7, <2>j, ParametersAssumption
           DEF Retry, TypeInv, HandlersTyped, Attempts
      <4> QED
        BY <2>7, <2>j, <4>1, MessageFacts DEF Retry
    <3>2. wire' \in [Workers -> [Messages -> Nat]]
      BY <2>w, <2>7, <3>1 DEF Retry, Add, TypeInv, TypeOK
    <3>3. /\ pc' \in [Slots -> HandlerStates]
          /\ job' \in [Slots -> Messages \union {NoMessage}]
          /\ seen' \in [Slots -> Documents]
          /\ HandlersTyped'
      BY <2>7, <2>s, GotoTyped DEF Retry, HandlerStates
    <3> QED
      BY <2>7, <3>2, <3>3 DEF Retry, TypeInv, TypeOK, apiVars, historyVars
  <2>8. CASE AckThrows(s)
    BY <1>b, <2>w, <2>8, DiesTyped DEF AckThrows
  <2>9. CASE AckArrives(s)
    BY <2>9 DEF AckArrives, TypeInv, TypeOK, HandlersTyped, HandlerStates,
       apiVars, queueVars, historyVars
  <2> QED
    BY <1>5, <2>1, <2>2, <2>3, <2>4, <2>5, <2>6, <2>7, <2>8, <2>9
       DEF HandlerStep
<1>6. ASSUME Consume PROVE TypeInv'
  <2>1. PICK s \in Slots, m \in Messages : Receive(s, m)
    BY <1>6 DEF Consume
  <2>2. ready' \in [Messages -> Nat]
    BY <2>1 DEF Receive, Take, TypeInv, TypeOK
  <2> QED
    BY <2>1, <2>2 DEF Receive, TypeInv, TypeOK, HandlersTyped, HandlerStates,
       apiVars, historyVars
<1>7. ASSUME NEW w \in Workers, CrashWorker(w) PROVE TypeInv'
  BY <1>a, <1>b, <1>7, SpentTyped, DiesTyped DEF CrashWorker
<1>8. ASSUME NEW w \in Workers, Restart(w) \/ Reconnect(w) PROVE TypeInv'
  BY <1>8 DEF Restart, Reconnect, TypeInv, TypeOK, HandlersTyped, WorkerStates,
     apiVars, queueVars, handlerVars, historyVars
<1>9. ASSUME NEW w \in Workers, FlushWorker(w) PROVE TypeInv'
  <2>1. PICK m \in Messages : Flush(w, m)
    BY <1>9 DEF FlushWorker
  <2>2. /\ ready' \in [Messages -> Nat]
        /\ wire' \in [Workers -> [Messages -> Nat]]
    BY <2>1 DEF Flush, Add, Take, TypeInv, TypeOK
  <2> QED
    BY <2>1, <2>2 DEF Flush, TypeInv, TypeOK, HandlersTyped, apiVars,
       handlerVars, historyVars
<1>10. ASSUME NEW w \in Workers, DropConnection(w) PROVE TypeInv'
  <2>1. Requeued(w) \in [Messages -> Nat]
    BY RequeuedHolds DEF Requeued, TypeInv, TypeOK
  <2>2. NoneOf \in [Messages -> Nat]
    BY DEF NoneOf
  <2>3. /\ ready' \in [Messages -> Nat]
        /\ wire' \in [Workers -> [Messages -> Nat]]
        /\ worker' \in [Workers -> WorkerStates]
    BY <1>10, <2>1, <2>2 DEF DropConnection, TypeInv, TypeOK, WorkerStates
  <2>4. /\ pc' \in [Slots -> HandlerStates]
        /\ job' \in [Slots -> Messages \union {NoMessage}]
        /\ HandlersTyped'
    BY <1>10 DEF DropConnection, TypeInv, TypeOK, HandlersTyped, HandlerStates
  <2>5. spent' \in [Events -> Nat]
    BY <1>a, <1>b, <1>10, SpentTyped DEF DropConnection
  <2> QED
    BY <1>10, <2>3, <2>4, <2>5 DEF DropConnection, TypeInv, TypeOK, apiVars,
       historyVars
<1>11. ASSUME NEW w \in Workers, ShutDown(w) PROVE TypeInv'
  BY <1>a, <1>b, <1>11, SpentTyped DEF ShutDown, TypeInv, TypeOK,
     HandlersTyped, apiVars, queueVars, handlerVars, historyVars
<1>12. ASSUME NEW w \in Workers, CloseArrives(w) PROVE TypeInv'
  <2>1. Requeued(w) \in [Messages -> Nat]
    BY RequeuedHolds DEF Requeued, TypeInv, TypeOK
  <2>2. /\ ready' \in [Messages -> Nat]
        /\ worker' \in [Workers -> WorkerStates]
    BY <1>12, <2>1 DEF CloseArrives, TypeInv, TypeOK, WorkerStates
  <2> QED
    BY <1>12, <2>2 DEF CloseArrives, TypeInv, TypeOK, HandlersTyped, apiVars,
       handlerVars, historyVars
<1>13. ASSUME NEW w \in Workers, Exit(w) PROVE TypeInv'
  BY <1>b, <1>13, DiesTyped DEF Exit
<1>14. CASE UNCHANGED vars
  BY <1>14 DEF vars, apiVars, queueVars, handlerVars, historyVars, TypeInv,
     TypeOK, HandlersTyped
<1> QED
  BY <1>1, <1>2, <1>3, <1>4, <1>5, <1>6, <1>7, <1>8, <1>9, <1>10, <1>11,
     <1>12, <1>13, <1>14 DEF Next, ShutDownStep

\* Every step counts at most one event, and counts never go back.
LEMMA EventsCount ==
  ASSUME TypeInv, [Next]_vars
  PROVE  \A e \in Events : spent[e] <= spent'[e]
<1>1. spent' = spent \/ \E e \in Events : Spend(e)
  <2>1. ASSUME NEW id \in Ids, \/ ClientStep(id) \/ RequestStep(id)
                              \/ FlushApi(id) \/ LoseApiWire(id) \/ CrashApi(id)
        PROVE  spent' = spent \/ \E e \in Events : Spend(e)
    BY <2>1 DEF ClientStep, RequestStep, Create, CreateFails, Delete, Publish,
       PublishThrows, SaveQueued, SaveFailed, SaveStatus, SaveQueuedThrows,
       SaveFailedThrows, SaveStatusThrows, SaveThrows, FlushApi, LoseApiWire,
       CrashApi, Events
  <2>2. ASSUME NEW s \in Slots, HandlerStep(s)
        PROVE  spent' = spent \/ \E e \in Events : Spend(e)
    BY <2>2 DEF HandlerStep, Find, FindThrows, Start, StartThrows, SendAccepted,
       SendRefused, SendTimesOut, SaveSent, SaveSentThrows, Recover,
       RecoverThrows, Retry, RetryThrows, SaveRetry, SaveRetryThrows,
       SaveGiveUp, SaveGiveUpThrows, Ack, AckThrows, AckArrives, Save,
       SaveFails, SaveThrows, Events
  <2>3. ASSUME NEW w \in Workers, \/ CrashWorker(w) \/ Restart(w)
                                  \/ FlushWorker(w) \/ DropConnection(w)
                                  \/ Reconnect(w) \/ ShutDown(w)
                                  \/ ShutDownStep(w)
        PROVE  spent' = spent \/ \E e \in Events : Spend(e)
    BY <2>3 DEF CrashWorker, Restart, FlushWorker, Flush, DropConnection,
       Reconnect, ShutDown, ShutDownStep, CloseArrives, Exit, Events
  <2>4. ASSUME Consume PROVE spent' = spent
    BY <2>4 DEF Consume, Receive
  <2> QED
    BY <2>1, <2>2, <2>3, <2>4 DEF Next, vars
<1> QED
  BY <1>1 DEF Spend, TypeInv, TypeOK

\* Every behaviour of the pipeline is well typed.
THEOREM TypeCorrect == Safe => []TypeOK
<1>1. TypeInv => TypeOK
  BY DEF TypeInv
<1> QED
  BY InitType, TypeStep, <1>1, PTL DEF Safe

-----------------------------------------------------------------------------
(* Records that say "sent". *)

\* A handler that moves on, to any step but the one that records "sent", and
\* leaves the records alone, keeps the invariant.
LEMMA GotoSent ==
  ASSUME TypeInv, SentInv, NEW s \in Slots, pc[s] # "idle", NEW step, NEW record,
         step # "saveSent", Goto(s, step, record), UNCHANGED <<store, delivered>>
  PROVE  SentInv'
BY DEF TypeInv, TypeOK, SentInv, SentMeansDelivered, DeliveredFirst, Goto

\* A merged record says "sent" only if the copy or the record did.
LEMMA MergeSent ==
  ASSUME NEW current, NEW loaded, NEW new,
         Merge(current, loaded, new).status = "sent"
  PROVE  current.status = "sent" \/ new.status = "sent"
BY DEF Merge

LEMMA SaveKeepsSent ==
  ASSUME TypeInv, SentInv, NEW s \in Slots, pc[s] # "idle", NEW new, NEW next,
         next # "saveSent", Save(s, new, next),
         new.status = "sent" => delivered[job[s].id] > 0
  PROVE  SentInv'
<1>1. job[s].id \in Ids
  BY MessageFacts DEF TypeInv, HandlersTyped
<1>2. UNCHANGED <<delivered, job>>
  BY DEF Save, Goto
<1>3. SentMeansDelivered'
  <2> SUFFICES ASSUME NEW id \in Ids, store'[id].status = "sent"
               PROVE  delivered'[id] > 0
    BY DEF SentMeansDelivered
  <2>1. CASE id = job[s].id
    <3>1. store'[id] = Merge(store[id], seen[s], new)
      BY <1>1, <2>1 DEF Save, TypeInv, TypeOK
    <3>2. store[id].status = "sent" \/ new.status = "sent"
      BY <3>1, MergeSent
    <3> QED
      BY <1>2, <2>1, <3>2 DEF SentInv, SentMeansDelivered
  <2>2. CASE id # job[s].id
    BY <1>1, <1>2, <2>2 DEF Save, TypeInv, TypeOK, SentInv, SentMeansDelivered
  <2> QED
    BY <2>1, <2>2
<1>4. DeliveredFirst'
  BY <1>2 DEF Save, Goto, TypeInv, TypeOK, SentInv, DeliveredFirst
<1> QED
  BY <1>3, <1>4 DEF SentInv

LEMMA SaveFailsKeepsSent ==
  ASSUME TypeInv, SentInv, NEW s \in Slots, pc[s] # "idle", NEW next,
         next # "saveSent", SaveFails(s, next)
  PROVE  SentInv'
BY GotoSent DEF SaveFails, historyVars

\* A call of the provider only adds deliveries, and the one that leads to
\* "saveSent" has added one.
LEMMA SendKeepsSent ==
  ASSUME TypeInv, SentInv, NEW s \in Slots, NEW taken \in {0, 1}, NEW next,
         Send(s, taken, next), next = "saveSent" => taken = 1
  PROVE  SentInv'
<1>1. job[s].id \in Ids
  BY MessageFacts DEF Send, TypeInv, HandlersTyped
<1>2. \A id \in Ids : delivered[id] > 0 => delivered'[id] > 0
  BY <1>1 DEF Send, TypeInv, TypeOK
<1>3. taken = 1 => delivered'[job[s].id] > 0
  BY <1>1 DEF Send, TypeInv, TypeOK
<1>4. SentMeansDelivered'
  BY <1>2 DEF Send, SentInv, SentMeansDelivered
<1>5. DeliveredFirst'
  <2> SUFFICES ASSUME NEW t \in Slots, pc'[t] = "saveSent"
               PROVE  delivered'[job[t].id] > 0
    BY DEF DeliveredFirst, Send, Goto
  <2>1. CASE t = s
    BY <1>3, <2>1 DEF Send, Goto, TypeInv, TypeOK
  <2>2. CASE t # s
    <3>1. pc[t] = "saveSent"
      BY <2>2 DEF Send, Goto, TypeInv, TypeOK
    <3>2. job[t].id \in Ids
      BY <3>1, MessageFacts DEF TypeInv, HandlersTyped
    <3> QED
      BY <1>2, <3>1, <3>2 DEF SentInv, DeliveredFirst
  <2> QED
    BY <2>1, <2>2
<1> QED
  BY <1>4, <1>5 DEF SentInv

LEMMA SentStep == TypeInv /\ SentInv /\ [Next]_vars => SentInv'
<1> SUFFICES ASSUME TypeInv, SentInv, [Next]_vars PROVE SentInv'
  OBVIOUS
<1>1. ASSUME NEW id \in Ids, ClientStep(id) PROVE SentInv'
  BY <1>1 DEF ClientStep, Create, CreateFails, Delete, NoRecord, apiVars,
     handlerVars, historyVars, TypeInv, TypeOK, SentInv, SentMeansDelivered,
     DeliveredFirst
<1>2. ASSUME NEW id \in Ids, RequestStep(id) PROVE SentInv'
  <2>1. CASE SaveQueued(id) \/ SaveFailed(id)
    <3>1. PICK status \in {"queued", "failed"} :
            store' = [store EXCEPT ![id] = [store[id] EXCEPT !.status = status]]
      BY <2>1 DEF SaveQueued, SaveFailed, SaveStatus
    <3>2. \A other \in Ids : \/ store'[other].status \in {"queued", "failed"}
                             \/ store'[other] = store[other]
      BY <3>1 DEF TypeInv, TypeOK, Documents
    <3> QED
      BY <2>1, <3>2 DEF SaveQueued, SaveFailed, SaveStatus, handlerVars,
         historyVars, SentInv, SentMeansDelivered, DeliveredFirst
  <2>2. CASE UNCHANGED <<store, handlerVars, historyVars>>
    BY <2>2 DEF handlerVars, historyVars, SentInv, SentMeansDelivered,
       DeliveredFirst
  <2> QED
    BY <1>2, <2>1, <2>2 DEF RequestStep, Publish, PublishThrows,
       SaveQueuedThrows, SaveFailedThrows, SaveStatusThrows
<1>3. ASSUME NEW s \in Slots, HandlerStep(s) PROVE SentInv'
  <2>1. CASE Find(s) \/ Recover(s)
    <3>1. pc[s] # "idle"
      BY <2>1 DEF Find, Recover
    <3>2. \A a : AfterFailure(a) # "saveSent"
      BY DEF AfterFailure
    <3>3. \E step, record : step # "saveSent" /\ Goto(s, step, record)
      BY <2>1, <3>2 DEF Find, Recover
    <3> QED
      BY <2>1, <3>1, <3>3, GotoSent DEF Find, Recover, historyVars
  <2>2. CASE FindThrows(s) \/ RecoverThrows(s) \/ Retry(s) \/ RetryThrows(s)
             \/ Ack(s)
    <3>1. \E step, record : step # "saveSent" /\ Goto(s, step, record)
      BY <2>2 DEF FindThrows, RecoverThrows, Retry, RetryThrows, Ack
    <3>2. pc[s] # "idle" /\ UNCHANGED <<store, delivered>>
      BY <2>2 DEF FindThrows, RecoverThrows, Retry, RetryThrows, Ack,
         historyVars
    <3> QED
      BY <3>1, <3>2, GotoSent
  <2>3. CASE Start(s)
    BY <2>3, SaveKeepsSent DEF Start
  <2>4. CASE SaveRetry(s) \/ SaveGiveUp(s)
    <3>1. \A status : [seen[s] EXCEPT !.status = status].status = status
      BY DEF TypeInv, TypeOK, Documents
    <3> QED
      BY <2>4, <3>1, SaveKeepsSent DEF SaveRetry, SaveGiveUp
  <2>5. CASE SaveSent(s)
    <3>1. delivered[job[s].id] > 0
      BY <2>5 DEF SaveSent, SentInv, DeliveredFirst
    <3> QED
      BY <2>5, <3>1, SaveKeepsSent DEF SaveSent
  <2>6. CASE StartThrows(s) \/ SaveSentThrows(s) \/ SaveRetryThrows(s)
             \/ SaveGiveUpThrows(s)
    BY <2>6, SaveFailsKeepsSent DEF StartThrows, SaveSentThrows,
       SaveRetryThrows, SaveGiveUpThrows
  <2>7. CASE SendAccepted(s) \/ SendRefused(s) \/ SendTimesOut(s)
    <3>1. \A a : AfterFailure(a) # "saveSent"
      BY DEF AfterFailure
    <3> QED
      BY <2>7, <3>1, SendKeepsSent DEF SendAccepted, SendRefused, SendTimesOut
  <2>8. CASE AckThrows(s)
    BY <2>8 DEF AckThrows, Dies, historyVars, SentInv, SentMeansDelivered,
       DeliveredFirst
  <2>9. CASE AckArrives(s)
    BY <2>9 DEF AckArrives, historyVars, TypeInv, TypeOK, SentInv,
       SentMeansDelivered, DeliveredFirst
  <2> QED
    BY <1>3, <2>1, <2>2, <2>3, <2>4, <2>5, <2>6, <2>7, <2>8, <2>9
       DEF HandlerStep
<1>4. ASSUME Consume PROVE SentInv'
  BY <1>4 DEF Consume, Receive, historyVars, TypeInv, TypeOK, SentInv,
     SentMeansDelivered, DeliveredFirst
<1>5. ASSUME NEW w \in Workers,
             CrashWorker(w) \/ DropConnection(w) \/ Exit(w)
      PROVE  SentInv'
  BY <1>5 DEF CrashWorker, DropConnection, Exit, Dies, historyVars, SentInv,
     SentMeansDelivered, DeliveredFirst
<1>6. CASE UNCHANGED <<store, handlerVars, historyVars>>
  BY <1>6 DEF handlerVars, historyVars, SentInv, SentMeansDelivered,
     DeliveredFirst
<1> QED
  BY <1>1, <1>2, <1>3, <1>4, <1>5, <1>6 DEF Next, FlushApi, LoseApiWire,
     CrashApi, FlushWorker, Flush, Restart, Reconnect, ShutDown, ShutDownStep,
     CloseArrives, vars

\* A record says "sent" only if the provider took the notification, in every
\* behaviour with any number of failures (processNotification, save).
THEOREM SentIsDelivered == Safe => []SentMeansDelivered
<1>1. Init => SentInv
  BY DEF Init, SentInv, SentMeansDelivered, DeliveredFirst, NoRecord
<1>2. SentInv => SentMeansDelivered
  BY DEF SentInv
<1> QED
  BY InitType, TypeStep, SentStep, <1>1, <1>2, PTL DEF Safe
-----------------------------------------------------------------------------
(* Notifications that were refused.  What exists of a notification exists  *)
(* from the publishing of its first message on.                            *)

\* What a handler does besides reading the ack or ending its process: it moves
\* on, and only a retry writes a message.
LEMMA HandlerGoes ==
  ASSUME NEW s \in Slots, HandlerStep(s), ~AckArrives(s), ~AckThrows(s)
  PROVE  /\ pc[s] # "idle"
         /\ \E step, record : step # "idle" /\ Goto(s, step, record)
         /\ UNCHANGED <<apiVars, ready, worker, closing>>
         /\ Retry(s) \/ UNCHANGED wire
<1>1. CASE \/ Find(s) \/ FindThrows(s) \/ Recover(s) \/ RecoverThrows(s)
           \/ RetryThrows(s) \/ Ack(s)
  <2>1. \A a : AfterFailure(a) # "idle"
    BY DEF AfterFailure
  <2> QED
    BY <1>1, <2>1 DEF Find, FindThrows, Recover, RecoverThrows, RetryThrows,
       Ack, queueVars
<1>2. CASE \/ Start(s) \/ SaveSent(s) \/ SaveRetry(s) \/ SaveGiveUp(s)
  <2>1. \E new, next : Save(s, new, next) /\ next \in {"send", "ack"}
    BY <1>2 DEF Start, SaveSent, SaveRetry, SaveGiveUp
  <2>2. pc[s] # "idle"
    BY <1>2 DEF Start, SaveSent, SaveRetry, SaveGiveUp
  <2> QED
    BY <2>1, <2>2 DEF Save, queueVars
<1>3. CASE \/ StartThrows(s) \/ SaveSentThrows(s) \/ SaveRetryThrows(s)
           \/ SaveGiveUpThrows(s)
  BY <1>3 DEF StartThrows, SaveSentThrows, SaveRetryThrows, SaveGiveUpThrows,
     SaveFails, queueVars
<1>4. CASE SendAccepted(s) \/ SendRefused(s) \/ SendTimesOut(s)
  <2>1. \A a : AfterFailure(a) # "idle"
    BY DEF AfterFailure
  <2> QED
    BY <1>4, <2>1 DEF SendAccepted, SendRefused, SendTimesOut, Send, queueVars
<1>5. CASE Retry(s)
  BY <1>5 DEF Retry
<1> QED
  BY <1>1, <1>2, <1>3, <1>4, <1>5 DEF HandlerStep

\* The API touches the queue only when it flushes, and nothing of the workers.
LEMMA ApiFrame ==
  ASSUME NEW id \in Ids,
         ClientStep(id) \/ RequestStep(id) \/ LoseApiWire(id) \/ CrashApi(id)
  PROVE  /\ UNCHANGED <<queueVars, worker, closing, handlerVars, historyVars>>
         /\ Publish(id) \/ (apiWire' \subseteq apiWire /\ published' = published)
BY DEF ClientStep, RequestStep, Create, CreateFails, Delete, Publish,
   PublishThrows, SaveQueued, SaveFailed, SaveStatus, SaveQueuedThrows,
   SaveFailedThrows, SaveStatusThrows, LoseApiWire, CrashApi, apiVars

\* The broker takes back only what a handler has.
LEMMA RequeuedHandled ==
  ASSUME TypeInv, NEW w \in Workers, NEW m \in Messages, Requeued(w)[m] > 0
  PROVE  ready[m] > 0 \/ Handled(m.id)
<1> DEFINE held == {s \in SlotsOf(w) : pc[s] # "idle" /\ job[s] = m}
<1>1. CASE held = {}
  <2>1. Unacked(w, m) = 0
    BY <1>1, FS_EmptySet DEF Unacked
  <2> QED
    BY <2>1 DEF Requeued, TypeInv, TypeOK
<1>2. CASE held # {}
  BY <1>2 DEF SlotsOf, Handled
<1> QED
  BY <1>1, <1>2

\* A worker that is gone, or whose channel is, leaves what it had to the broker
\* or takes it along.
LEMMA WorkerFrame ==
  ASSUME TypeInv, NEW w \in Workers,
         Dies(w) \/ DropConnection(w) \/ CloseArrives(w)
  PROVE  /\ UNCHANGED <<apiVars, store, historyVars>>
         /\ \A m \in Messages : ready'[m] > 0 => ready[m] > 0 \/ Handled(m.id)
         /\ \A v \in Workers, m \in Messages : wire'[v][m] > 0 => wire[v][m] > 0
         /\ \A t \in Slots : pc'[t] # "idle" => pc[t] # "idle" /\ job'[t] = job[t]
<1>1. ready' = Requeued(w) \/ ready' = ready
  BY DEF Dies, DropConnection, CloseArrives
<1>2. \A m \in Messages : ready'[m] > 0 => ready[m] > 0 \/ Handled(m.id)
  BY <1>1, RequeuedHandled
<1>3. \A v \in Workers, m \in Messages : wire'[v][m] > 0 => wire[v][m] > 0
  BY DEF Dies, DropConnection, CloseArrives, NoneOf, TypeInv, TypeOK
<1>4. \A t \in Slots : pc'[t] # "idle" => pc[t] # "idle" /\ job'[t] = job[t]
  BY DEF Dies, DropConnection, CloseArrives, handlerVars
<1> QED
  BY <1>2, <1>3, <1>4 DEF Dies, DropConnection, CloseArrives

\* Nothing appears of a notification that was nowhere before, unless its first
\* message is published.
LEMMA NothingFromNothing ==
  ASSUME TypeInv, [Next]_vars, NEW id \in Ids, ~Present(id), ~Publish(id)
  PROVE  ~Present(id)'
<1>1. SUFFICES ASSUME Present(id)' PROVE FALSE
  OBVIOUS
<1>m. \A m \in Messages : m.id \in Ids /\ (m.id = id <=> m \in MessagesOf(id))
  BY MessageFacts DEF MessagesOf
<1>2. ASSUME NEW other \in Ids, \/ ClientStep(other) \/ RequestStep(other)
                               \/ LoseApiWire(other) \/ CrashApi(other)
      PROVE  FALSE
  <2>1. UNCHANGED <<ready, wire, pc, job>>
    BY <1>2, ApiFrame DEF queueVars, handlerVars
  <2>2. id \in apiWire' => id \in apiWire
    BY <1>2, ApiFrame DEF Publish
  <2> QED
    BY <1>1, <2>1, <2>2 DEF Present, InQueue, InSocket, Handled
<1>3. ASSUME NEW other \in Ids, FlushApi(other) PROVE FALSE
  <2>1. other # id
    BY <1>3 DEF FlushApi, Present
  <2>2. \A m \in MessagesOf(id) : ready'[m] = ready[m]
    BY <1>3, <2>1 DEF FlushApi, Add, Message, MessagesOf, TypeInv, TypeOK
  <2> QED
    BY <1>1, <1>3, <2>2 DEF FlushApi, handlerVars, Present, InQueue, InSocket,
       Handled
<1>4. ASSUME NEW s \in Slots, HandlerStep(s) PROVE FALSE
  <2>1. CASE AckArrives(s)
    <3>1. \A t \in Slots : pc'[t] # "idle" => pc[t] # "idle" /\ job'[t] = job[t]
      BY <2>1 DEF AckArrives, TypeInv, TypeOK
    <3> QED
      BY <1>1, <2>1, <3>1 DEF AckArrives, apiVars, queueVars, Present, InQueue,
         InSocket, Handled
  <2>2. CASE AckThrows(s)
    <3>1. PICK w \in Workers : Dies(w)
      BY <2>2, SlotWorker DEF AckThrows
    <3> QED
      BY <1>1, <1>m, <3>1, WorkerFrame DEF apiVars, Present, InQueue, InSocket,
         Handled, MessagesOf
  <2>3. CASE ~AckArrives(s) /\ ~AckThrows(s)
    <3>1. /\ pc[s] # "idle"
          /\ job' = job
          /\ \A t \in Slots : t # s => pc'[t] = pc[t]
          /\ UNCHANGED <<apiVars, ready>>
      BY <1>4, <2>3, HandlerGoes DEF Goto, TypeInv, TypeOK
    <3>2. job[s].id # id
      BY <3>1 DEF Present, Handled
    <3>3. \A w \in Workers, m \in MessagesOf(id) : wire'[w][m] = wire[w][m]
      <4>1. CASE Retry(s)
        BY <3>2, <4>1 DEF Retry, Add, Message, MessagesOf, TypeInv, TypeOK
      <4> QED
        BY <1>4, <2>3, <4>1, HandlerGoes
    <3> QED
      BY <1>1, <3>1, <3>2, <3>3 DEF apiVars, Present, InQueue, InSocket, Handled
  <2> QED
    BY <2>1, <2>2, <2>3
<1>5. ASSUME Consume PROVE FALSE
  <2>1. PICK s \in Slots, m \in Messages : Receive(s, m)
    BY <1>5 DEF Consume
  <2>2. m.id # id
    BY <1>m, <2>1 DEF Receive, Present, InQueue
  <2>3. \A n \in Messages : ready'[n] > 0 => ready[n] > 0
    BY <2>1 DEF Receive, Take, TypeInv, TypeOK
  <2>4. \A t \in Slots : pc'[t] # "idle" /\ job'[t].id = id => /\ pc[t] # "idle"
                                                               /\ job[t].id = id
    BY <2>1, <2>2 DEF Receive, TypeInv, TypeOK
  <2> QED
    BY <1>1, <2>1, <2>3, <2>4 DEF Receive, apiVars, Present, InQueue, InSocket,
       Handled, MessagesOf
<1>6. ASSUME NEW w \in Workers, \/ CrashWorker(w) \/ DropConnection(w)
                               \/ CloseArrives(w) \/ Exit(w)
      PROVE  FALSE
  <2>1. Dies(w) \/ DropConnection(w) \/ CloseArrives(w)
    BY <1>6 DEF CrashWorker, Exit
  <2> QED
    BY <1>1, <1>m, <2>1, WorkerFrame DEF apiVars, Present, InQueue, InSocket,
       Handled, MessagesOf
<1>7. ASSUME NEW w \in Workers, FlushWorker(w) PROVE FALSE
  <2>1. PICK m \in Messages : Flush(w, m)
    BY <1>7 DEF FlushWorker
  <2>2. m.id # id
    BY <1>m, <2>1 DEF Flush, Present, InSocket
  <2>3. \A n \in MessagesOf(id) : /\ ready'[n] = ready[n]
                                  /\ \A v \in Workers : wire'[v][n] = wire[v][n]
    BY <2>1, <2>2 DEF Flush, Add, Take, MessagesOf, TypeInv, TypeOK
  <2> QED
    BY <1>1, <2>1, <2>3 DEF Flush, apiVars, handlerVars, Present, InQueue,
       InSocket, Handled
<1>8. CASE UNCHANGED <<apiVars, queueVars, handlerVars>>
  BY <1>1, <1>8 DEF apiVars, queueVars, handlerVars, Present, InQueue,
     InSocket, Handled
<1> QED
  BY <1>2, <1>3, <1>4, <1>5, <1>6, <1>7, <1>8 DEF Next, vars, ShutDownStep,
     Restart, Reconnect, ShutDown

\* What a step of a handler does to records and to the history concerns the
\* notification it handles.
LEMMA HandlerTouches ==
  ASSUME TypeInv, NEW s \in Slots, HandlerStep(s), NEW id \in Ids,
         pc[s] = "idle" \/ job[s].id # id
  PROVE  /\ store'[id] = store[id]
         /\ sends'[id] = sends[id]
         /\ delivered'[id] = delivered[id]
         /\ id \in gaveUp' => id \in gaveUp
<1>1. CASE \/ AckArrives(s) \/ AckThrows(s) \/ Find(s) \/ FindThrows(s)
           \/ Recover(s) \/ RecoverThrows(s) \/ Retry(s) \/ RetryThrows(s)
           \/ Ack(s)
  BY <1>1 DEF AckArrives, AckThrows, Dies, Find, FindThrows, Recover,
     RecoverThrows, Retry, RetryThrows, Ack, historyVars
<1>2. CASE \/ Start(s) \/ SaveSent(s) \/ SaveRetry(s) \/ SaveGiveUp(s)
  <2>1. \E new, next : Save(s, new, next)
    BY <1>2 DEF Start, SaveSent, SaveRetry, SaveGiveUp
  <2>2. gaveUp' \subseteq gaveUp \union {job[s].id}
    BY <1>2 DEF Start, SaveSent, SaveRetry, SaveGiveUp
  <2>3. job[s].id # id
    BY <1>2 DEF Start, SaveSent, SaveRetry, SaveGiveUp
  <2> QED
    BY <2>1, <2>2, <2>3 DEF Save, TypeInv, TypeOK
<1>3. CASE \/ StartThrows(s) \/ SaveSentThrows(s) \/ SaveRetryThrows(s)
           \/ SaveGiveUpThrows(s)
  BY <1>3 DEF StartThrows, SaveSentThrows, SaveRetryThrows, SaveGiveUpThrows,
     SaveFails, historyVars
<1>4. CASE SendAccepted(s) \/ SendRefused(s) \/ SendTimesOut(s)
  BY <1>4 DEF SendAccepted, SendRefused, SendTimesOut, Send, TypeInv, TypeOK
<1> QED
  BY <1>1, <1>2, <1>3, <1>4 DEF HandlerStep

\* Steps of other processes than handlers and the API leave records and history.
LEMMA OthersTouch ==
  ASSUME \/ \E id \in Ids : FlushApi(id) \/ LoseApiWire(id) \/ CrashApi(id)
         \/ Consume
         \/ \E w \in Workers : \/ CrashWorker(w) \/ Restart(w) \/ FlushWorker(w)
                               \/ DropConnection(w) \/ Reconnect(w)
                               \/ ShutDown(w) \/ ShutDownStep(w)
         \/ UNCHANGED vars
  PROVE  UNCHANGED <<store, historyVars, published>>
BY DEF FlushApi, LoseApiWire, CrashApi, Consume, Receive, CrashWorker, Restart,
   FlushWorker, Flush, DropConnection, Reconnect, ShutDown, ShutDownStep,
   CloseArrives, Exit, Dies, apiVars, vars

\* A record whose notification is nowhere is changed only by the API, which
\* never writes a count of attempts.
LEMMA UnseenIsUntried ==
  ASSUME TypeInv, [Next]_vars, NEW id \in Ids, ~Present(id)
  PROVE  /\ store'[id].attempts \in {0, store[id].attempts}
         /\ sends'[id] = sends[id]
         /\ delivered'[id] = delivered[id]
         /\ id \in gaveUp' => id \in gaveUp
<1>1. ASSUME NEW other \in Ids, ClientStep(other) \/ RequestStep(other)
      PROVE  /\ store'[id].attempts \in {0, store[id].attempts}
             /\ UNCHANGED historyVars
  <2>1. CASE SaveQueued(other) \/ SaveFailed(other)
    <3>1. PICK status \in Statuses :
            store' = [store EXCEPT ![other].status = status]
      BY <2>1 DEF SaveQueued, SaveFailed, SaveStatus, Statuses
    <3> QED
      BY <2>1, <3>1 DEF SaveQueued, SaveFailed, SaveStatus, TypeInv, TypeOK,
         Documents
  <2>2. CASE ~(SaveQueued(other) \/ SaveFailed(other))
    BY <1>1, <2>2 DEF ClientStep, RequestStep, Create, CreateFails, Delete,
       NoRecord, Publish, PublishThrows, SaveQueuedThrows, SaveFailedThrows,
       SaveStatusThrows, TypeInv, TypeOK
  <2> QED
    BY <2>1, <2>2
<1>2. ASSUME NEW s \in Slots, HandlerStep(s)
      PROVE  /\ store'[id] = store[id]
             /\ sends'[id] = sends[id]
             /\ delivered'[id] = delivered[id]
             /\ id \in gaveUp' => id \in gaveUp
  <2>1. pc[s] = "idle" \/ job[s].id # id
    BY DEF Present, Handled
  <2> QED
    BY <1>2, <2>1, HandlerTouches
<1>3. CASE UNCHANGED <<store, historyVars>>
  BY <1>3 DEF historyVars
<1> QED
  BY <1>1, <1>2, <1>3, OthersTouch DEF Next, historyVars

\* The steps of a request: only a publish adds a first message, and only a
\* request that has not published yet takes it.
LEMMA RequestFacts ==
  ASSUME TypeInv, [Next]_vars, NEW id \in Ids
  PROVE  /\ request'[id] \in {"none", "publish"} =>
              request[id] \in {"none", "publish"} /\ ~Publish(id)
         /\ id \in published' => id \in published \/ Publish(id)
         /\ id \in published => id \in published'
<1>1. ASSUME NEW other \in Ids, \/ ClientStep(other) \/ RequestStep(other)
                               \/ CrashApi(other)
      PROVE  /\ request'[id] \in {"none", "publish"} =>
                  request[id] \in {"none", "publish"} /\ ~Publish(id)
             /\ id \in published' => id \in published \/ Publish(id)
             /\ id \in published => id \in published'
  BY <1>1 DEF ClientStep, RequestStep, Create, CreateFails, Delete, Publish,
     PublishThrows, SaveQueued, SaveFailed, SaveStatus, SaveQueuedThrows,
     SaveFailedThrows, SaveStatusThrows, CrashApi, apiVars, TypeInv, TypeOK
<1>2. CASE UNCHANGED <<request, published>>
  BY <1>2 DEF Publish, TypeInv, TypeOK
<1>3. ASSUME NEW s \in Slots, HandlerStep(s) PROVE UNCHANGED <<request, published>>
  <2>1. AckArrives(s) \/ AckThrows(s) => UNCHANGED apiVars
    BY DEF AckArrives, AckThrows, Dies
  <2> QED
    BY <1>3, <2>1, HandlerGoes DEF apiVars
<1>4. ASSUME \/ \E other \in Ids : FlushApi(other) \/ LoseApiWire(other)
             \/ Consume
             \/ \E w \in Workers : \/ CrashWorker(w) \/ Restart(w)
                                   \/ FlushWorker(w) \/ DropConnection(w)
                                   \/ Reconnect(w) \/ ShutDown(w)
                                   \/ ShutDownStep(w)
             \/ UNCHANGED vars
      PROVE  UNCHANGED <<request, published>>
  BY <1>4 DEF FlushApi, LoseApiWire, Consume, Receive, CrashWorker, Restart,
     FlushWorker, Flush, DropConnection, Reconnect, ShutDown, ShutDownStep,
     CloseArrives, Exit, Dies, apiVars, vars
<1> QED
  BY <1>1, <1>2, <1>3, <1>4 DEF Next

LEMMA PublishStep ==
  TypeInv /\ NothingBeforePublish /\ [Next]_vars => NothingBeforePublish'
<1> SUFFICES ASSUME TypeInv, NothingBeforePublish, [Next]_vars, NEW id \in Ids
             PROVE  /\ request'[id] \in {"none", "publish"} => id \notin published'
                    /\ id \notin published' => /\ ~Present(id)'
                                               /\ store'[id].attempts = 0
                                               /\ sends'[id] = 0
                                               /\ delivered'[id] = 0
                                               /\ id \notin gaveUp'
  BY DEF NothingBeforePublish
<1>1. request'[id] \in {"none", "publish"} => id \notin published'
  BY RequestFacts DEF NothingBeforePublish
<1>2. ASSUME id \notin published'
      PROVE  /\ ~Present(id)'
             /\ store'[id].attempts = 0
             /\ sends'[id] = 0
             /\ delivered'[id] = 0
             /\ id \notin gaveUp'
  <2>1. id \notin published /\ ~Publish(id)
    BY <1>2, RequestFacts DEF Publish
  <2>2. ~Present(id)
    BY <2>1 DEF NothingBeforePublish
  <2> QED
    BY <2>1, <2>2, NothingFromNothing, UnseenIsUntried DEF NothingBeforePublish
<1> QED
  BY <1>1, <1>2

\* A record that is gone stays gone once its request has begun.
LEMMA GoneStaysGone ==
  ASSUME TypeInv, [Next]_vars, NEW id \in Ids, request[id] # "none", Missing(id)
  PROVE  Missing(id)'
<1>1. ASSUME NEW other \in Ids, ClientStep(other) \/ RequestStep(other)
      PROVE  Missing(id)'
  BY <1>1 DEF ClientStep, RequestStep, Create, CreateFails, Delete, NoRecord,
     Publish, PublishThrows, SaveQueued, SaveFailed, SaveStatus,
     SaveQueuedThrows, SaveFailedThrows, SaveStatusThrows, Missing, TypeInv,
     TypeOK
<1>2. ASSUME NEW s \in Slots, HandlerStep(s) PROVE Missing(id)'
  <2>1. CASE pc[s] = "idle" \/ job[s].id # id
    BY <1>2, <2>1, HandlerTouches DEF Missing
  <2>2. CASE pc[s] # "idle" /\ job[s].id = id
    <3>1. ~(Start(s) \/ SaveSent(s) \/ SaveRetry(s) \/ SaveGiveUp(s))
      BY <2>2 DEF Start, SaveSent, SaveRetry, SaveGiveUp, Save
    <3> QED
      BY <1>2, <3>1 DEF HandlerStep, AckArrives, AckThrows, Dies, Find,
         FindThrows, Recover, RecoverThrows, Retry, RetryThrows, Ack,
         SendAccepted, SendRefused, SendTimesOut, Send, StartThrows,
         SaveSentThrows, SaveRetryThrows, SaveGiveUpThrows, SaveFails, Missing
  <2> QED
    BY <2>1, <2>2
<1>3. CASE UNCHANGED store
  BY <1>3 DEF Missing
<1> QED
  BY <1>1, <1>2, <1>3, OthersTouch DEF Next

\* Where "saveFailed" and "502" come from.
LEMMA RefusalSources ==
  ASSUME TypeInv, [Next]_vars, NEW id \in Ids
  PROVE  /\ request'[id] = "saveFailed" => \/ request[id] = "saveFailed"
                                           \/ request[id] = "publish"
                                           \/ SaveQueuedThrows(id)
         /\ request'[id] = "502" => \/ request[id] = "502"
                                    \/ request[id] = "saveFailed" /\ ~Missing(id)
<1>1. ASSUME NEW other \in Ids, \/ ClientStep(other) \/ RequestStep(other)
                               \/ CrashApi(other)
      PROVE  \/ request'[id] = request[id]
             \/ /\ request'[id] = "saveFailed"
                /\ PublishThrows(id) \/ SaveQueuedThrows(id)
             \/ request'[id] = "502" /\ SaveFailed(id)
             \/ request'[id] \notin {"saveFailed", "502"}
  BY <1>1 DEF ClientStep, RequestStep, Create, CreateFails, Delete, Publish,
     PublishThrows, SaveQueued, SaveFailed, SaveStatus, SaveQueuedThrows,
     SaveFailedThrows, SaveStatusThrows, CrashApi, apiVars, TypeInv, TypeOK
<1>2. ASSUME NEW s \in Slots, HandlerStep(s) PROVE request' = request
  <2>1. AckArrives(s) \/ AckThrows(s) => UNCHANGED apiVars
    BY DEF AckArrives, AckThrows, Dies
  <2> QED
    BY <1>2, <2>1, HandlerGoes DEF apiVars
<1>3. ASSUME \/ \E other \in Ids : FlushApi(other) \/ LoseApiWire(other)
             \/ Consume
             \/ \E w \in Workers : \/ CrashWorker(w) \/ Restart(w)
                                   \/ FlushWorker(w) \/ DropConnection(w)
                                   \/ Reconnect(w) \/ ShutDown(w)
                                   \/ ShutDownStep(w)
             \/ UNCHANGED vars
      PROVE  request' = request
  BY <1>3 DEF FlushApi, LoseApiWire, Consume, Receive, CrashWorker, Restart,
     FlushWorker, Flush, DropConnection, Reconnect, ShutDown, ShutDownStep,
     CloseArrives, Exit, Dies, apiVars, vars
<1> QED
  BY <1>1, <1>2, <1>3 DEF Next, PublishThrows, SaveFailed, SaveStatus

LEMMA RefusalStep == TypeInv /\ RefusalInv /\ [Next]_vars => RefusalInv'
<1> SUFFICES ASSUME TypeInv, RefusalInv, [Next]_vars PROVE RefusalInv'
  OBVIOUS
<1>1. NothingBeforePublish'
  BY PublishStep DEF RefusalInv
<1>2. ASSUME Without({"db"})' PROVE Refused'
  <2>1. Without({"db"}) /\ ~Spend("db")
    BY <1>2, EventsCount DEF Without, Spend, Events, TypeInv, TypeOK
  <2>2. Refused
    BY <2>1 DEF RefusalInv
  <2> SUFFICES ASSUME NEW id \in Ids
               PROVE  /\ request'[id] = "saveFailed" => \/ id \notin published'
                                                        \/ Missing(id)'
                      /\ request'[id] = "502" => id \notin published'
    BY DEF Refused
  <2>3. ASSUME id \in published', request'[id] \in {"saveFailed", "502"}
        PROVE  id \in published
    BY <2>3, RequestFacts DEF Publish, TypeInv, TypeOK
  <2>4. CASE request'[id] = "saveFailed"
    <3>1. SUFFICES ASSUME id \in published PROVE Missing(id)'
      BY <2>3, <2>4
    <3>2. request[id] # "publish"
      BY <3>1 DEF RefusalInv, NothingBeforePublish
    <3>3. request[id] # "none"
      BY <3>1 DEF RefusalInv, NothingBeforePublish
    <3>4. CASE request[id] = "saveFailed"
      BY <2>2, <3>1, <3>3, <3>4, GoneStaysGone DEF Refused
    <3>5. CASE SaveQueuedThrows(id)
      <4>1. Missing(id)
        BY <2>1, <3>5 DEF SaveQueuedThrows, SaveStatusThrows, SaveThrows
      <4> QED
        BY <3>3, <4>1, GoneStaysGone
    <3> QED
      BY <2>4, <3>2, <3>4, <3>5, RefusalSources
  <2>5. CASE request'[id] = "502"
    BY <2>2, <2>3, <2>5, RefusalSources DEF Refused
  <2> QED
    BY <2>4, <2>5
<1> QED
  BY <1>1, <1>2 DEF RefusalInv

LEMMA InitRefusal == Init => RefusalInv
<1> SUFFICES ASSUME Init PROVE RefusalInv
  OBVIOUS
<1>1. NothingBeforePublish
  BY DEF Init, NothingBeforePublish, Present, InQueue, InSocket, Handled,
     MessagesOf, NoneOf, NoRecord
<1>2. Refused
  BY DEF Init, Refused
<1> QED
  BY <1>1, <1>2 DEF RefusalInv

\* Who is answered 502 never sees the notification delivered while the database
\* answers, in every interleaving of requests, workers, deletions and failures
\* (publishToQueue, the catch of createAndQueue).
THEOREM RefusedIsNotSent == Safe => []UnqueuedIsNotSent
<1>1. RefusalInv => UnqueuedIsNotSent
  BY DEF RefusalInv, Refused, NothingBeforePublish, UnqueuedIsNotSent
<1> QED
  BY InitType, TypeStep, InitRefusal, RefusalStep, <1>1, PTL DEF Safe

-----------------------------------------------------------------------------
(* Nothing exists for a notification before it is published, and a process *)
(* that is down handles nothing.                                           *)

EarlyInv == NothingBeforePublish /\ DownMeansIdle

\* Whatever is handled was asked for.
LEMMA HandledWasAsked ==
  ASSUME TypeInv, EarlyInv, NEW s \in Slots, pc[s] # "idle"
  PROVE  request[job[s].id] # "none"
<1>1. job[s].id \in Ids
  BY MessageFacts DEF TypeInv, HandlersTyped
<1>2. Present(job[s].id)
  BY DEF Present, Handled
<1> QED
  BY <1>1, <1>2 DEF EarlyInv, NothingBeforePublish

LEMMA DownStep == TypeInv /\ DownMeansIdle /\ [Next]_vars => DownMeansIdle'
<1> SUFFICES ASSUME TypeInv, DownMeansIdle, [Next]_vars,
                    NEW t \in Slots, worker'[WorkerOf(t)] = "down"
             PROVE  pc'[t] = "idle"
  BY DEF DownMeansIdle
<1>1. ASSUME UNCHANGED <<worker, pc>> PROVE pc'[t] = "idle"
  BY <1>1 DEF DownMeansIdle
<1>2. ASSUME NEW s \in Slots, HandlerStep(s) PROVE pc'[t] = "idle"
  <2>1. CASE AckArrives(s)
    BY <2>1 DEF AckArrives, DownMeansIdle, TypeInv, TypeOK
  <2>2. CASE AckThrows(s)
    BY <2>2, SlotWorker DEF AckThrows, Dies, DownMeansIdle, TypeInv, TypeOK
  <2>3. CASE ~AckArrives(s) /\ ~AckThrows(s)
    BY <1>2, <2>3, HandlerGoes DEF Goto, DownMeansIdle, TypeInv, TypeOK
  <2> QED
    BY <2>1, <2>2, <2>3
<1>3. ASSUME NEW s \in Slots, NEW m \in Messages, Receive(s, m)
      PROVE  pc'[t] = "idle"
  BY <1>3, SlotWorker DEF Receive, DownMeansIdle, TypeInv, TypeOK
<1>4. ASSUME NEW w \in Workers, CrashWorker(w) \/ Exit(w) PROVE pc'[t] = "idle"
  BY <1>4, SlotWorker DEF CrashWorker, Exit, Dies, DownMeansIdle, TypeInv,
     TypeOK
<1>5. ASSUME NEW w \in Workers, \/ Restart(w) \/ DropConnection(w)
                               \/ Reconnect(w) \/ CloseArrives(w)
      PROVE  pc'[t] = "idle"
  BY <1>5, SlotWorker DEF Restart, DropConnection, Reconnect, CloseArrives,
     handlerVars, DownMeansIdle, TypeInv, TypeOK
<1>6. ASSUME NEW id \in Ids, \/ ClientStep(id) \/ RequestStep(id)
                            \/ LoseApiWire(id) \/ CrashApi(id)
      PROVE  pc'[t] = "idle"
  BY <1>1, <1>6, ApiFrame DEF handlerVars
<1> QED
  BY <1>1, <1>2, <1>3, <1>4, <1>5, <1>6 DEF Next, vars, handlerVars, Consume,
     FlushApi, FlushWorker, Flush, ShutDown, ShutDownStep

LEMMA EarlyStep == TypeInv /\ EarlyInv /\ [Next]_vars => EarlyInv'
BY PublishStep, DownStep DEF EarlyInv

-----------------------------------------------------------------------------
(* Nothing is lost.  Persistence gives the general argument: what is settled*)
(* stays settled, what the broker holds it goes on holding, and every      *)
(* handler that will acknowledge was covered before or is covered now.     *)

LEMMA Persistence ==
  ASSUME TypeInv, EarlyInv, NothingLost,
         \A id \in Ids : request[id] # "none" /\ Settled(id) => Settled(id)',
         \A m \in Messages : BrokerHolds(m) => BrokerHolds(m)',
         \A w \in Workers, m \in Messages :
           worker'[w] = "consuming" /\ wire[w][m] > 0
             => wire'[w][m] > 0 \/ BrokerHolds(m)',
         \A id \in published' : \/ id \in published /\ id \notin apiWire
                                \/ id \in apiWire'
                                \/ BrokerHolds(Message(id, 1))',
         \A s \in Slots : MayAck(s)' => \/ Covered(s)'
                                        \/ MayAck(s) /\ job'[s] = job[s],
         published' \subseteq Ids
  PROVE  NothingLost'
<1>1. ASSUME NEW id \in published' PROVE InHand(id)'
  <2>1. CASE id \in published /\ id \notin apiWire
    <3>1. id \in Ids /\ request[id] # "none"
      BY <2>1 DEF EarlyInv, NothingBeforePublish, TypeInv, TypeOK
    <3>2. Settled(id) \/ \E a \in Attempts : BrokerHolds(Message(id, a))
      BY <2>1 DEF NothingLost, InHand
    <3> QED
      BY <3>1, <3>2, MessageFacts DEF InHand
  <2>2. CASE BrokerHolds(Message(id, 1))'
    <3>1. 1 \in Attempts
      BY ParametersAssumption DEF Attempts
    <3> QED
      BY <2>2, <3>1 DEF InHand
  <2> QED
    BY <1>1, <2>1, <2>2 DEF InHand
<1>2. ASSUME NEW s \in Slots PROVE Covered(s)'
  <2>1. SUFFICES ASSUME MayAck(s)', MayAck(s), job'[s] = job[s]
                 PROVE  Covered(s)'
    BY DEF Covered
  <2>c. worker'[WorkerOf(s)] = "consuming" /\ pc[s] # "idle"
    BY <2>1 DEF MayAck, PassedSteps
  <2>2. PICK w \in Workers : w = WorkerOf(s)
    BY SlotWorker
  <2>3. PICK id \in Ids, a \in Attempts : id = job[s].id /\ a = job[s].attempt
    BY <2>c, MessageFacts DEF TypeInv, HandlersTyped
  <2>4. request[id] # "none"
    BY <2>c, <2>3, HandledWasAsked
  <2>5. Settled(id) \/ PassedOn(w, id, a)
    BY <2>1, <2>2, <2>3 DEF NothingLost, Covered
  <2>6. PassedOn(w, id, a) => PassedOn(w, id, a)'
    <3> SUFFICES ASSUME NEW b \in Attempts, b > a,
                        \/ BrokerHolds(Message(id, b))
                        \/ wire[w][Message(id, b)] > 0
                 PROVE  \/ BrokerHolds(Message(id, b))'
                        \/ wire'[w][Message(id, b)] > 0
      BY DEF PassedOn
    <3>1. Message(id, b) \in Messages
      BY <2>3, MessageFacts
    <3> QED
      BY <2>c, <2>2, <3>1
  <2>7. Settled(id)' \/ PassedOn(w, id, a)'
    BY <2>4, <2>5, <2>6
  <2> QED
    BY <2>1, <2>2, <2>3, <2>7 DEF Covered
<1> QED
  BY <1>1, <1>2 DEF NothingLost

\* A handler that moves on keeps its message unacknowledged.
LEMMA GotoHolds ==
  ASSUME TypeInv, NEW s \in Slots, pc[s] # "idle", NEW step, step # "idle",
         NEW record, Goto(s, step, record), UNCHANGED <<ready, worker>>
  PROVE  \A m \in Messages : BrokerHolds(m) => BrokerHolds(m)'
BY DEF TypeInv, TypeOK, Goto, BrokerHolds

\* So a handler may take any step that leads towards an ack only once its
\* message is covered.
LEMMA GotoLoss ==
  ASSUME TypeInv, EarlyInv, NothingLost, NEW s \in Slots, pc[s] # "idle",
         NEW step, step # "idle", NEW record, Goto(s, step, record),
         UNCHANGED <<ready, worker, closing, apiVars>>,
         \A id \in Ids : Settled(id) => Settled(id)',
         \A w \in Workers, m \in Messages : wire[w][m] > 0 => wire'[w][m] > 0,
         step \in PassedSteps =>
           \/ Covered(s)'
           \/ /\ pc[s] \in PassedSteps
              /\ step = "acked" => WorkerOf(s) \notin closing
  PROVE  NothingLost'
<1>1. \A m \in Messages : BrokerHolds(m) => BrokerHolds(m)'
  BY GotoHolds
<1>2. ASSUME NEW t \in Slots, MayAck(t)'
      PROVE  Covered(t)' \/ (MayAck(t) /\ job'[t] = job[t])
  <2>1. CASE t = s
    BY <1>2, <2>1 DEF Goto, MayAck, PassedSteps, TypeInv, TypeOK
  <2>2. CASE t # s
    BY <1>2, <2>2 DEF Goto, MayAck, TypeInv, TypeOK
  <2> QED
    BY <2>1, <2>2
<1>3. published' = published /\ apiWire' = apiWire /\ published \subseteq Ids
  BY DEF apiVars, TypeInv, TypeOK
<1>4. \A id \in published' : \/ id \in published /\ id \notin apiWire
                             \/ id \in apiWire'
  BY <1>3
<1> QED
  BY <1>1, <1>2, <1>3, <1>4, Persistence

\* A worker that dies or loses its connection: the broker takes back all it
\* had not acknowledged, and acknowledges nothing of it any more.
LEMMA LostWorkerLoss ==
  ASSUME TypeInv, EarlyInv, NothingLost, NEW w \in Workers,
         worker' \in [Workers -> WorkerStates],
         worker'[w] # "consuming",
         \A v \in Workers \ {w} : /\ worker'[v] = worker[v]
                                  /\ wire'[v] = wire[v]
                                  /\ v \in closing => v \in closing',
         ready' = IF worker[w] = "consuming" THEN Requeued(w) ELSE ready,
         \A t \in Slots : WorkerOf(t) # w => pc'[t] = pc[t] /\ job'[t] = job[t],
         UNCHANGED <<apiVars, store, historyVars>>
  PROVE  NothingLost'
<1>1. ASSUME NEW m \in Messages, BrokerHolds(m) PROVE BrokerHolds(m)'
  <2>1. ready[m] \in Nat
    BY DEF TypeInv, TypeOK
  <2>2. CASE ready[m] > 0
    BY <2>1, <2>2, RequeuedHolds DEF BrokerHolds
  <2>3. CASE ~(ready[m] > 0)
    <3>1. PICK t \in Slots : /\ worker[WorkerOf(t)] = "consuming"
                             /\ pc[t] # "idle"
                             /\ job[t] = m
      BY <1>1, <2>3 DEF BrokerHolds
    <3>2. CASE WorkerOf(t) = w
      BY <2>1, <3>1, <3>2, RequeuedHolds DEF BrokerHolds
    <3>3. CASE WorkerOf(t) # w
      BY <3>1, <3>3, SlotWorker DEF BrokerHolds
    <3> QED
      BY <3>2, <3>3
  <2> QED
    BY <2>2, <2>3
<1>2. \A id \in Ids : Settled(id) => Settled(id)'
  BY DEF Settled, Missing, historyVars
<1>3. \A v \in Workers, m \in Messages :
        worker'[v] = "consuming" /\ wire[v][m] > 0 => wire'[v][m] > 0
  OBVIOUS
<1>4. \A t \in Slots : MayAck(t)' => MayAck(t) /\ job'[t] = job[t]
  BY SlotWorker DEF MayAck
<1>5. published' = published /\ apiWire' = apiWire /\ published \subseteq Ids
  BY DEF apiVars, TypeInv, TypeOK
<1>6. \A id \in published' : \/ id \in published /\ id \notin apiWire
                             \/ id \in apiWire'
  BY <1>5
<1> QED
  BY <1>1, <1>2, <1>3, <1>4, <1>5, <1>6, Persistence

LEMMA NoLossEvent ==
  ASSUME TypeInv, Without(LossEvents)', NEW e \in LossEvents
  PROVE  ~Spend(e)
BY DEF Without, LossEvents, Events, Spend, TypeInv, TypeOK

\* Nothing is lost by what the API does.
LEMMA ApiLoss ==
  ASSUME TypeInv, EarlyInv, NothingLost, Without(LossEvents)', NEW id \in Ids,
         ClientStep(id) \/ RequestStep(id) \/ LoseApiWire(id) \/ CrashApi(id)
  PROVE  NothingLost'
<1>1. UNCHANGED <<ready, wire, worker, closing, pc, job, delivered, gaveUp>>
  BY DEF ClientStep, RequestStep, Create, CreateFails, Delete, Publish,
     PublishThrows, SaveQueued, SaveFailed, SaveStatus, SaveQueuedThrows,
     SaveFailedThrows, SaveStatusThrows, LoseApiWire, CrashApi, queueVars,
     handlerVars, historyVars
<1>2. \A e \in LossEvents : ~Spend(e)
  BY NoLossEvent
<1>3. \/ Create(id) \/ Delete(id) \/ Publish(id)
      \/ SaveQueued(id) \/ SaveFailed(id)
      \/ SaveQueuedThrows(id) \/ SaveFailedThrows(id)
  BY <1>2 DEF ClientStep, RequestStep, CreateFails, PublishThrows, LoseApiWire,
     CrashApi, LossEvents
<1>4. \A other \in Ids : request[other] # "none" /\ Missing(other)
                          => Missing(other)'
  BY <1>3 DEF Create, Delete, Publish, SaveQueued, SaveFailed, SaveStatus,
     SaveQueuedThrows, SaveFailedThrows, SaveStatusThrows, Missing, NoRecord,
     TypeInv, TypeOK
<1>5. /\ published' \subseteq Ids
      /\ \A other \in published' : \/ other \in published /\ other \notin apiWire
                                  \/ other \in apiWire'
  BY <1>3 DEF Create, Delete, Publish, SaveQueued, SaveFailed, SaveStatus,
     SaveQueuedThrows, SaveFailedThrows, SaveStatusThrows, apiVars, TypeInv,
     TypeOK
<1>6. \A other \in Ids : request[other] # "none" /\ Settled(other)
                          => Settled(other)'
  BY <1>1, <1>4 DEF Settled
<1>7. \A m \in Messages : BrokerHolds(m) => BrokerHolds(m)'
  BY <1>1 DEF BrokerHolds
<1>8. \A s \in Slots : MayAck(s)' => MayAck(s) /\ job'[s] = job[s]
  BY <1>1 DEF MayAck
<1> QED
  BY <1>1, <1>5, <1>6, <1>7, <1>8, Persistence

\* Nothing is lost on the way from a socket into the queue and from the queue
\* to a handler.
LEMMA QueueLoss ==
  ASSUME TypeInv, TypeInv', EarlyInv, NothingLost,
         \/ \E id \in Ids : FlushApi(id)
         \/ Consume
         \/ \E w \in Workers : FlushWorker(w)
  PROVE  NothingLost'
<1>1. UNCHANGED <<request, published, store, worker, closing, historyVars>>
  BY DEF FlushApi, Consume, Receive, FlushWorker, Flush, apiVars
<1>2. \A id \in Ids : Settled(id) => Settled(id)'
  BY <1>1 DEF Settled, Missing, historyVars
<1>3. CASE \E id \in Ids : FlushApi(id)
  <2>1. PICK id \in Ids : FlushApi(id)
    BY <1>3
  <2>2. Message(id, 1) \in Messages
    BY MessageFacts, ParametersAssumption DEF Attempts
  <2>3. \A m \in Messages : ready[m] > 0 => ready'[m] > 0
    BY <2>1, <2>2 DEF FlushApi, Add, TypeInv, TypeOK
  <2>4. ready'[Message(id, 1)] > 0
    BY <2>1, <2>2 DEF FlushApi, Add, TypeInv, TypeOK
  <2>5. \A m \in Messages : BrokerHolds(m) => BrokerHolds(m)'
    BY <2>1, <2>3 DEF FlushApi, handlerVars, BrokerHolds
  <2>6. BrokerHolds(Message(id, 1))'
    BY <2>4 DEF BrokerHolds
  <2>7. UNCHANGED <<wire, pc, job>> /\ apiWire' = apiWire \ {id}
    BY <2>1 DEF FlushApi, handlerVars
  <2>8. published' \subseteq Ids
    BY <1>1 DEF TypeInv, TypeOK
  <2>9. \A other \in published' : \/ other \in published /\ other \notin apiWire
                                  \/ other \in apiWire'
                                  \/ BrokerHolds(Message(other, 1))'
    BY <1>1, <2>6, <2>7
  <2>10. \A s \in Slots : MayAck(s)' => MayAck(s) /\ job'[s] = job[s]
    BY <1>1, <2>7 DEF MayAck
  <2> QED
    BY <1>1, <1>2, <2>5, <2>7, <2>8, <2>9, <2>10, Persistence
<1>4. CASE Consume
  <2>1. PICK s \in Slots, n \in Messages : Receive(s, n)
    BY <1>4 DEF Consume
  <2>2. \A m \in Messages : ready[m] > 0 => ready'[m] > 0 \/ m = n
    BY <2>1 DEF Receive, Take, TypeInv, TypeOK
  <2>3. /\ pc'[s] = "find" /\ job'[s] = n
        /\ \A t \in Slots : t # s => pc'[t] = pc[t] /\ job'[t] = job[t]
        /\ pc[s] = "idle" /\ worker[WorkerOf(s)] = "consuming"
    BY <2>1 DEF Receive, TypeInv, TypeOK
  <2>4. BrokerHolds(n)'
    BY <1>1, <2>3 DEF BrokerHolds
  <2>5. \A m \in Messages : BrokerHolds(m) => BrokerHolds(m)'
    BY <1>1, <2>2, <2>3, <2>4 DEF BrokerHolds
  <2>6. UNCHANGED <<wire, apiWire, published>> /\ published' \subseteq Ids
    BY <2>1 DEF Receive, apiVars, TypeInv, TypeOK
  <2>7. \A t \in Slots : MayAck(t)' => MayAck(t) /\ job'[t] = job[t]
    BY <1>1, <2>3 DEF MayAck, PassedSteps
  <2> QED
    BY <1>1, <1>2, <2>5, <2>6, <2>7, Persistence
<1>5. CASE \E w \in Workers : FlushWorker(w)
  <2>1. PICK w \in Workers, n \in Messages : Flush(w, n)
    BY <1>5 DEF FlushWorker
  <2>2. /\ \A m \in Messages : ready[m] > 0 => ready'[m] > 0
        /\ ready'[n] > 0
    BY <2>1 DEF Flush, Add, TypeInv, TypeOK
  <2>3. \A v \in Workers, m \in Messages :
          wire[v][m] > 0 => wire'[v][m] > 0 \/ m = n
    BY <2>1 DEF Flush, Take, TypeInv, TypeOK
  <2>4. UNCHANGED <<pc, job, apiWire, published>> /\ published' \subseteq Ids
    BY <2>1 DEF Flush, apiVars, handlerVars, TypeInv, TypeOK
  <2>5. BrokerHolds(n)'
    BY <2>2 DEF BrokerHolds
  <2>6. \A m \in Messages : BrokerHolds(m) => BrokerHolds(m)'
    BY <1>1, <2>2, <2>4 DEF BrokerHolds
  <2>7. \A t \in Slots : MayAck(t)' => MayAck(t) /\ job'[t] = job[t]
    BY <1>1, <2>4 DEF MayAck
  <2> QED
    BY <1>1, <1>2, <2>3, <2>4, <2>5, <2>6, <2>7, Persistence
<1> QED
  BY <1>3, <1>4, <1>5

\* Nothing is lost by the steps of a handler up to its ack.
LEMMA HandlerLoss ==
  ASSUME LossInv, TypeInv', NothingLost, Without(LossEvents)', NEW s \in Slots,
         HandlerStep(s), ~AckThrows(s), ~AckArrives(s)
  PROVE  NothingLost'
<1>1. TypeInv /\ SentInv /\ EarlyInv
  BY DEF LossInv, RefusalInv, EarlyInv
<1>2. ~Spend("db")
  BY <1>1, NoLossEvent DEF LossEvents
<1>3. WorkerOf(s) \in Workers
  BY SlotWorker
<1>j. pc[s] # "idle" => job[s].id \in Ids /\ job[s].attempt \in Attempts
  BY <1>1, MessageFacts DEF TypeInv, HandlersTyped
<1>f. \A a : AfterFailure(a) \in {"backoff", "saveFailed"}
  BY DEF AfterFailure
<1>4. CASE Find(s) \/ Recover(s)
  <2>1. /\ pc[s] # "idle"
        /\ UNCHANGED <<apiVars, store, queueVars, worker, closing, historyVars>>
    BY <1>4 DEF Find, Recover
  <2>2. PICK step, record : /\ Goto(s, step, record)
                            /\ step \in {"ack", "start", "backoff", "saveFailed"}
                            /\ step = "ack" => store[job[s].id].status
                                                  \in {"absent", "sent"}
    BY <1>4, <1>f DEF Find, Recover, IsDone
  <2>3. step = "ack" => Settled(job[s].id)
    BY <1>1, <1>j, <2>1, <2>2 DEF Settled, Missing, SentInv, SentMeansDelivered
  <2>4. \A id \in Ids : Settled(id) => Settled(id)'
    BY <2>1 DEF Settled, Missing, historyVars
  <2>5. job' = job
    BY <2>2 DEF Goto
  <2>6. step = "ack" => Settled(job[s].id)'
    BY <2>1, <2>3, <2>5 DEF Settled, Missing, historyVars
  <2>7. step \in PassedSteps => Covered(s)'
    BY <2>2, <2>6 DEF PassedSteps, Covered
  <2>8. UNCHANGED <<ready, wire, worker, closing, apiVars>> /\ step # "idle"
    BY <2>1, <2>2 DEF queueVars
  <2> QED
    BY <1>1, <2>1, <2>2, <2>4, <2>7, <2>8, GotoLoss
<1>5. CASE RetryThrows(s) \/ Ack(s)
  <2>1. /\ pc[s] # "idle"
        /\ UNCHANGED <<apiVars, store, ready, wire, worker, closing,
                       historyVars>>
    BY <1>5 DEF RetryThrows, Ack, queueVars
  <2>2. PICK step : Goto(s, step, NoRecord) /\ step \in {"ack", "acked"}
    BY <1>5 DEF RetryThrows, Ack
  <2>3. \A id \in Ids : Settled(id) => Settled(id)'
    BY <2>1 DEF Settled, Missing, historyVars
  <2>4. \/ Covered(s)'
        \/ /\ pc[s] \in PassedSteps
           /\ step = "acked" => WorkerOf(s) \notin closing
    <3>1. CASE RetryThrows(s)
      <4>1. pc'[s] = "ack"
        BY <1>1, <3>1 DEF RetryThrows, Goto, TypeInv, TypeOK
      <4> QED
        BY <2>1, <3>1, <4>1 DEF RetryThrows, Covered, MayAck
    <3>2. CASE Ack(s)
      BY <3>2 DEF Ack, PassedSteps
    <3> QED
      BY <1>5, <3>1, <3>2
  <2> QED
    BY <1>1, <2>1, <2>2, <2>3, <2>4, GotoLoss
<1>6. CASE Start(s) \/ SaveSent(s) \/ SaveRetry(s) \/ SaveGiveUp(s)
  <2>1. PICK new, next : Save(s, new, next) /\ next \in {"send", "ack"}
    BY <1>6 DEF Start, SaveSent, SaveRetry, SaveGiveUp
  <2>2. /\ pc[s] # "idle"
        /\ UNCHANGED <<ready, wire, worker, closing, apiVars, delivered>>
    BY <1>6, <2>1 DEF Start, SaveSent, SaveRetry, SaveGiveUp, Save, queueVars
  <2>3. \A id \in Ids : Missing(id) => Missing(id)'
    BY <1>1, <1>j, <2>1, <2>2 DEF Save, Missing, TypeInv, TypeOK
  <2>4. gaveUp \subseteq gaveUp'
    BY <1>6 DEF Start, SaveSent, SaveRetry, SaveGiveUp
  <2>5. \A id \in Ids : Settled(id) => Settled(id)'
    BY <2>2, <2>3, <2>4 DEF Settled
  <2>6. job' = job
    BY <2>1 DEF Save, Goto
  <2>7. next \in PassedSteps =>
          Covered(s)' \/ (pc[s] \in PassedSteps /\ next # "acked")
    <3>1. CASE Start(s)
      <4>1. pc'[s] = "send"
        BY <1>1, <3>1 DEF Start, Save, Goto, TypeInv, TypeOK
      <4> QED
        BY <4>1 DEF Covered, MayAck, PassedSteps
    <3>2. CASE SaveSent(s)
      <4>1. delivered'[job'[s].id] > 0
        BY <1>1, <2>2, <2>6, <3>2 DEF SaveSent, SentInv, DeliveredFirst
      <4> QED
        BY <4>1 DEF Covered, Settled
    <3>3. CASE SaveRetry(s)
      BY <2>1, <3>3 DEF SaveRetry, PassedSteps
    <3>4. CASE SaveGiveUp(s)
      <4>1. job'[s].id \in gaveUp'
        BY <2>6, <3>4 DEF SaveGiveUp
      <4> QED
        BY <4>1 DEF Covered, Settled
    <3> QED
      BY <1>6, <3>1, <3>2, <3>3, <3>4
  <2>8. /\ Goto(s, next, IF next = "ack" THEN NoRecord ELSE new)
        /\ next # "idle"
    BY <2>1 DEF Save
  <2> QED
    BY <1>1, <2>2, <2>5, <2>7, <2>8, GotoLoss
<1>7. CASE StartThrows(s) \/ SaveSentThrows(s) \/ SaveRetryThrows(s)
           \/ SaveGiveUpThrows(s)
  <2>1. PICK next : SaveFails(s, next) /\ next \in {"recover", "ack"}
    BY <1>7 DEF StartThrows, SaveSentThrows, SaveRetryThrows, SaveGiveUpThrows
  <2>2. /\ pc[s] # "idle"
        /\ UNCHANGED <<store, ready, wire, worker, closing, apiVars,
                       historyVars>>
    BY <1>7, <2>1 DEF StartThrows, SaveSentThrows, SaveRetryThrows,
       SaveGiveUpThrows, SaveFails, queueVars
  <2>3. Missing(job[s].id)
    BY <1>2, <2>1 DEF SaveFails, SaveThrows
  <2>4. job' = job
    BY <2>1 DEF SaveFails, Goto
  <2>5. Settled(job[s].id)'
    BY <2>2, <2>3, <2>4 DEF Settled, Missing
  <2>6. \A id \in Ids : Settled(id) => Settled(id)'
    BY <2>2 DEF Settled, Missing, historyVars
  <2>7. Covered(s)'
    BY <2>5 DEF Covered
  <2>8. Goto(s, next, NoRecord) /\ next # "idle"
    BY <2>1 DEF SaveFails
  <2> QED
    BY <1>1, <2>2, <2>6, <2>7, <2>8, GotoLoss
<1>8. CASE SendAccepted(s) \/ SendRefused(s) \/ SendTimesOut(s)
  <2>1. PICK taken, next :
          /\ Send(s, taken, next)
          /\ taken \in {0, 1}
          /\ next \in {"saveSent", "backoff", "saveFailed"}
    BY <1>8, <1>f DEF SendAccepted, SendRefused, SendTimesOut
  <2>2. /\ pc[s] # "idle"
        /\ UNCHANGED <<store, ready, wire, worker, closing, apiVars, gaveUp>>
    BY <2>1 DEF Send, queueVars
  <2>3. \A id \in Ids : delivered[id] > 0 => delivered'[id] > 0
    BY <1>1, <1>j, <2>1, <2>2 DEF Send, TypeInv, TypeOK
  <2>4. \A id \in Ids : Settled(id) => Settled(id)'
    BY <2>2, <2>3 DEF Settled, Missing
  <2>5. Goto(s, next, seen[s]) /\ next # "idle" /\ next \notin PassedSteps
    BY <2>1 DEF Send, PassedSteps
  <2> QED
    BY <1>1, <2>2, <2>4, <2>5, GotoLoss
<1>9. CASE Retry(s)
  <2> DEFINE w == WorkerOf(s)
             retry == Message(job[s].id, job[s].attempt + 1)
  <2>1. /\ pc[s] = "backoff"
        /\ UNCHANGED <<apiVars, store, ready, worker, closing, historyVars>>
        /\ Goto(s, "saveQueued", seen[s])
    BY <1>9 DEF Retry
  <2>2. job[s].attempt + 1 \in Attempts /\ job[s].attempt + 1 > job[s].attempt
    BY <1>1, <1>j, <2>1, ParametersAssumption
       DEF TypeInv, HandlersTyped, Attempts
  <2>3. retry \in Messages
    BY <1>j, <2>1, <2>2, MessageFacts
  <2>4. /\ wire'[w][retry] > 0
        /\ \A v \in Workers, m \in Messages : wire[v][m] > 0 => wire'[v][m] > 0
    BY <1>1, <1>3, <1>9, <2>3 DEF Retry, Add, TypeInv, TypeOK
  <2>5. \A id \in Ids : Settled(id) => Settled(id)'
    BY <2>1 DEF Settled, Missing, historyVars
  <2>6. job' = job
    BY <2>1 DEF Goto
  <2>7. PassedOn(w, job[s].id, job[s].attempt)'
    BY <2>2, <2>4, <2>6 DEF PassedOn
  <2>8. Covered(s)'
    BY <2>7 DEF Covered
  <2> QED
    BY <1>1, <2>1, <2>4, <2>5, <2>8, GotoLoss
<1> QED
  BY <1>2, <1>4, <1>5, <1>6, <1>7, <1>8, <1>9 DEF HandlerStep, FindThrows,
     RecoverThrows

\* The ack takes the last copy of a message away: what covers its handler is
\* not in the socket any more, so it is settled or with the broker.
LEMMA AckLoss ==
  ASSUME TypeInv, EarlyInv, NothingLost, NEW s \in Slots, AckArrives(s),
         worker[WorkerOf(s)] = "consuming"
  PROVE  NothingLost'
<1>1. PICK w \in Workers : w = WorkerOf(s)
  BY SlotWorker
<1>2. PICK id \in Ids, a \in Attempts : job[s] = Message(id, a)
  BY MessageFacts DEF AckArrives, TypeInv, HandlersTyped
<1>3. /\ pc'[s] = "idle"
      /\ \A t \in Slots : t # s => pc'[t] = pc[t] /\ job'[t] = job[t]
      /\ UNCHANGED <<ready, wire, worker, closing, apiVars, store, historyVars>>
  BY DEF AckArrives, TypeInv, TypeOK, queueVars
<1>4. \A other \in Ids : Settled(other) => Settled(other)'
  BY <1>3 DEF Settled, Missing, historyVars
<1>5. \A m \in Messages : m # Message(id, a) /\ BrokerHolds(m) => BrokerHolds(m)'
  BY <1>2, <1>3 DEF BrokerHolds
<1>6. \A m \in Messages : wire[w][m] = 0
  BY <1>1 DEF AckArrives, NoneOf
<1>7. \/ Settled(id)
      \/ \E b \in Attempts : b > a /\ BrokerHolds(Message(id, b))
  <2>1. Settled(job[s].id) \/ PassedOn(w, job[s].id, job[s].attempt)
    BY <1>1 DEF NothingLost, Covered, MayAck, AckArrives
  <2>2. job[s].id = id /\ job[s].attempt = a
    BY <1>2, MessageFacts
  <2>3. \A b \in Attempts : ~(wire[w][Message(id, b)] > 0)
    BY <1>6, MessageFacts
  <2> QED
    BY <2>1, <2>2, <2>3 DEF PassedOn
<1>8. ASSUME NEW other \in Ids, NEW b \in Attempts, BrokerHolds(Message(other, b))
      PROVE  \/ BrokerHolds(Message(other, b))'
             \/ other = id /\ b = a
  BY <1>5, <1>8, MessageFacts
<1>9. \/ Settled(id)'
      \/ \E b \in Attempts : b > a /\ BrokerHolds(Message(id, b))'
  <2>1. CASE Settled(id)
    BY <1>4, <2>1
  <2>2. ASSUME NEW b \in Attempts, b > a, BrokerHolds(Message(id, b))
        PROVE  BrokerHolds(Message(id, b))'
    BY <1>8, <2>2 DEF Attempts
  <2> QED
    BY <1>7, <2>1, <2>2
<1>10. ASSUME NEW other \in published' PROVE InHand(other)'
  <2>1. other \in published /\ other \in Ids
    BY <1>3, <1>10 DEF apiVars, TypeInv, TypeOK
  <2>2. \/ Settled(other)
        \/ other \in apiWire
        \/ \E b \in Attempts : BrokerHolds(Message(other, b))
    BY <2>1 DEF NothingLost, InHand
  <2>3. CASE other \in apiWire
    BY <1>3, <2>3 DEF apiVars, InHand
  <2>4. CASE \E b \in Attempts : BrokerHolds(Message(other, b))
    BY <1>8, <1>9, <2>1, <2>4 DEF InHand
  <2> QED
    BY <1>4, <2>1, <2>2, <2>3, <2>4 DEF InHand
<1>11. ASSUME NEW t \in Slots, MayAck(t)' PROVE Covered(t)'
  <2>1. t # s /\ MayAck(t) /\ job'[t] = job[t] /\ pc[t] # "idle"
    BY <1>3, <1>11 DEF MayAck, PassedSteps
  <2>2. PICK other \in Ids, c \in Attempts, v \in Workers :
          other = job[t].id /\ c = job[t].attempt /\ v = WorkerOf(t)
    BY <2>1, MessageFacts, SlotWorker DEF TypeInv, HandlersTyped
  <2>3. Settled(other) \/ PassedOn(v, other, c)
    BY <2>1, <2>2 DEF NothingLost, Covered
  <2>4. Settled(other) => Settled(other)'
    BY <1>4
  <2>5. ASSUME NEW b \in Attempts, b > c,
               \/ BrokerHolds(Message(other, b))
               \/ wire[v][Message(other, b)] > 0
        PROVE  Settled(other)' \/ PassedOn(v, other, c)'
    <3>1. CASE wire[v][Message(other, b)] > 0
      BY <1>3, <2>5, <3>1 DEF PassedOn
    <3>2. CASE BrokerHolds(Message(other, b))'
      BY <2>5, <3>2 DEF PassedOn
    <3>3. CASE other = id /\ b = a
      <4>1. ASSUME NEW d \in Attempts, d > a, BrokerHolds(Message(id, d))'
            PROVE  PassedOn(v, other, c)'
        <5>1. d > c
          BY <2>5, <3>3, <4>1 DEF Attempts
        <5> QED
          BY <3>3, <4>1, <5>1 DEF PassedOn
      <4> QED
        BY <1>9, <3>3, <4>1
    <3> QED
      BY <1>8, <2>5, <3>1, <3>2, <3>3
  <2>6. Settled(other)' \/ PassedOn(v, other, c)'
    BY <2>3, <2>4, <2>5 DEF PassedOn
  <2> QED
    BY <2>1, <2>2, <2>6 DEF Covered
<1>12. \A t \in Slots : Covered(t)'
  BY <1>11 DEF Covered
<1> QED
  BY <1>10, <1>12 DEF NothingLost

\* An ack on a channel that broke takes nothing from the broker, which took the
\* message back when the channel broke.
LEMMA DeadAckLoss ==
  ASSUME TypeInv, NEW s \in Slots, AckArrives(s), NothingLost, EarlyInv,
         worker[WorkerOf(s)] # "consuming"
  PROVE  NothingLost'
<1>1. /\ pc'[s] = "idle"
      /\ \A t \in Slots : t # s => pc'[t] = pc[t] /\ job'[t] = job[t]
      /\ UNCHANGED <<ready, wire, worker, closing, apiVars, store, historyVars>>
  BY DEF AckArrives, TypeInv, TypeOK, queueVars
<1>2. \A id \in Ids : Settled(id) => Settled(id)'
  BY <1>1 DEF Settled, Missing, historyVars
<1>3. \A m \in Messages : BrokerHolds(m) => BrokerHolds(m)'
  BY <1>1 DEF BrokerHolds
<1>4. published' = published /\ apiWire' = apiWire /\ published \subseteq Ids
  BY <1>1 DEF apiVars, TypeInv, TypeOK
<1>5. \A id \in published' : \/ id \in published /\ id \notin apiWire
                             \/ id \in apiWire'
  BY <1>4
<1>6. \A t \in Slots : MayAck(t)' => MayAck(t) /\ job'[t] = job[t]
  BY <1>1 DEF MayAck, PassedSteps
<1> QED
  BY <1>1, <1>2, <1>3, <1>4, <1>5, <1>6, Persistence

\* Nothing is lost with the process of a worker.
LEMMA DeathLoss ==
  ASSUME TypeInv, EarlyInv, NothingLost, NEW w \in Workers, Dies(w)
  PROVE  NothingLost'
<1>1. /\ worker' \in [Workers -> WorkerStates]
      /\ worker'[w] # "consuming"
  BY DEF Dies, TypeInv, TypeOK, WorkerStates
<1>2. \A v \in Workers \ {w} : /\ worker'[v] = worker[v]
                               /\ wire'[v] = wire[v]
                               /\ v \in closing => v \in closing'
  BY DEF Dies, TypeInv, TypeOK
<1>3. \A t \in Slots : WorkerOf(t) # w => pc'[t] = pc[t] /\ job'[t] = job[t]
  BY DEF Dies
<1>4. /\ ready' = IF worker[w] = "consuming" THEN Requeued(w) ELSE ready
      /\ UNCHANGED <<apiVars, store, historyVars>>
  BY DEF Dies
<1> QED
  BY <1>1, <1>2, <1>3, <1>4, LostWorkerLoss

LEMMA LossStep == LossInv /\ [Next]_vars => LossInv'
<1> SUFFICES ASSUME LossInv, [Next]_vars PROVE LossInv'
  OBVIOUS
<1>1. TypeInv /\ SentInv /\ EarlyInv
  BY DEF LossInv, RefusalInv, EarlyInv
<1>2. TypeInv' /\ SentInv' /\ EarlyInv'
  BY <1>1, TypeStep, SentStep, EarlyStep
<1>r. RefusalInv'
  BY <1>1, RefusalStep DEF LossInv
<1>3. ASSUME Without(LossEvents)' PROVE NothingLost'
  <2>1. \A e \in LossEvents : e \in Events
    BY DEF LossEvents, Events
  <2>2. Without(LossEvents)
    BY <1>1, <1>3, <2>1, EventsCount DEF Without, TypeInv, TypeOK
  <2>3. NothingLost
    BY <2>2 DEF LossInv
  <2>4. CASE \E id \in Ids : \/ ClientStep(id) \/ RequestStep(id)
                            \/ LoseApiWire(id) \/ CrashApi(id)
    BY <1>1, <1>3, <2>3, <2>4, ApiLoss
  <2>5. CASE \/ \E id \in Ids : FlushApi(id)
             \/ Consume
             \/ \E w \in Workers : FlushWorker(w)
    BY <1>1, <1>2, <2>3, <2>5, QueueLoss
  <2>6. ASSUME NEW s \in Slots, HandlerStep(s) PROVE NothingLost'
    <3>1. CASE AckArrives(s)
      BY <1>1, <2>3, <3>1, AckLoss, DeadAckLoss
    <3>2. CASE AckThrows(s)
      <4>1. PICK w \in Workers : w = WorkerOf(s)
        BY SlotWorker
      <4>2. Dies(w)
        BY <3>2, <4>1 DEF AckThrows
      <4> QED
        BY <1>1, <2>3, <4>2, DeathLoss
    <3> QED
      BY <1>2, <1>3, <2>3, <2>6, <3>1, <3>2, HandlerLoss
  <2>7. ASSUME NEW w \in Workers, CrashWorker(w) \/ Exit(w)
        PROVE  NothingLost'
    <3>1. Dies(w)
      BY <2>7 DEF CrashWorker, Exit
    <3> QED
      BY <1>1, <2>3, <3>1, DeathLoss
  <2>8. ASSUME NEW w \in Workers, DropConnection(w) \/ CloseArrives(w)
        PROVE  NothingLost'
    <3>1. /\ worker' \in [Workers -> WorkerStates]
          /\ worker'[w] # "consuming"
      BY <1>1, <1>2, <2>8 DEF DropConnection, CloseArrives, TypeInv, TypeOK
    <3>2. \A v \in Workers \ {w} : /\ worker'[v] = worker[v]
                                   /\ wire'[v] = wire[v]
                                   /\ v \in closing => v \in closing'
      BY <1>1, <2>8 DEF DropConnection, CloseArrives, TypeInv, TypeOK
    <3>3. /\ \A t \in Slots : WorkerOf(t) # w => pc'[t] = pc[t] /\ job'[t] = job[t]
          /\ UNCHANGED <<apiVars, store, historyVars>>
      BY <2>8 DEF DropConnection, CloseArrives, handlerVars
    <3>4. ready' = IF worker[w] = "consuming" THEN Requeued(w) ELSE ready
      BY <2>8 DEF DropConnection, CloseArrives
    <3> QED
      BY <1>1, <2>3, <3>1, <3>2, <3>3, <3>4, LostWorkerLoss
  <2>9. ASSUME NEW w \in Workers, Restart(w) \/ Reconnect(w) PROVE NothingLost'
    <3>1. /\ UNCHANGED <<ready, wire, closing, pc, job, apiVars, store,
                         historyVars>>
          /\ \A v \in Workers : v # w => worker'[v] = worker[v]
          /\ worker[w] # "consuming"
      BY <1>1, <2>9 DEF Restart, Reconnect, queueVars, handlerVars, TypeInv,
         TypeOK
    <3>2. ASSUME NEW t \in Slots, WorkerOf(t) = w, worker'[w] = "consuming"
          PROVE  pc'[t] = "idle"
      BY <1>1, <2>9, <3>1, <3>2 DEF Restart, Reconnect, EarlyInv,
         DownMeansIdle, TypeInv, TypeOK
    <3>3. \A id \in Ids : Settled(id) => Settled(id)'
      BY <3>1 DEF Settled, Missing, historyVars
    <3>4. \A m \in Messages : BrokerHolds(m) => BrokerHolds(m)'
      BY <3>1, SlotWorker DEF BrokerHolds
    <3>5. published' = published /\ apiWire' = apiWire /\ published \subseteq Ids
      BY <1>1, <3>1 DEF apiVars, TypeInv, TypeOK
    <3>6. \A id \in published' : \/ id \in published /\ id \notin apiWire
                                 \/ id \in apiWire'
      BY <3>5
    <3>7. \A t \in Slots : MayAck(t)' => MayAck(t) /\ job'[t] = job[t]
      BY <3>1, <3>2, SlotWorker DEF MayAck, PassedSteps
    <3> QED
      BY <1>1, <2>3, <3>1, <3>3, <3>4, <3>5, <3>6, <3>7, Persistence
  <2>10. ASSUME NEW w \in Workers, ShutDown(w) PROVE NothingLost'
    <3>1. /\ UNCHANGED <<ready, wire, worker, pc, job, apiVars, store,
                         historyVars>>
          /\ closing \subseteq closing'
      BY <2>10 DEF ShutDown, queueVars, handlerVars
    <3>2. \A id \in Ids : Settled(id) => Settled(id)'
      BY <3>1 DEF Settled, Missing, historyVars
    <3>3. \A m \in Messages : BrokerHolds(m) => BrokerHolds(m)'
      BY <3>1 DEF BrokerHolds
    <3>4. published' = published /\ apiWire' = apiWire /\ published \subseteq Ids
      BY <1>1, <3>1 DEF apiVars, TypeInv, TypeOK
    <3>5. \A id \in published' : \/ id \in published /\ id \notin apiWire
                                 \/ id \in apiWire'
      BY <3>4
    <3>6. \A t \in Slots : MayAck(t)' => MayAck(t) /\ job'[t] = job[t]
      BY <3>1 DEF MayAck
    <3> QED
      BY <1>1, <2>3, <3>1, <3>2, <3>3, <3>4, <3>5, <3>6, Persistence
  <2>11. CASE UNCHANGED vars
    BY <2>3, <2>11 DEF vars, apiVars, queueVars, handlerVars, historyVars,
       NothingLost, InHand, Covered, MayAck, PassedOn, Settled, Missing,
       BrokerHolds
  <2> QED
    BY <2>4, <2>5, <2>6, <2>7, <2>8, <2>9, <2>10, <2>11 DEF Next, ShutDownStep
<1> QED
  BY <1>2, <1>r, <1>3 DEF LossInv, EarlyInv

LEMMA InitLoss == Init => LossInv
<1> SUFFICES ASSUME Init PROVE LossInv
  OBVIOUS
<1>1. SentInv
  BY DEF Init, SentInv, SentMeansDelivered, DeliveredFirst, NoRecord
<1>2. EarlyInv
  BY InitRefusal DEF Init, EarlyInv, RefusalInv, DownMeansIdle
<1>3. NothingLost
  BY SlotWorker DEF Init, NothingLost, Covered, MayAck, PassedSteps
<1> QED
  BY <1>1, <1>2, <1>3, InitType, InitRefusal DEF LossInv, EarlyInv

\* A published notification is delivered, given up, deleted or still in hand,
\* in every behaviour in which workers crash and connections break at will and
\* no database call or API replica fails (createAndQueue, handleFailure,
\* consumeFromQueue).
THEOREM NothingIsLost == Safe => []NotLost
<1>1. LossInv => NotLost
  BY DEF LossInv, LossEvents, NothingLost, NotLost
<1> QED
  BY InitLoss, LossStep, <1>1, PTL DEF Safe
=============================================================================
