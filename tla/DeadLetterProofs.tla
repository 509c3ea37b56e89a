-------------------------- MODULE DeadLetterProofs --------------------------
(***************************************************************************)
(* For every number of messages, workers and retries: a message that cannot*)
(* be handled neither vanishes nor multiplies, its tries come in turn, and *)
(* the metrics show every message there was.                               *)
(***************************************************************************)
EXTENDS DeadLetter, FiniteSetTheorems, TLAPS

-----------------------------------------------------------------------------
(* Lemmas about messages, slots and what is counted. *)

LEMMA MessageFacts ==
  /\ \A id \in Ids, r \in 0..MaxMessageRetries :
       /\ Message(id, r) \in Messages
       /\ Message(id, r).id = id
       /\ Message(id, r).retry = r
  /\ \A m \in Messages : /\ m.id \in Ids
                         /\ m.retry \in 0..MaxMessageRetries
                         /\ m = Message(m.id, m.retry)
BY DEF Message, Messages

\* While a retry is left its copy is a message of the same notification.
LEMMA CopyFacts ==
  ASSUME NEW m \in Messages
  PROVE  /\ Copy(m).id = m.id
         /\ Copy(m).retry = m.retry + 1
         /\ HasRetries(m) <=> Copy(m) \in Messages
         /\ m.retry \in Nat
BY ParametersAssumption DEF Copy, Message, Messages, HasRetries

LEMMA SlotWorker == \A s \in Slots : WorkerOf(s) \in Workers
BY DEF Slots, WorkerOf

LEMMA SlotsFinite == IsFiniteSet(Slots)
<1>1. IsFiniteSet(1..Prefetch)
  BY FS_Interval, ParametersAssumption
<1> QED
  BY <1>1, FS_Product, ParametersAssumption DEF Slots

\* There are finitely many different messages.
LEMMA MessagesFinite == IsFiniteSet(Messages)
<1> DEFINE pairs == Ids \X (0..MaxMessageRetries)
           f == [p \in pairs |-> Message(p[1], p[2])]
<1>i. IsFiniteSet(0..MaxMessageRetries)
  BY FS_Interval, ParametersAssumption
<1>1. IsFiniteSet(pairs)
  BY <1>i, FS_Product, ParametersAssumption
<1>2. f \in Surjection(pairs, Messages)
  <2>1. f \in [pairs -> Messages]
    BY MessageFacts
  <2>2. ASSUME NEW m \in Messages PROVE \E p \in pairs : f[p] = m
    <3>1. <<m.id, m.retry>> \in pairs /\ f[<<m.id, m.retry>>] = m
      BY MessageFacts
    <3> QED
      BY <3>1
  <2> QED
    BY <2>1, <2>2 DEF Surjection
<1> QED
  BY <1>1, <1>2, FS_Surjection

LEMMA EachFinite ==
  ASSUME NEW bag \in [Messages -> Nat]
  PROVE  IsFiniteSet(Each(bag)) /\ Total(bag) \in Nat
<1> DEFINE of(m) == {m} \X (1..bag[m])
           all == {of(m) : m \in Messages}
           f == [m \in Messages |-> of(m)]
<1>1. f \in Surjection(Messages, all)
  BY DEF Surjection
<1>2. IsFiniteSet(all)
  BY <1>1, MessagesFinite, FS_Surjection
<1>3. ASSUME NEW m \in Messages PROVE IsFiniteSet(of(m))
  <2>1. bag[m] \in Int /\ 1 \in Int
    OBVIOUS
  <2> QED
    BY <2>1, FS_Interval, FS_Singleton, FS_Product
<1>4. \A T \in all : IsFiniteSet(T)
  BY <1>3
<1>5. IsFiniteSet(UNION all)
  BY <1>2, <1>4, FS_UNION
<1>6. Each(bag) = UNION all
  BY DEF Each
<1> QED
  BY <1>5, <1>6, FS_CardinalityType DEF Total

\* One more copy is one more.
LEMMA TotalAdd ==
  ASSUME NEW bag \in [Messages -> Nat], NEW m \in Messages
  PROVE  Total(Add(bag, m)) = Total(bag) + 1
<1> DEFINE new == <<m, bag[m] + 1>>
<1>1. Add(bag, m) \in [Messages -> Nat]
  BY DEF Add
<1>2. \A b \in [Messages -> Nat] :
        Each(b) = {c \in Messages \X Nat : c[2] \in 1..b[c[1]]}
  <2> SUFFICES ASSUME NEW b \in [Messages -> Nat], NEW c
               PROVE  c \in Each(b) <=> c \in Messages \X Nat /\ c[2] \in 1..b[c[1]]
    OBVIOUS
  <2>1. c \in Each(b) => c \in Messages \X Nat /\ c[2] \in 1..b[c[1]]
    BY DEF Each
  <2>2. c \in Messages \X Nat /\ c[2] \in 1..b[c[1]] => c \in {c[1]} \X (1..b[c[1]])
    OBVIOUS
  <2> QED
    BY <2>1, <2>2 DEF Each
<1>3. Each(Add(bag, m)) = Each(bag) \cup {new}
  <2> DEFINE more == Add(bag, m)
  <2>1. \A n \in Messages : more[n] = IF n = m THEN bag[m] + 1 ELSE bag[n]
    BY DEF Add
  <2>2. ASSUME NEW c \in Messages \X Nat
        PROVE  c[2] \in 1..more[c[1]] <=> c[2] \in 1..bag[c[1]] \/ c = new
    <3>1. CASE c[1] = m
      <4>1. c = <<m, c[2]>> /\ c[2] \in Nat /\ bag[m] \in Nat
        BY <3>1
      <4>2. more[c[1]] = bag[m] + 1
        BY <2>1, <3>1
      <4> QED
        BY <3>1, <4>1, <4>2
    <3>2. CASE c[1] # m
      BY <2>1, <3>2
    <3> QED
      BY <3>1, <3>2
  <2>3. new \in Messages \X Nat
    OBVIOUS
  <2> HIDE DEF new, more
  <2>4. Each(more) = {c \in Messages \X Nat : c[2] \in 1..more[c[1]]}
    BY <1>1, <1>2 DEF more
  <2>5. Each(bag) = {c \in Messages \X Nat : c[2] \in 1..bag[c[1]]}
    BY <1>2
  <2> QED
    BY <2>2, <2>3, <2>4, <2>5 DEF more
<1>4. new \notin Each(bag)
  BY <1>2
<1>5. IsFiniteSet(Each(bag))
  BY EachFinite
<1> QED
  BY <1>3, <1>4, <1>5, FS_AddElement DEF Total

LEMMA TotalNone == Total(NoneOf) = 0
<1>1. Each(NoneOf) = {}
  BY DEF Each, NoneOf
<1> QED
  BY <1>1, FS_EmptySet DEF Total

\* A message of which there is a copy is counted.
LEMMA EachHas ==
  ASSUME NEW bag \in [Messages -> Nat], NEW m \in Messages, bag[m] > 0
  PROVE  <<m, 1>> \in Each(bag)
<1>1. <<m, 1>> \in {m} \X (1..bag[m])
  OBVIOUS
<1> QED
  BY <1>1 DEF Each

\* What the broker counts as unacknowledged.
LEMMA UnackedFacts ==
  ASSUME NEW w \in Workers, NEW m
  PROVE  /\ Unacked(w, m) \in Nat
         /\ Unacked(w, m) > 0
              <=> \E s \in Slots : WorkerOf(s) = w /\ s \in Busy /\ job[s] = m
         /\ (\A s, t \in Busy : job[s] = m /\ job[t] = m => s = t)
              => Unacked(w, m) <= 1
<1> DEFINE held == {s \in SlotsOf(w) : s \in Busy /\ job[s] = m}
<1>1. IsFiniteSet(held)
  BY SlotsFinite, FS_Subset DEF SlotsOf
<1>2. Cardinality(held) \in Nat /\ (Cardinality(held) = 0 <=> held = {})
  BY <1>1, FS_CardinalityType, FS_EmptySet
<1>3. held # {} <=> \E s \in Slots : WorkerOf(s) = w /\ s \in Busy /\ job[s] = m
  BY DEF SlotsOf
<1>4. ASSUME \A s, t \in Busy : job[s] = m /\ job[t] = m => s = t
      PROVE  Cardinality(held) <= 1
  <2>1. CASE held = {}
    BY <1>2, <2>1
  <2>2. CASE held # {}
    <3>1. PICK s \in held : TRUE
      BY <2>2
    <3>2. held = {s}
      BY <1>4, <3>1
    <3> QED
      BY <3>2, FS_Singleton
  <2> QED
    BY <2>1, <2>2
<1> QED
  BY <1>2, <1>3, <1>4 DEF Unacked

-----------------------------------------------------------------------------
(* Types. *)

\* A slot in use holds a message.
LEMMA BusyFacts ==
  ASSUME TypeOK, NEW s \in Slots
  PROVE  /\ s \in Busy <=> pc[s] # "idle"
         /\ pc[s] # "idle" => job[s] \in Messages
BY DEF TypeOK, Busy

LEMMA DisconnectsTyped ==
  ASSUME TypeOK, NEW w \in Workers, NEW state \in {"deaf", "down"},
         Disconnects(w, state), spent' \in [Events -> Nat]
  PROVE  TypeOK'
<1>1. ready' \in [Messages -> Nat]
  <2>1. \A m \in Messages : ready[m] + Unacked(w, m) \in Nat
    BY UnackedFacts DEF TypeOK
  <2> QED
    BY <2>1 DEF Disconnects
<1>2. /\ pc' \in [Slots -> {"idle", "delivered", "rejected"}]
      /\ job' \in [Slots -> Messages \union {NoMessage}]
      /\ \A s \in Slots : pc'[s] = "idle" <=> job'[s] = NoMessage
  BY DEF Disconnects, TypeOK
<1>3. /\ copies' \in [Workers -> [Messages -> Nat]]
      /\ worker' \in [Workers -> {"consuming", "deaf", "down"}]
  BY DEF Disconnects, TypeOK, NoneOf
<1> QED
  BY <1>1, <1>2, <1>3 DEF Disconnects, TypeOK, metricsVars

LEMMA TypeStep == TypeOK /\ [Next]_vars => TypeOK'
<1> SUFFICES ASSUME TypeOK, [Next]_vars PROVE TypeOK'
  OBVIOUS
<1>s. \A e \in Events : Spend(e) => spent' \in [Events -> Nat]
  BY DEF Spend, TypeOK
<1>1. ASSUME NEW id \in Ids, Inject(id) PROVE TypeOK'
  <2>1. Message(id, 0) \in Messages
    BY MessageFacts, ParametersAssumption
  <2>2. ready' \in [Messages -> Nat]
    BY <1>1, <2>1 DEF Inject, Add, TypeOK
  <2> QED
    BY <1>1, <2>2 DEF Inject, TypeOK, workerVars, metricsVars
<1>2. ASSUME NEW s \in Slots, NEW m \in Messages, Receive(s, m) PROVE TypeOK'
  <2>1. ready' \in [Messages -> Nat]
    BY <1>2 DEF Receive, Take, TypeOK
  <2>2. /\ pc' \in [Slots -> {"idle", "delivered", "rejected"}]
        /\ job' \in [Slots -> Messages \union {NoMessage}]
        /\ \A t \in Slots : pc'[t] = "idle" <=> job'[t] = NoMessage
    BY <1>2, ParametersAssumption DEF Receive, TypeOK
  <2> QED
    BY <1>2, <2>1, <2>2 DEF Receive, TypeOK, metricsVars
<1>3. ASSUME NEW s \in Slots, Reject(s) PROVE TypeOK'
  <2>1. job[s] \in Messages /\ WorkerOf(s) \in Workers
    BY <1>3, BusyFacts, SlotWorker DEF Reject
  <2>2. copies' \in [Workers -> [Messages -> Nat]]
    <3>1. HasRetries(job[s]) => Copy(job[s]) \in Messages
      BY <2>1, CopyFacts
    <3> QED
      BY <1>3, <2>1, <3>1 DEF Reject, Add, TypeOK
  <2>3. /\ pc' \in [Slots -> {"idle", "delivered", "rejected"}]
        /\ \A t \in Slots : pc'[t] = "idle" <=> job'[t] = NoMessage
    BY <1>3 DEF Reject, TypeOK
  <2> QED
    BY <1>3, <2>2, <2>3 DEF Reject, TypeOK, brokerVars, metricsVars
<1>4. ASSUME NEW s \in Slots, NackArrives(s) PROVE TypeOK'
  <2>1. job[s] \in Messages
    BY <1>4, BusyFacts DEF NackArrives, Settle
  <2>2. dlq' \in [Messages -> Nat]
    BY <1>4, <2>1 DEF NackArrives, Add, TypeOK
  <2>3. /\ pc' \in [Slots -> {"idle", "delivered", "rejected"}]
        /\ job' \in [Slots -> Messages \union {NoMessage}]
        /\ \A t \in Slots : pc'[t] = "idle" <=> job'[t] = NoMessage
    BY <1>4 DEF NackArrives, Settle, TypeOK
  <2> QED
    BY <1>4, <2>2, <2>3 DEF NackArrives, Settle, TypeOK, metricsVars
<1>5. ASSUME NEW w \in Workers, NEW m \in Messages, CopyArrives(w, m)
      PROVE  TypeOK'
  <2>1. /\ ready' \in [Messages -> Nat]
        /\ copies' \in [Workers -> [Messages -> Nat]]
    BY <1>5 DEF CopyArrives, Add, Take, TypeOK
  <2> QED
    BY <1>5, <2>1 DEF CopyArrives, TypeOK, metricsVars
<1>6. ASSUME NEW w \in Workers, CrashWorker(w) \/ DropConnection(w)
      PROVE  TypeOK'
  BY <1>6, <1>s, DisconnectsTyped DEF CrashWorker, DropConnection, Events
<1>7. ASSUME NEW w \in Workers, Restart(w) PROVE TypeOK'
  BY <1>7 DEF Restart, TypeOK, brokerVars, metricsVars
<1>8. ASSUME Metrics PROVE TypeOK'
  <2>1. Total(ready) \in Nat /\ Total(dlq) \in Nat
    BY EachFinite DEF TypeOK
  <2>2. Cardinality(Busy) \in Nat
    BY SlotsFinite, FS_Subset, FS_CardinalityType DEF Busy
  <2>3. \A q \in Queues : Counted(q) \in Nat
    BY <2>1, <2>2 DEF Counted
  <2>4. CASE AskMetrics
    BY <1>s, <2>1, <2>4 DEF AskMetrics, TypeOK, brokerVars, workerVars, Events
  <2>5. ASSUME NEW q \in Queues, FetchQueue(q) PROVE TypeOK'
    BY <2>3, <2>5 DEF FetchQueue, TypeOK, brokerVars, workerVars
  <2>6. ASSUME NEW q \in Queues, FetchFails(q) PROVE TypeOK'
    <3>1. asOf' \in [known : SUBSET Ids, dead : Nat, ok : BOOLEAN]
      BY <2>6 DEF FetchFails, TypeOK
    <3> QED
      BY <1>s, <2>6, <3>1 DEF FetchFails, TypeOK, brokerVars, workerVars, Events
  <2> QED
    BY <1>8, <2>4, <2>5, <2>6 DEF Metrics
<1>9. CASE UNCHANGED vars
  BY <1>9 DEF vars, brokerVars, workerVars, metricsVars, TypeOK
<1> QED
  BY <1>1, <1>2, <1>3, <1>4, <1>5, <1>6, <1>7, <1>8, <1>9 DEF Next, Consume, SlotStep,
     FlushWorker

LEMMA InitType == Init => TypeOK
BY ParametersAssumption DEF Init, TypeOK, NoneOf, Queues, Events

\* Every variable keeps its type: no copy is counted below zero or retried
\* beyond MAX_MESSAGE_RETRIES, and a slot holds what is unacknowledged.
THEOREM TypeCorrect == Safe => []TypeOK
BY InitType, TypeStep, PTL DEF Safe

-----------------------------------------------------------------------------
(* A message is one token: it waits in the queue, is with a worker, or its *)
(* next copy is in the socket of the worker that has rejected it.          *)

MessagesOf(id) == {m \in Messages : m.id = id}
Held(s, id)    == pc[s] # "idle" /\ job[s].id = id
InQueue(id)    == \E m \in MessagesOf(id) : ready[m] > 0
InSocket(id)   == \E w \in Workers, m \in MessagesOf(id) : copies[w][m] > 0
Handled(id)    == \E s \in Slots : Held(s, id)

\* In one place only, but for the copy that follows the nack of its original.
OneCopy(id) ==
  /\ InQueue(id) => ~InSocket(id) /\ ~Handled(id)
  /\ \A m, n \in MessagesOf(id) :
       /\ ready[m] <= 1
       /\ ready[m] > 0 /\ ready[n] > 0 => m = n
       /\ \A v, w \in Workers : /\ copies[v][m] <= 1
                                /\ copies[v][m] > 0 /\ copies[w][n] > 0
                                     => v = w /\ m = n
  /\ \A s, t \in Slots : Held(s, id) /\ Held(t, id) => s = t
  /\ \A s \in Slots, w \in Workers, m \in MessagesOf(id) :
       Held(s, id) => (copies[w][m] > 0 <=> /\ pc[s] = "rejected"
                                            /\ w = WorkerOf(s)
                                            /\ m = Copy(job[s]))

\* The dead letters of a message are its tries before m.
TriedBefore(m) ==
  \A n \in MessagesOf(m.id) : dlq[n] = IF n.retry < m.retry THEN 1 ELSE 0

InTurn(id) ==
  /\ \A m \in MessagesOf(id) : dlq[m] <= 1
  /\ \A m \in MessagesOf(id) : ready[m] > 0 => TriedBefore(m)
  /\ \A s \in Slots : Held(s, id) => TriedBefore(job[s])
  /\ \A w \in Workers, m \in MessagesOf(id) :
       ~Handled(id) /\ copies[w][m] > 0 => TriedBefore(m)

NothingBefore(id) ==
  id \notin injected => /\ ~InQueue(id) /\ ~InSocket(id) /\ ~Handled(id)
                        /\ \A m \in MessagesOf(id) : dlq[m] = 0

AllTried(id) ==
  Without({"crash", "drop"}) /\ id \in injected
    => \/ InQueue(id) \/ InSocket(id) \/ Handled(id)
       \/ \A m \in MessagesOf(id) : dlq[m] = 1

Tried(id) == OneCopy(id) /\ InTurn(id) /\ NothingBefore(id) /\ AllTried(id)

TriesInv == \A id \in Ids : Tried(id)

\* What is counted about a message, in both states of a step.
LEMMA Counts ==
  ASSUME TypeOK, TypeOK', NEW id \in Ids
  PROVE  /\ \A m \in MessagesOf(id) :
              /\ m \in Messages /\ m.id = id /\ m.retry \in Nat
              /\ m.retry <= MaxMessageRetries
              /\ m = Message(id, m.retry)
              /\ ready[m] \in Nat /\ ready'[m] \in Nat
              /\ dlq[m] \in Nat /\ dlq'[m] \in Nat
              /\ \A w \in Workers : copies[w][m] \in Nat /\ copies'[w][m] \in Nat
         /\ \A s \in Slots : Held(s, id) => job[s] \in MessagesOf(id)
BY MessageFacts, BusyFacts, ParametersAssumption DEF MessagesOf, Held, TypeOK

\* A step that touches nothing of a message.
LEMMA Untouched ==
  ASSUME TypeOK, TypeOK', NEW id \in Ids, Tried(id),
         \A m \in MessagesOf(id) : /\ ready'[m] = ready[m]
                                   /\ dlq'[m] = dlq[m]
                                   /\ \A w \in Workers : copies'[w][m] = copies[w][m],
         \A s \in Slots : /\ Held(s, id)' <=> Held(s, id)
                          /\ Held(s, id) => pc'[s] = pc[s] /\ job'[s] = job[s],
         id \in injected' <=> id \in injected,
         Without({"crash", "drop"})' => Without({"crash", "drop"})
  PROVE  Tried(id)'
<1>1. /\ InQueue(id)' <=> InQueue(id)
      /\ InSocket(id)' <=> InSocket(id)
      /\ Handled(id)' <=> Handled(id)
  BY DEF InQueue, InSocket, Handled, MessagesOf
<1>2. \A m \in MessagesOf(id) : TriedBefore(m)' <=> TriedBefore(m)
  BY DEF TriedBefore, MessagesOf
<1>3. \A s \in Slots : Held(s, id) => (TriedBefore(job[s])' <=> TriedBefore(job[s]))
  <2> SUFFICES ASSUME NEW s \in Slots, Held(s, id)
               PROVE  TriedBefore(job[s])' <=> TriedBefore(job[s])
    OBVIOUS
  <2>1. job[s] \in MessagesOf(id) /\ job'[s] = job[s]
    BY Counts
  <2> QED
    BY <2>1 DEF TriedBefore, MessagesOf
<1>4. OneCopy(id)'
  BY <1>1, Counts DEF Tried, OneCopy, MessagesOf
<1>5. InTurn(id)'
  BY <1>1, <1>2, <1>3 DEF Tried, InTurn, MessagesOf
<1>6. NothingBefore(id)' /\ AllTried(id)'
  BY <1>1 DEF Tried, NothingBefore, AllTried, MessagesOf
<1> QED
  BY <1>4, <1>5, <1>6 DEF Tried

\* A step that spends nothing new cannot undo a crash.
LEMMA EventsCount ==
  ASSUME TypeOK, [Next]_vars
  PROVE  Without({"crash", "drop"})' => Without({"crash", "drop"})
<1>1. \A e \in {"crash", "drop"} : e \in Events
  BY DEF Events
<1>2. ASSUME NEW f \in Events, Spend(f) \/ UNCHANGED spent
      PROVE  \A e \in Events : spent'[e] = 0 => spent[e] = 0
  BY <1>2 DEF Spend, TypeOK
<1>3. UNCHANGED spent \/ \E f \in Events : Spend(f)
  BY DEF Next, Inject, Consume, Receive, SlotStep, Reject, NackArrives, Settle,
     FlushWorker, CopyArrives, CrashWorker, DropConnection, Restart, Metrics,
     AskMetrics, FetchQueue, FetchFails, Events, vars
<1>4. \A e \in Events : spent'[e] = 0 => spent[e] = 0
  BY <1>1, <1>2, <1>3
<1> QED
  BY <1>1, <1>4 DEF Without

LEMMA InjectTried ==
  ASSUME TypeOK, TypeOK', NEW id \in Ids, Tried(id), Inject(id)
  PROVE  Tried(id)'
<1> DEFINE first == Message(id, 0)
<1>1. first \in MessagesOf(id) /\ first.retry = 0
  BY MessageFacts, ParametersAssumption DEF MessagesOf
<1>2. /\ UNCHANGED <<dlq, pc, job, copies>>
      /\ id \notin injected /\ id \in injected'
      /\ \A m \in MessagesOf(id) : ready'[m] = IF m = first THEN ready[m] + 1
                                                            ELSE ready[m]
  BY <1>1 DEF Inject, workerVars, Add, MessagesOf, TypeOK
<1>3. /\ \A m \in MessagesOf(id) :
           /\ ready[m] = 0 /\ dlq[m] = 0
           /\ \A w \in Workers : copies[w][m] = 0
      /\ \A s \in Slots : ~Held(s, id)
  BY <1>2, Counts DEF Tried, NothingBefore, InQueue, InSocket, Handled
<1>4. /\ \A m \in MessagesOf(id) :
           /\ ready'[m] = IF m = first THEN 1 ELSE 0
           /\ dlq'[m] = 0
           /\ \A w \in Workers : copies'[w][m] = 0
      /\ \A s \in Slots : ~Held(s, id)'
  BY <1>2, <1>3 DEF Held
<1>5. InQueue(id)' /\ ~InSocket(id)' /\ ~Handled(id)'
  BY <1>1, <1>4 DEF InQueue, InSocket, Handled, MessagesOf
<1>6. OneCopy(id)'
  BY <1>4, <1>5 DEF OneCopy, MessagesOf
<1>7. TriedBefore(first)'
  <2>1. \A n \in MessagesOf(id) : ~(n.retry < first.retry)
    BY <1>1, Counts
  <2>2. first.id = id
    BY <1>1 DEF MessagesOf
  <2> QED
    BY <1>4, <2>1, <2>2 DEF TriedBefore, MessagesOf
<1>8. InTurn(id)'
  BY <1>4, <1>7 DEF InTurn, MessagesOf
<1> QED
  BY <1>2, <1>5, <1>6, <1>8 DEF Tried, NothingBefore, AllTried

LEMMA ReceiveTried ==
  ASSUME TypeOK, TypeOK', NEW id \in Ids, Tried(id), NEW s \in Slots,
         NEW m \in MessagesOf(id), Receive(s, m)
  PROVE  Tried(id)'
<1>1. /\ UNCHANGED <<dlq, copies, injected>>
      /\ ready[m] > 0 /\ pc[s] = "idle"
      /\ pc'[s] = "delivered" /\ job'[s] = m /\ m.id = id
      /\ \A t \in Slots : t # s => pc'[t] = pc[t] /\ job'[t] = job[t]
      /\ \A n \in MessagesOf(id) : ready'[n] = IF n = m THEN ready[n] - 1
                                                        ELSE ready[n]
  BY DEF Receive, Take, MessagesOf, TypeOK
<1>2. InQueue(id) /\ ~InSocket(id) /\ ~Handled(id)
  BY <1>1 DEF InQueue, Tried, OneCopy
<1>3. \A n \in MessagesOf(id) : /\ ready'[n] = 0
                                /\ \A w \in Workers : copies'[w][n] = 0
  BY <1>1, <1>2, Counts DEF Tried, OneCopy, InSocket
<1>4. \A t \in Slots : Held(t, id)' <=> t = s
  BY <1>1, <1>2 DEF Held, Handled
<1>5. OneCopy(id)'
  BY <1>1, <1>3, <1>4 DEF OneCopy, InQueue, InSocket, MessagesOf
<1>6. TriedBefore(job[s])'
  BY <1>1 DEF Tried, InTurn, TriedBefore, MessagesOf
<1>7. InTurn(id)'
  BY <1>1, <1>3, <1>4, <1>6 DEF Tried, InTurn, MessagesOf
<1>8. Handled(id)' /\ id \in injected
  BY <1>2, <1>4 DEF Handled, Tried, NothingBefore
<1> QED
  BY <1>1, <1>5, <1>7, <1>8 DEF Tried, NothingBefore, AllTried

LEMMA RejectTried ==
  ASSUME TypeOK, TypeOK', NEW id \in Ids, Tried(id), NEW s \in Slots, Reject(s),
         job[s].id = id
  PROVE  Tried(id)'
<1>1. /\ UNCHANGED <<ready, dlq, injected, job>>
      /\ pc[s] = "delivered" /\ pc'[s] = "rejected" /\ Held(s, id)
      /\ \A t \in Slots : t # s => pc'[t] = pc[t]
  BY DEF Reject, brokerVars, Held, TypeOK
<1>2. job[s] \in MessagesOf(id) /\ WorkerOf(s) \in Workers
  BY <1>1, Counts, SlotWorker
<1>3. \A m \in MessagesOf(id) : /\ ready[m] = 0
                                /\ \A w \in Workers : copies[w][m] = 0
  BY <1>1, Counts DEF Tried, OneCopy, InQueue, Handled
<1>4. HasRetries(job[s]) <=> Copy(job[s]) \in MessagesOf(id)
  BY <1>2, CopyFacts DEF MessagesOf
<1>5. \A w \in Workers, m \in MessagesOf(id) :
        copies'[w][m] = IF w = WorkerOf(s) /\ m = Copy(job[s]) THEN 1 ELSE 0
  BY <1>2, <1>3, <1>4 DEF Reject, Add, MessagesOf, TypeOK
<1>6. \A t \in Slots : Held(t, id)' <=> t = s
  BY <1>1 DEF Held, Tried, OneCopy
<1>7. OneCopy(id)'
  BY <1>1, <1>3, <1>5, <1>6 DEF OneCopy, InQueue, MessagesOf
<1>8. TriedBefore(job[s])'
  BY <1>1 DEF Tried, InTurn, TriedBefore, MessagesOf
<1>9. Handled(id)' /\ id \in injected
  BY <1>1, <1>6 DEF Handled, Tried, NothingBefore
<1>10. InTurn(id)'
  BY <1>1, <1>3, <1>6, <1>8, <1>9 DEF Tried, InTurn, MessagesOf
<1> QED
  BY <1>1, <1>7, <1>9, <1>10 DEF Tried, NothingBefore, AllTried

LEMMA NackTried ==
  ASSUME TypeOK, TypeOK', NEW id \in Ids, Tried(id), NEW s \in Slots,
         NackArrives(s), job[s].id = id
  PROVE  Tried(id)'
<1> DEFINE m == job[s]
<1>1. /\ UNCHANGED <<ready, copies, injected>>
      /\ pc[s] = "rejected" /\ pc'[s] = "idle" /\ Held(s, id)
      /\ \A t \in Slots : t # s => pc'[t] = pc[t] /\ job'[t] = job[t]
  BY DEF NackArrives, Settle, Held, TypeOK
<1>2. m \in MessagesOf(id) /\ WorkerOf(s) \in Workers
  BY <1>1, Counts, SlotWorker
<1>3. PICK r \in MessagesOf(id) : r = job[s]
  BY <1>2
<1>4. \A n \in MessagesOf(id) :
        /\ dlq[n] = IF n.retry < r.retry THEN 1 ELSE 0
        /\ dlq'[n] = IF n.retry <= r.retry THEN 1 ELSE 0
  <2>1. \A n \in MessagesOf(id) : dlq[n] = IF n.retry < r.retry THEN 1 ELSE 0
    BY <1>1, <1>3, Counts DEF Tried, InTurn, TriedBefore
  <2>2. \A n \in MessagesOf(id) : dlq'[n] = IF n = r THEN dlq[n] + 1 ELSE dlq[n]
    BY <1>3 DEF NackArrives, Add, MessagesOf, TypeOK
  <2>3. \A n \in MessagesOf(id) : n.retry = r.retry <=> n = r
    BY <1>3, Counts
  <2> QED
    BY <2>1, <2>2, <2>3, Counts
<1>5. /\ \A t \in Slots : ~Held(t, id)'
      /\ \A n \in MessagesOf(id) : ready'[n] = 0
      /\ \A w \in Workers, n \in MessagesOf(id) :
           copies'[w][n] > 0 <=> w = WorkerOf(s) /\ n = Copy(r)
  <2>1. \A t \in Slots : Held(t, id) => t = s
    BY <1>1 DEF Tried, OneCopy
  <2>2. \A n \in MessagesOf(id) : ready[n] = 0
    BY <1>1, Counts DEF Tried, OneCopy, InQueue, Handled
  <2> QED
    BY <1>1, <1>3, <2>1, <2>2 DEF Held, Tried, OneCopy
<1>6. OneCopy(id)'
  <2>1. ~InQueue(id)' /\ ~Handled(id)'
    BY <1>5 DEF InQueue, Handled, MessagesOf
  <2>2. \A n \in MessagesOf(id), w \in Workers : copies'[w][n] <= 1
    BY <1>1 DEF Tried, OneCopy
  <2> QED
    BY <1>5, <2>1, <2>2 DEF OneCopy, MessagesOf
<1>7. Copy(r) \in MessagesOf(id) => TriedBefore(Copy(r))'
  <2>1. Copy(r).retry = r.retry + 1 /\ Copy(r).id = id
    BY <1>3, Counts, CopyFacts
  <2>2. \A n \in MessagesOf(id) : n.retry < r.retry + 1 <=> n.retry <= r.retry
    BY <1>3, Counts
  <2> QED
    BY <1>4, <2>1, <2>2 DEF TriedBefore, MessagesOf
<1>8. InTurn(id)'
  <2>1. \A n \in MessagesOf(id) : dlq'[n] <= 1
    BY <1>4
  <2>2. ASSUME NEW w \in Workers, NEW n \in MessagesOf(id), copies'[w][n] > 0
        PROVE  TriedBefore(n)'
    BY <1>5, <1>7, <2>2
  <2> QED
    BY <1>5, <2>1, <2>2 DEF InTurn, MessagesOf
<1>9. InSocket(id)' \/ \A n \in MessagesOf(id) : dlq'[n] = 1
  <2>1. CASE HasRetries(r)
    <3>1. Copy(r) \in MessagesOf(id)
      BY <1>3, <2>1, Counts, CopyFacts DEF MessagesOf
    <3>2. copies'[WorkerOf(s)][Copy(r)] > 0
      BY <1>2, <1>5, <3>1
    <3> QED
      BY <1>2, <3>1, <3>2 DEF InSocket, MessagesOf
  <2>2. CASE ~HasRetries(r)
    <3>1. \A n \in MessagesOf(id) : n.retry <= r.retry
      BY <1>3, <2>2, Counts, ParametersAssumption DEF HasRetries
    <3> QED
      BY <1>4, <3>1
  <2> QED
    BY <2>1, <2>2
<1>10. id \in injected
  BY <1>1 DEF Tried, NothingBefore, Handled
<1> QED
  BY <1>1, <1>6, <1>8, <1>9, <1>10 DEF Tried, NothingBefore, AllTried, MessagesOf

LEMMA CopyTried ==
  ASSUME TypeOK, TypeOK', NEW id \in Ids, Tried(id), NEW v \in Workers,
         NEW m \in MessagesOf(id), CopyArrives(v, m)
  PROVE  Tried(id)'
<1>1. /\ UNCHANGED <<dlq, pc, job, injected>>
      /\ copies[v][m] > 0
      /\ \A s \in SlotsOf(v) : ~(pc[s] = "rejected" /\ Copy(job[s]) = m)
      /\ \A n \in MessagesOf(id) :
           /\ ready'[n] = IF n = m THEN ready[n] + 1 ELSE ready[n]
           /\ \A w \in Workers : copies'[w][n] = IF w = v /\ n = m
                                                 THEN copies[w][n] - 1
                                                 ELSE copies[w][n]
  BY DEF CopyArrives, Add, Take, MessagesOf, TypeOK
<1>2. \A s \in Slots : ~Held(s, id)
  BY <1>1 DEF Tried, OneCopy, SlotsOf
<1>3. \A n \in MessagesOf(id) :
        /\ ready'[n] = IF n = m THEN 1 ELSE 0
        /\ \A w \in Workers : copies'[w][n] = 0
  <2>1. InSocket(id)
    BY <1>1 DEF InSocket
  <2>2. \A n \in MessagesOf(id) : ready[n] = 0
    BY <2>1, Counts DEF Tried, OneCopy, InQueue
  <2>3. \A n \in MessagesOf(id), w \in Workers :
          copies[w][n] = IF w = v /\ n = m THEN 1 ELSE 0
    BY <1>1, Counts DEF Tried, OneCopy
  <2> QED
    BY <1>1, <2>2, <2>3
<1>4. \A s \in Slots : ~Held(s, id)'
  BY <1>1, <1>2 DEF Held
<1>5. OneCopy(id)'
  BY <1>3, <1>4 DEF OneCopy, InSocket, Handled, MessagesOf
<1>6. TriedBefore(m)'
  <2>1. TriedBefore(m)
    BY <1>1, <1>2 DEF Tried, InTurn, Handled
  <2> QED
    BY <1>1, <2>1 DEF TriedBefore, MessagesOf
<1>7. InTurn(id)'
  BY <1>1, <1>3, <1>4, <1>6 DEF Tried, InTurn, MessagesOf
<1>8. InQueue(id)' /\ id \in injected
  BY <1>1, <1>3 DEF InQueue, MessagesOf, Tried, NothingBefore, InSocket
<1> QED
  BY <1>1, <1>5, <1>7, <1>8 DEF Tried, NothingBefore, AllTried

\* The broker takes back what the worker holds, and its socket is lost.
LEMMA DisconnectsTried ==
  ASSUME TypeOK, TypeOK', NEW id \in Ids, Tried(id), NEW v \in Workers,
         NEW state, Disconnects(v, state), ~Without({"crash", "drop"})'
  PROVE  Tried(id)'
<1>1. /\ UNCHANGED <<dlq, injected>>
      /\ \A s \in Slots : /\ WorkerOf(s) = v => pc'[s] = "idle"
                          /\ WorkerOf(s) # v => pc'[s] = pc[s] /\ job'[s] = job[s]
      /\ \A n \in MessagesOf(id) :
           /\ ready'[n] = ready[n] + Unacked(v, n)
           /\ \A w \in Workers : copies'[w][n] = IF w = v THEN 0 ELSE copies[w][n]
  BY DEF Disconnects, MessagesOf, NoneOf, TypeOK
<1>2. \A s \in Slots : Held(s, id)' <=> Held(s, id) /\ WorkerOf(s) # v
  BY <1>1 DEF Held
<1>3. \A n \in MessagesOf(id) :
        /\ Unacked(v, n) \in Nat
        /\ Unacked(v, n) > 0
             <=> \E s \in Slots : WorkerOf(s) = v /\ Held(s, id) /\ job[s] = n
        /\ Unacked(v, n) <= 1
  <2> SUFFICES ASSUME NEW n \in MessagesOf(id)
               PROVE  /\ Unacked(v, n) \in Nat
                      /\ Unacked(v, n) > 0
                           <=> \E s \in Slots : /\ WorkerOf(s) = v
                                                /\ Held(s, id) /\ job[s] = n
                      /\ Unacked(v, n) <= 1
    OBVIOUS
  <2>1. \A s \in Slots : s \in Busy /\ job[s] = n <=> Held(s, id) /\ job[s] = n
    BY DEF Busy, Held, MessagesOf
  <2>2. \A s, t \in Busy : job[s] = n /\ job[t] = n => s = t
    BY <2>1 DEF Tried, OneCopy, Busy
  <2>3. /\ Unacked(v, n) \in Nat
        /\ Unacked(v, n) > 0
             <=> \E s \in Slots : WorkerOf(s) = v /\ s \in Busy /\ job[s] = n
        /\ Unacked(v, n) <= 1
    BY <2>2, UnackedFacts
  <2> QED
    BY <2>1, <2>3
<1>4. CASE \E s \in Slots : WorkerOf(s) = v /\ Held(s, id)
  <2>1. PICK s \in Slots : WorkerOf(s) = v /\ Held(s, id)
    BY <1>4
  <2>2. PICK m \in MessagesOf(id) : m = job[s]
    BY <2>1, Counts
  <2>3. \A n \in MessagesOf(id) : ready[n] = 0
    BY <2>1, Counts DEF Tried, OneCopy, InQueue, Handled
  <2>4. \A t \in Slots : Held(t, id) => t = s
    BY <2>1 DEF Tried, OneCopy
  <2>5. \A n \in MessagesOf(id) : ready'[n] = IF n = m THEN 1 ELSE 0
    BY <1>1, <1>3, <2>1, <2>2, <2>3, <2>4
  <2>6. \A t \in Slots : ~Held(t, id)'
    BY <1>2, <2>1, <2>4
  <2>7. \A n \in MessagesOf(id), w \in Workers : copies'[w][n] = 0
    BY <1>1, <2>1, Counts DEF Tried, OneCopy
  <2>8. OneCopy(id)'
    BY <2>5, <2>6, <2>7 DEF OneCopy, InSocket, Handled, MessagesOf
  <2>9. TriedBefore(m)'
    <3>1. TriedBefore(m)
      BY <2>1, <2>2 DEF Tried, InTurn
    <3> QED
      BY <1>1, <3>1 DEF TriedBefore, MessagesOf
  <2>10. InTurn(id)'
    BY <1>1, <2>5, <2>6, <2>7, <2>9 DEF Tried, InTurn, MessagesOf
  <2>11. id \in injected
    BY <2>1 DEF Tried, NothingBefore, Handled
  <2> QED
    BY <1>1, <2>8, <2>10, <2>11 DEF Tried, NothingBefore, AllTried
<1>5. CASE ~\E s \in Slots : WorkerOf(s) = v /\ Held(s, id)
  <2>1. \A n \in MessagesOf(id) : ready'[n] = ready[n]
    BY <1>1, <1>3, <1>5, Counts
  <2>2. \A s \in Slots : /\ Held(s, id)' <=> Held(s, id)
                         /\ Held(s, id) => pc'[s] = pc[s] /\ job'[s] = job[s]
    BY <1>1, <1>2, <1>5
  <2>3. \A n \in MessagesOf(id), w \in Workers :
          /\ copies'[w][n] \in {0, copies[w][n]}
          /\ w # v => copies'[w][n] = copies[w][n]
    BY <1>1
  <2>4. /\ InQueue(id)' <=> InQueue(id)
        /\ InSocket(id)' => InSocket(id)
        /\ Handled(id)' <=> Handled(id)
    BY <2>1, <2>2, <2>3 DEF InQueue, InSocket, Handled, MessagesOf
  <2>5. \A s \in Slots, w \in Workers, m \in MessagesOf(id) :
          Held(s, id) /\ copies[w][m] > 0 => w # v
    BY <1>5 DEF Tried, OneCopy
  <2>6. \A s \in Slots, w \in Workers, m \in MessagesOf(id) :
          Held(s, id)' => (copies'[w][m] > 0 <=> /\ pc'[s] = "rejected"
                                                 /\ w = WorkerOf(s)
                                                 /\ m = Copy(job'[s]))
    BY <1>2, <2>2, <2>3, <2>5 DEF Tried, OneCopy
  <2>7. OneCopy(id)'
    BY <2>1, <2>2, <2>3, <2>4, <2>6, Counts DEF Tried, OneCopy, MessagesOf
  <2>8. \A m \in MessagesOf(id) : TriedBefore(m) => TriedBefore(m)'
    BY <1>1 DEF TriedBefore, MessagesOf
  <2>9. \A s \in Slots : Held(s, id)' => TriedBefore(job[s])'
    <3> SUFFICES ASSUME NEW s \in Slots, Held(s, id)' PROVE TriedBefore(job[s])'
      OBVIOUS
    <3>1. job'[s] = job[s] /\ TriedBefore(job[s])
      BY <2>2 DEF Tried, InTurn
    <3> QED
      BY <1>1, <3>1 DEF TriedBefore, MessagesOf
  <2>10. InTurn(id)'
    BY <1>1, <2>1, <2>3, <2>4, <2>8, <2>9 DEF Tried, InTurn, MessagesOf
  <2>11. NothingBefore(id)'
    BY <1>1, <2>4 DEF Tried, NothingBefore, MessagesOf
  <2> QED
    BY <2>7, <2>10, <2>11 DEF Tried, AllTried
<1> QED
  BY <1>4, <1>5

LEMMA TriesStep == TypeOK /\ TriesInv /\ [Next]_vars => TriesInv'
<1> SUFFICES ASSUME TypeOK, TriesInv, [Next]_vars, NEW id \in Ids
             PROVE  Tried(id)'
  BY DEF TriesInv
<1>t. TypeOK' /\ Tried(id)
  BY TypeStep DEF TriesInv
<1>1. ASSUME NEW other \in Ids, Inject(other) PROVE Tried(id)'
  <2>1. CASE other = id
    BY <1>1, <1>t, <2>1, InjectTried
  <2>2. CASE other # id
    <3>1. \A m \in MessagesOf(id) : ready'[m] = ready[m]
      BY <1>1, <2>2, MessageFacts DEF Inject, Add, Message, MessagesOf, TypeOK
    <3>2. UNCHANGED <<dlq, pc, job, copies, spent>>
      BY <1>1 DEF Inject, workerVars
    <3>3. id \in injected' <=> id \in injected
      BY <1>1, <2>2 DEF Inject
    <3> QED
      BY <1>t, <3>1, <3>2, <3>3, Untouched DEF Held, Without
  <2> QED
    BY <2>1, <2>2
<1>2. ASSUME NEW s \in Slots, NEW m \in Messages, Receive(s, m) PROVE Tried(id)'
  <2>1. CASE m \in MessagesOf(id)
    BY <1>2, <1>t, <2>1, ReceiveTried
  <2>2. CASE m \notin MessagesOf(id)
    <3>1. \A n \in MessagesOf(id) : ready'[n] = ready[n]
      BY <1>2, <2>2 DEF Receive, Take, MessagesOf, TypeOK
    <3>2. UNCHANGED <<dlq, copies, injected, spent>>
      BY <1>2 DEF Receive
    <3>3. \A t \in Slots : /\ Held(t, id)' <=> Held(t, id)
                           /\ Held(t, id) => pc'[t] = pc[t] /\ job'[t] = job[t]
      BY <1>2, <2>2 DEF Receive, Held, MessagesOf, TypeOK
    <3> QED
      BY <1>t, <3>1, <3>2, <3>3, Untouched DEF Without
  <2> QED
    BY <2>1, <2>2
<1>3. ASSUME NEW s \in Slots, Reject(s) PROVE Tried(id)'
  <2>1. CASE job[s].id = id
    BY <1>3, <1>t, <2>1, RejectTried
  <2>2. CASE job[s].id # id
    <3>1. job[s] \in Messages
      BY <1>3, BusyFacts DEF Reject
    <3>2. \A n \in MessagesOf(id) : n # Copy(job[s])
      BY <2>2, <3>1, CopyFacts DEF MessagesOf
    <3>3. \A n \in MessagesOf(id), w \in Workers : copies'[w][n] = copies[w][n]
      BY <1>3, <3>2 DEF Reject, Add, MessagesOf, TypeOK
    <3>4. UNCHANGED <<ready, dlq, injected, job, spent>>
      BY <1>3 DEF Reject, brokerVars
    <3>5. \A t \in Slots : /\ Held(t, id)' <=> Held(t, id)
                           /\ Held(t, id) => pc'[t] = pc[t]
      BY <1>3, <2>2, <3>4 DEF Reject, Held, TypeOK
    <3> QED
      BY <1>t, <3>3, <3>4, <3>5, Untouched DEF Without
  <2> QED
    BY <2>1, <2>2
<1>4. ASSUME NEW s \in Slots, NackArrives(s) PROVE Tried(id)'
  <2>1. CASE job[s].id = id
    BY <1>4, <1>t, <2>1, NackTried
  <2>2. CASE job[s].id # id
    <3>1. \A n \in MessagesOf(id) : dlq'[n] = dlq[n]
      BY <1>4, <2>2 DEF NackArrives, Add, MessagesOf, TypeOK
    <3>2. UNCHANGED <<ready, copies, injected, spent>>
      BY <1>4 DEF NackArrives, Settle
    <3>3. \A t \in Slots : /\ Held(t, id)' <=> Held(t, id)
                           /\ Held(t, id) => pc'[t] = pc[t] /\ job'[t] = job[t]
      BY <1>4, <2>2 DEF NackArrives, Settle, Held, TypeOK
    <3> QED
      BY <1>t, <3>1, <3>2, <3>3, Untouched DEF Without
  <2> QED
    BY <2>1, <2>2
<1>5. ASSUME NEW w \in Workers, NEW m \in Messages, CopyArrives(w, m)
      PROVE  Tried(id)'
  <2>1. CASE m \in MessagesOf(id)
    BY <1>5, <1>t, <2>1, CopyTried
  <2>2. CASE m \notin MessagesOf(id)
    <3>1. \A n \in MessagesOf(id) :
            /\ ready'[n] = ready[n]
            /\ \A v \in Workers : copies'[v][n] = copies[v][n]
      BY <1>5, <2>2 DEF CopyArrives, Add, Take, MessagesOf, TypeOK
    <3>2. UNCHANGED <<dlq, pc, job, injected, spent>>
      BY <1>5 DEF CopyArrives
    <3> QED
      BY <1>t, <3>1, <3>2, Untouched DEF Held, Without
  <2> QED
    BY <2>1, <2>2
<1>6. ASSUME NEW w \in Workers, CrashWorker(w) \/ DropConnection(w)
      PROVE  Tried(id)'
  <2>1. PICK state : Disconnects(w, state)
    BY <1>6 DEF CrashWorker, DropConnection
  <2>2. PICK e \in {"crash", "drop"} : Spend(e)
    BY <1>6 DEF CrashWorker, DropConnection
  <2>3. ~Without({"crash", "drop"})'
    <3>1. spent'[e] = spent[e] + 1 /\ spent[e] \in Nat
      BY <2>2 DEF Spend, TypeOK, Events
    <3> QED
      BY <2>2, <3>1 DEF Without
  <2> QED
    BY <1>t, <2>1, <2>3, DisconnectsTried
<1>7. CASE UNCHANGED <<ready, dlq, copies, pc, job, injected>>
  BY <1>7, <1>t, Untouched, EventsCount DEF Held
<1>8. ASSUME \/ \E w \in Workers : Restart(w)
             \/ Metrics
             \/ UNCHANGED vars
      PROVE  UNCHANGED <<ready, dlq, copies, pc, job, injected>>
  BY <1>8 DEF Restart, Metrics, AskMetrics, FetchQueue, FetchFails, brokerVars,
     workerVars, vars
<1> QED
  BY <1>1, <1>2, <1>3, <1>4, <1>5, <1>6, <1>7, <1>8 DEF Next, Consume, SlotStep,
     FlushWorker

LEMMA InitTries == Init => TriesInv
BY DEF Init, TriesInv, Tried, OneCopy, InTurn, NothingBefore, AllTried, InQueue,
   InSocket, Handled, Held, MessagesOf, NoneOf

-----------------------------------------------------------------------------
(* What the tokens show. *)

\* A message has a live copy where its token is in the queue or with a worker.
LEMMA LiveFacts ==
  ASSUME TypeOK, NEW id \in Ids
  PROVE  /\ \A m \in MessagesOf(id) :
              Live(m) <=> ready[m] > 0 \/ \E s \in Slots : Held(s, id) /\ job[s] = m
         /\ \A s \in Slots : Held(s, id) => job[s] \in MessagesOf(id)
BY BusyFacts DEF Live, Busy, Held, MessagesOf

\* Retrying never multiplies a message: a nack and a copy are two frames, of
\* which a dying worker may get only the first out (consumeFromQueue).
THEOREM RetryDoesNotMultiply == Safe => []SingleLiveCopy
<1>1. TypeOK /\ TriesInv => SingleLiveCopy
  <2> SUFFICES ASSUME TypeOK, TriesInv, NEW m \in Messages, NEW n \in Messages,
                      m.id = n.id
               PROVE  /\ ready[m] <= 1
                      /\ ready[m] > 0 /\ ready[n] > 0 => m = n
                      /\ ready[m] > 0 => \A s \in Busy : job[s] # n
                      /\ \A s, t \in Busy : job[s] = m /\ job[t] = n => s = t
    BY DEF SingleLiveCopy
  <2>1. PICK id \in Ids : m \in MessagesOf(id) /\ n \in MessagesOf(id)
    BY MessageFacts DEF MessagesOf
  <2>2. OneCopy(id)
    BY DEF TriesInv, Tried
  <2>3. \A s \in Busy : job[s] = m \/ job[s] = n => s \in Slots /\ Held(s, id)
    BY <2>1 DEF Busy, Held, MessagesOf
  <2> QED
    BY <2>1, <2>2, <2>3 DEF OneCopy, InQueue, Handled
<1> QED
  BY InitType, TypeStep, InitTries, TriesStep, <1>1, PTL DEF Safe

\* No try is dead-lettered twice or before its turn, and nothing ends before its
\* last retry while no worker dies or loses its connection (x-retry-count,
\* MAX_MESSAGE_RETRIES).
THEOREM DeadLettersInTurn == Safe => []TriesInTurn
<1>1. TypeOK /\ TriesInv => TriesInTurn
  <2> SUFFICES ASSUME TypeOK, TriesInv PROVE TriesInTurn
    OBVIOUS
  <2>1. ASSUME NEW m \in Messages
        PROVE  /\ dlq[m] <= 1
               /\ Live(m) => \A n \in Messages :
                    n.id = m.id /\ n.retry >= m.retry => dlq[n] = 0
    <3>1. PICK id \in Ids : m \in MessagesOf(id) /\ m.id = id
      BY MessageFacts DEF MessagesOf
    <3>2. InTurn(id)
      BY DEF TriesInv, Tried
    <3>3. Live(m) => TriedBefore(m)
      BY <3>1, <3>2, LiveFacts DEF InTurn
    <3>4. ASSUME Live(m), NEW n \in Messages, n.id = m.id, n.retry >= m.retry
          PROVE  dlq[n] = 0
      <4>1. m.retry \in Nat /\ n.retry \in Nat /\ n \in MessagesOf(m.id)
        BY <3>4, MessageFacts DEF MessagesOf
      <4> QED
        BY <3>3, <3>4, <4>1 DEF TriedBefore
    <3> QED
      BY <3>1, <3>2, <3>4 DEF InTurn
  <2>2. ASSUME Without({"crash", "drop"}), NEW id \in injected, Finished(id)
        PROVE  dlq[Message(id, MaxMessageRetries)] = 1
    <3>1. id \in Ids /\ MaxMessageRetries \in 0..MaxMessageRetries
      BY ParametersAssumption DEF TypeOK
    <3>2. \A m \in MessagesOf(id) : m = Message(id, m.retry)
                                    /\ m.retry \in 0..MaxMessageRetries
      BY MessageFacts DEF MessagesOf
    <3>3. \A m \in MessagesOf(id) : /\ ~Live(m)
                                    /\ \A w \in Workers : copies[w][m] = 0
      BY <2>2, <3>2 DEF Finished
    <3>4. ~InQueue(id) /\ ~InSocket(id) /\ ~Handled(id)
      BY <3>1, <3>3, LiveFacts DEF InQueue, InSocket, Handled
    <3>5. Message(id, MaxMessageRetries) \in MessagesOf(id)
      BY <3>1, MessageFacts DEF MessagesOf
    <3> QED
      BY <2>2, <3>1, <3>4, <3>5 DEF TriesInv, Tried, AllTried
  <2> QED
    BY <2>1, <2>2 DEF TriesInTurn
<1> QED
  BY InitType, TypeStep, InitTries, TriesStep, <1>1, PTL DEF Safe

-----------------------------------------------------------------------------
(* Nothing vanishes. *)

\* Some copy of the message is with the broker, or dead.
There(id) == \E m \in MessagesOf(id) : Live(m) \/ dlq[m] > 0

\* A live copy stays, is dead-lettered or goes back to the queue.
LEMMA CopyStays ==
  ASSUME TypeOK, [Next]_vars, NEW id \in Ids, There(id)
  PROVE  There(id)'
<1>t. TypeOK'
  BY TypeStep
<1>0. PICK m \in MessagesOf(id) : Live(m) \/ dlq[m] > 0
  BY DEF There
<1>m. m \in Messages /\ ready[m] \in Nat /\ dlq[m] \in Nat
  BY DEF MessagesOf, TypeOK
<1> SUFFICES Live(m)' \/ dlq'[m] > 0
  BY <1>0 DEF There, MessagesOf
<1>1. ASSUME NEW other \in Ids, Inject(other) PROVE Live(m)' \/ dlq'[m] > 0
  <2>1. Message(other, 0) \in Messages
    BY MessageFacts, ParametersAssumption
  <2>2. UNCHANGED <<dlq, job>> /\ Busy' = Busy
    BY <1>1 DEF Inject, workerVars, Busy
  <2>3. ready[m] > 0 => ready'[m] > 0
    BY <1>1, <1>m, <2>1 DEF Inject, Add, TypeOK
  <2> QED
    BY <1>0, <2>2, <2>3 DEF Live
<1>2. ASSUME NEW s \in Slots, NEW n \in Messages, Receive(s, n)
      PROVE  Live(m)' \/ dlq'[m] > 0
  <2>1. /\ dlq' = dlq
        /\ pc'[s] = "delivered" /\ job'[s] = n
        /\ \A t \in Slots : t # s => pc'[t] = pc[t] /\ job'[t] = job[t]
        /\ pc[s] = "idle"
        /\ m # n => ready'[m] = ready[m]
    BY <1>2, <1>m DEF Receive, Take, TypeOK
  <2>2. \A t \in Busy : t \in Busy' /\ job'[t] = job[t]
    BY <2>1 DEF Busy
  <2>3. s \in Busy'
    BY <2>1 DEF Busy
  <2> QED
    BY <1>0, <2>1, <2>2, <2>3 DEF Live
<1>3. ASSUME NEW s \in Slots, Reject(s) PROVE Live(m)' \/ dlq'[m] > 0
  <2>1. UNCHANGED <<ready, dlq, job>> /\ Busy' = Busy
    BY <1>3 DEF Reject, brokerVars, Busy, TypeOK
  <2> QED
    BY <1>0, <2>1 DEF Live
<1>4. ASSUME NEW s \in Slots, NackArrives(s) PROVE Live(m)' \/ dlq'[m] > 0
  <2>1. /\ ready' = ready
        /\ \A t \in Slots : t # s => pc'[t] = pc[t] /\ job'[t] = job[t]
        /\ dlq'[m] = IF m = job[s] THEN dlq[m] + 1 ELSE dlq[m]
    BY <1>4, <1>m DEF NackArrives, Settle, Add, TypeOK
  <2>2. \A t \in Busy : t # s => t \in Busy' /\ job'[t] = job[t]
    BY <2>1 DEF Busy
  <2> QED
    BY <1>0, <1>m, <2>1, <2>2 DEF Live
<1>5. ASSUME NEW w \in Workers, NEW n \in Messages, CopyArrives(w, n)
      PROVE  Live(m)' \/ dlq'[m] > 0
  <2>1. UNCHANGED <<dlq, job>> /\ Busy' = Busy
    BY <1>5 DEF CopyArrives, Busy
  <2>2. ready[m] > 0 => ready'[m] > 0
    BY <1>5, <1>m DEF CopyArrives, Add, TypeOK
  <2> QED
    BY <1>0, <2>1, <2>2 DEF Live
<1>6. ASSUME NEW w \in Workers, CrashWorker(w) \/ DropConnection(w)
      PROVE  Live(m)' \/ dlq'[m] > 0
  <2>1. /\ dlq' = dlq
        /\ ready'[m] = ready[m] + Unacked(w, m)
        /\ \A t \in Slots : WorkerOf(t) # w => pc'[t] = pc[t] /\ job'[t] = job[t]
    BY <1>6, <1>m DEF CrashWorker, DropConnection, Disconnects, TypeOK
  <2>2. \A t \in Busy : WorkerOf(t) # w => t \in Busy' /\ job'[t] = job[t]
    BY <2>1 DEF Busy
  <2>3. /\ Unacked(w, m) \in Nat
        /\ \A t \in Busy : WorkerOf(t) = w /\ job[t] = m => Unacked(w, m) > 0
    BY UnackedFacts DEF Busy
  <2> QED
    BY <1>0, <1>m, <2>1, <2>2, <2>3 DEF Live
<1>7. ASSUME \/ \E w \in Workers : Restart(w)
             \/ Metrics
             \/ UNCHANGED vars
      PROVE  Live(m)' \/ dlq'[m] > 0
  <2>1. UNCHANGED <<ready, dlq, pc, job>>
    BY <1>7 DEF Restart, Metrics, AskMetrics, FetchQueue, FetchFails, brokerVars,
       workerVars, vars
  <2> QED
    BY <1>0, <2>1 DEF Live, Busy
<1> QED
  BY <1>1, <1>2, <1>3, <1>4, <1>5, <1>6, <1>7 DEF Next, Consume, SlotStep, FlushWorker

ThereInv == \A id \in injected : There(id)

LEMMA ThereStep == TypeOK /\ ThereInv /\ [Next]_vars => ThereInv'
<1> SUFFICES ASSUME TypeOK, ThereInv, [Next]_vars, NEW id \in injected'
             PROVE  There(id)'
  BY DEF ThereInv
<1>1. CASE id \in injected
  <2>1. id \in Ids
    BY <1>1 DEF TypeOK
  <2> QED
    BY <1>1, <2>1, CopyStays DEF ThereInv
<1>2. CASE id \notin injected
  <2>1. id \in Ids /\ Inject(id)
    <3>1. injected' = injected \/ \E other \in Ids : Inject(other)
      BY DEF Next, Consume, Receive, SlotStep, Reject, NackArrives, Settle,
         FlushWorker, CopyArrives, CrashWorker, DropConnection, Disconnects,
         Restart, Metrics, AskMetrics, FetchQueue, FetchFails, brokerVars, vars
    <3> QED
      BY <1>2, <3>1 DEF Inject
  <2>2. Message(id, 0) \in MessagesOf(id)
    BY <2>1, MessageFacts, ParametersAssumption DEF MessagesOf
  <2>3. ready'[Message(id, 0)] > 0
    BY <2>1, <2>2 DEF Inject, Add, MessagesOf, TypeOK
  <2> QED
    BY <2>2, <2>3 DEF There, Live, MessagesOf
<1> QED
  BY <1>1, <1>2

LEMMA ThereMeansThere == TypeOK => (ThereInv <=> NeverVanishes)
<1> SUFFICES ASSUME TypeOK, NEW id \in injected
             PROVE  There(id) <=> \E r \in 0..MaxMessageRetries :
                                    Live(Message(id, r)) \/ dlq[Message(id, r)] > 0
  BY DEF ThereInv, NeverVanishes
<1>1. id \in Ids
  BY DEF TypeOK
<1>2. \A r \in 0..MaxMessageRetries : Message(id, r) \in MessagesOf(id)
  BY <1>1, MessageFacts DEF MessagesOf
<1>3. \A m \in MessagesOf(id) : /\ m.retry \in 0..MaxMessageRetries
                                /\ m = Message(id, m.retry)
  BY MessageFacts DEF MessagesOf
<1> QED
  BY <1>2, <1>3 DEF There

\* A message that cannot be handled never vanishes, whatever workers die and
\* connections break between the nack and the copy (consumeFromQueue).
THEOREM NothingVanishes == Safe => []NeverVanishes
<1>1. Init => ThereInv
  BY DEF Init, ThereInv
<1> QED
  BY InitType, TypeStep, ThereStep, ThereMeansThere, <1>1, PTL DEF Safe

-----------------------------------------------------------------------------
(* The metrics show every message there was. *)

\* An image of a finite set is finite and no larger.
LEMMA ImageSize ==
  ASSUME NEW S, IsFiniteSet(S), NEW f, NEW T, T = {f[x] : x \in S},
         f \in [S -> T]
  PROVE  IsFiniteSet(T) /\ Cardinality(T) <= Cardinality(S)
<1>1. f \in Surjection(S, T)
  BY DEF Surjection
<1> QED
  BY <1>1, FS_Surjection

LEMMA UnionSize ==
  ASSUME NEW S, IsFiniteSet(S), NEW T, IsFiniteSet(T)
  PROVE  /\ IsFiniteSet(S \cup T)
         /\ Cardinality(S \cup T) <= Cardinality(S) + Cardinality(T)
<1>1. /\ IsFiniteSet(S \cup T)
      /\ Cardinality(S \cup T) =
           Cardinality(S) + Cardinality(T) - Cardinality(S \cap T)
  BY FS_Union
<1>2. IsFiniteSet(S \cap T)
  BY FS_Intersection
<1>3. /\ Cardinality(S) \in Nat /\ Cardinality(T) \in Nat
      /\ Cardinality(S \cap T) \in Nat
  BY <1>2, FS_CardinalityType
<1> QED
  BY <1>1, <1>3

\* The notifications a bag has copies of are no more than the copies.
LEMMA IdsInBag ==
  ASSUME NEW bag \in [Messages -> Nat]
  PROVE  /\ IsFiniteSet({m.id : m \in {n \in Messages : bag[n] > 0}})
         /\ Cardinality({m.id : m \in {n \in Messages : bag[n] > 0}}) <= Total(bag)
<1> DEFINE ids == {m.id : m \in {n \in Messages : bag[n] > 0}}
           all == {c[1].id : c \in Each(bag)}
           f == [c \in Each(bag) |-> c[1].id]
<1>1. IsFiniteSet(Each(bag)) /\ Total(bag) \in Nat
  BY EachFinite
<1>2. IsFiniteSet(all) /\ Cardinality(all) <= Total(bag)
  <2>1. all = {f[c] : c \in Each(bag)} /\ f \in [Each(bag) -> all]
    OBVIOUS
  <2> HIDE DEF f, all
  <2> QED
    BY <1>1, <2>1, ImageSize DEF Total
<1>3. ids \subseteq all
  <2> SUFFICES ASSUME NEW m \in Messages, bag[m] > 0 PROVE m.id \in all
    OBVIOUS
  <2>1. <<m, 1>> \in Each(bag) /\ <<m, 1>>[1].id = m.id
    BY EachHas
  <2> QED
    BY <2>1
<1>4. /\ IsFiniteSet(ids)
      /\ Cardinality(ids) <= Cardinality(all)
      /\ Cardinality(all) \in Nat /\ Cardinality(ids) \in Nat
  BY <1>2, <1>3, FS_Subset, FS_CardinalityType
<1> QED
  BY <1>1, <1>2, <1>4

\* Whatever was injected is counted in one of the queues.
LEMMA EverybodyIsCounted ==
  ASSUME TypeOK, ThereInv
  PROVE  /\ IsFiniteSet(injected)
         /\ Cardinality(injected) <= Counted("main") + Counted("dlq")
<1> DEFINE idsOf(bag) == {m.id : m \in {n \in Messages : bag[n] > 0}}
           held == {job[s].id : s \in Busy}
           f == [s \in Busy |-> job[s].id]
<1>1. /\ IsFiniteSet(idsOf(ready)) /\ Cardinality(idsOf(ready)) <= Total(ready)
      /\ IsFiniteSet(idsOf(dlq)) /\ Cardinality(idsOf(dlq)) <= Total(dlq)
      /\ Total(ready) \in Nat /\ Total(dlq) \in Nat
  BY IdsInBag, EachFinite DEF TypeOK
<1>2. IsFiniteSet(Busy) /\ Cardinality(Busy) \in Nat
  BY SlotsFinite, FS_Subset, FS_CardinalityType DEF Busy
<1>3. IsFiniteSet(held) /\ Cardinality(held) <= Cardinality(Busy)
  <2>1. held = {f[s] : s \in Busy} /\ f \in [Busy -> held]
    OBVIOUS
  <2> HIDE DEF f, held
  <2> QED
    BY <1>2, <2>1, ImageSize
<1>4. injected \subseteq (idsOf(ready) \cup held) \cup idsOf(dlq)
  <2> SUFFICES ASSUME NEW id \in injected
               PROVE  id \in idsOf(ready) \/ id \in held \/ id \in idsOf(dlq)
    OBVIOUS
  <2>1. PICK m \in Messages : m.id = id /\ (Live(m) \/ dlq[m] > 0)
    BY DEF ThereInv, There, MessagesOf
  <2> QED
    BY <2>1 DEF Live
<1> HIDE DEF idsOf, held
<1>5. /\ IsFiniteSet(idsOf(ready) \cup held)
      /\ Cardinality(idsOf(ready) \cup held)
           <= Cardinality(idsOf(ready)) + Cardinality(held)
  BY <1>1, <1>3, UnionSize
<1>6. /\ IsFiniteSet((idsOf(ready) \cup held) \cup idsOf(dlq))
      /\ Cardinality((idsOf(ready) \cup held) \cup idsOf(dlq))
           <= Cardinality(idsOf(ready) \cup held) + Cardinality(idsOf(dlq))
  BY <1>1, <1>5, UnionSize
<1>7. /\ IsFiniteSet(injected)
      /\ Cardinality(injected)
           <= Cardinality((idsOf(ready) \cup held) \cup idsOf(dlq))
  BY <1>4, <1>6, FS_Subset
<1>8. /\ Cardinality(idsOf(ready)) \in Nat /\ Cardinality(held) \in Nat
      /\ Cardinality(idsOf(dlq)) \in Nat /\ Cardinality(injected) \in Nat
      /\ Cardinality(idsOf(ready) \cup held) \in Nat
      /\ Cardinality((idsOf(ready) \cup held) \cup idsOf(dlq)) \in Nat
  BY <1>1, <1>3, <1>5, <1>6, <1>7, FS_CardinalityType
<1>9. Counted("main") = Total(ready) + Cardinality(Busy) /\ Counted("dlq") = Total(dlq)
  BY DEF Counted
<1> QED
  BY <1>1, <1>2, <1>3, <1>5, <1>6, <1>7, <1>8, <1>9

\* What was answered so far, unless something was dead-lettered meanwhile.
AnsweredInv ==
  /\ asOf.known \subseteq injected
  /\ asOf.dead <= Total(dlq)
  /\ shown["dlq"] <= Total(dlq)
  /\ asOf.ok /\ Total(dlq) = asOf.dead =>
       /\ "main" \notin open => Cardinality(asOf.known) <= shown["main"] + Total(dlq)
       /\ "dlq" \notin open => shown["dlq"] = Total(dlq)

\* Nobody takes anything out of the dead-letter queue.
LEMMA DeadStayDead ==
  ASSUME TypeOK, [Next]_vars
  PROVE  /\ Total(dlq) \in Nat /\ Total(dlq') \in Nat
         /\ dlq' = dlq \/ Total(dlq') = Total(dlq) + 1
         /\ injected \subseteq injected'
         /\ Metrics \/ UNCHANGED metricsVars
<1>1. Total(dlq) \in Nat /\ Total(dlq') \in Nat
  BY TypeStep, EachFinite DEF TypeOK
<1>2. dlq' = dlq \/ \E s \in Slots : NackArrives(s)
  BY DEF Next, Inject, Consume, Receive, SlotStep, Reject, FlushWorker, CopyArrives,
     CrashWorker, DropConnection, Disconnects, Restart, Metrics, AskMetrics,
     FetchQueue, FetchFails, brokerVars, vars
<1>3. ASSUME NEW s \in Slots, NackArrives(s) PROVE Total(dlq') = Total(dlq) + 1
  <2>1. job[s] \in Messages
    BY <1>3, BusyFacts DEF NackArrives, Settle
  <2> QED
    BY <1>3, <2>1, TotalAdd DEF NackArrives, TypeOK
<1>4. injected \subseteq injected' /\ (Metrics \/ UNCHANGED metricsVars)
  BY DEF Next, Inject, Consume, Receive, SlotStep, Reject, NackArrives, Settle,
     FlushWorker, CopyArrives, CrashWorker, DropConnection, Disconnects, Restart,
     Metrics, AskMetrics, FetchQueue, FetchFails, brokerVars, vars
<1> QED
  BY <1>1, <1>2, <1>3, <1>4

LEMMA AnsweredStep ==
  TypeOK /\ ThereInv /\ AnsweredInv /\ [Next]_vars => AnsweredInv'
<1> SUFFICES ASSUME TypeOK, ThereInv, AnsweredInv, [Next]_vars PROVE AnsweredInv'
  OBVIOUS
<1>t. /\ Total(dlq) \in Nat /\ Total(dlq') \in Nat
      /\ shown \in [Queues -> Nat] /\ asOf.dead \in Nat
  BY DeadStayDead DEF TypeOK
<1>1. CASE UNCHANGED metricsVars /\ dlq' = dlq
  BY <1>1, DeadStayDead DEF AnsweredInv, metricsVars
<1>2. CASE UNCHANGED metricsVars /\ Total(dlq') = Total(dlq) + 1
  <2>1. UNCHANGED <<open, shown, asOf>>
    BY <1>2 DEF metricsVars
  <2>2. shown["dlq"] \in Nat
    BY <1>t DEF Queues
  <2> QED
    BY <1>2, <1>t, <2>1, <2>2, DeadStayDead DEF AnsweredInv
<1>3. CASE AskMetrics
  BY <1>3, <1>t DEF AskMetrics, AnsweredInv, Queues, brokerVars
<1>4. ASSUME NEW q \in Queues, FetchQueue(q) PROVE AnsweredInv'
  <2>1. /\ UNCHANGED <<injected, dlq, asOf>>
        /\ open' = open \ {q}
        /\ shown' = [shown EXCEPT ![q] = Counted(q)]
    BY <1>4 DEF FetchQueue, brokerVars
  <2>2. CASE q = "dlq"
    BY <1>t, <2>1, <2>2 DEF AnsweredInv, Counted, Queues
  <2>3. CASE q = "main"
    <3>1. /\ IsFiniteSet(injected)
          /\ Cardinality(injected) <= Counted("main") + Total(dlq)
      BY EverybodyIsCounted DEF Counted
    <3>2. /\ Cardinality(asOf.known) <= Cardinality(injected)
          /\ Cardinality(asOf.known) \in Nat /\ Cardinality(injected) \in Nat
      BY <3>1, FS_Subset, FS_CardinalityType DEF AnsweredInv
    <3>3. Counted("main") \in Nat
      <4>1. shown' \in [Queues -> Nat]
        BY TypeStep DEF TypeOK
      <4> QED
        BY <1>t, <2>1, <2>3, <4>1 DEF Queues
    <3>4. Cardinality(asOf.known) <= Counted("main") + Total(dlq)
      BY <1>t, <3>1, <3>2, <3>3
    <3>5. /\ shown'["main"] = Counted("main") /\ shown'["dlq"] = shown["dlq"]
          /\ "dlq" \in open' <=> "dlq" \in open
      BY <1>t, <2>1, <2>3 DEF Queues
    <3> QED
      BY <2>1, <3>4, <3>5 DEF AnsweredInv
  <2> QED
    BY <2>2, <2>3 DEF Queues
<1>5. ASSUME NEW q \in Queues, FetchFails(q) PROVE AnsweredInv'
  <2>1. /\ UNCHANGED <<injected, dlq, shown>>
        /\ asOf'.known = asOf.known /\ asOf'.dead = asOf.dead /\ ~asOf'.ok
    BY <1>5 DEF FetchFails, brokerVars, TypeOK
  <2> QED
    BY <2>1 DEF AnsweredInv
<1> QED
  BY <1>1, <1>2, <1>3, <1>4, <1>5, DeadStayDead DEF Metrics

\* With both queues fetched every message known when they were asked for is
\* shown in one of them, unless one was dead-lettered in between; the dead
\* letters shown are never more than there are (getStats).
THEOREM MetricsShowEverything == Safe => []EveryMessageIsShown
<1>1. Init => ThereInv /\ AnsweredInv
  BY TotalNone, FS_EmptySet DEF Init, ThereInv, AnsweredInv, Queues
<1>2. TypeOK /\ AnsweredInv => EveryMessageIsShown
  BY DEF AnsweredInv, EveryMessageIsShown
<1> QED
  BY InitType, TypeStep, ThereStep, AnsweredStep, <1>1, <1>2, PTL DEF Safe
=============================================================================
