-------------------------- MODULE ConnectionProofs --------------------------
(***************************************************************************)
(* Three invariants and an action property of RabbitConnection, for any    *)
(* number of attempts, calls of connect, connections and failures.         *)
(***************************************************************************)
EXTENDS RabbitConnection, TLAPS

States == {"idle", "connect", "delay", "channel", "declare"}

-----------------------------------------------------------------------------
(* Types. *)

\* A call that goes on to await something of its connection stays typed.
LEMMA AwaitTyped ==
  ASSUME TypeOK, NEW c \in Calls, NEW what \in States \ {"delay"},
         NEW where \in 1..used' \union {None}, NEW done \in 0..(Declares - 1),
         Await(c, what, where, done), used <= used', used' \in Nat,
         UNCHANGED attempt
  PROVE  /\ pc' \in [Calls -> States]
         /\ \A d \in Calls : pc'[d] = "delay" => attempt'[d] < MaxRetries
         /\ on' \in [Calls -> 1..used' \union {None}]
         /\ declared' \in [Calls -> 0..(Declares - 1)]
BY DEF TypeOK, Await, States

LEMMA AttemptFailsTyped ==
  ASSUME TypeOK, NEW c \in Calls, AttemptFails(c), UNCHANGED <<attempt, used>>
  PROVE  /\ pc' \in [Calls -> States]
         /\ \A d \in Calls : pc'[d] = "delay" => attempt'[d] < MaxRetries
         /\ on' \in [Calls -> 1..used' \union {None}]
         /\ declared' \in [Calls -> 0..(Declares - 1)]
         /\ gaveUp' \subseteq Calls
         /\ isReconnecting' \in BOOLEAN
<1>1. CASE attempt[c] < MaxRetries
  BY <1>1 DEF AttemptFails, Await, TypeOK, States, Declares
<1>2. CASE ~(attempt[c] < MaxRetries)
  <2>1. /\ used <= used' /\ used' \in Nat
        /\ None \in 1..used' \union {None}
        /\ 0 \in 0..(Declares - 1)
        /\ "idle" \in States \ {"delay"}
    BY DEF TypeOK, Declares, States
  <2>2. Await(c, "idle", None, 0) /\ UNCHANGED attempt
    BY <1>2 DEF AttemptFails
  <2>3. gaveUp' \subseteq Calls /\ isReconnecting' \in BOOLEAN
    BY <1>2 DEF AttemptFails, TypeOK
  <2> QED
    BY <2>1, <2>2, <2>3, AwaitTyped
<1> QED
  BY <1>1, <1>2

LEMMA SpendTyped ==
  ASSUME TypeOK, NEW e \in Events, Spend(e)
  PROVE  spent' \in [Events -> Nat]
BY DEF TypeOK, Spend

LEMMA ScheduleTyped ==
  ASSUME TypeOK, ScheduleReconnect \/ UNCHANGED <<isReconnecting, calls>>,
         UNCHANGED used
  PROVE  /\ pc' \in [Calls -> States]
         /\ attempt' \in [Calls -> 1..MaxRetries]
         /\ \A d \in Calls : pc'[d] = "delay" => attempt'[d] < MaxRetries
         /\ on' \in [Calls -> 1..used' \union {None}]
         /\ declared' \in [Calls -> 0..(Declares - 1)]
         /\ isReconnecting' \in BOOLEAN
<1>1. CASE UNCHANGED <<isReconnecting, calls>>
  BY <1>1 DEF TypeOK, calls, States
<1>2. CASE ScheduleReconnect /\ ~isReconnecting
  <2> PICK c \in Reconnects : /\ Await(c, "connect", None, 0)
                              /\ attempt' = [attempt EXCEPT ![c] = 1]
    BY <1>2 DEF ScheduleReconnect
  <2> QED
    BY <1>2, ConnectionAssumption
    DEF ScheduleReconnect, Await, TypeOK, States, Declares, Calls
<1> QED
  BY <1>1, <1>2 DEF ScheduleReconnect

LEMMA CloseHandlerTyped ==
  ASSUME TypeOK, NEW k, CloseHandler(k)
  PROVE  /\ used' = used
         /\ connection' = None
         /\ channel' = None
         /\ open' \subseteq 1..used' /\ usable' \subseteq open'
         /\ pc' \in [Calls -> States]
         /\ attempt' \in [Calls -> 1..MaxRetries]
         /\ \A d \in Calls : pc'[d] = "delay" => attempt'[d] < MaxRetries
         /\ on' \in [Calls -> 1..used' \union {None}]
         /\ declared' \in [Calls -> 0..(Declares - 1)]
         /\ isReconnecting' \in BOOLEAN
<1>1. ScheduleReconnect \/ UNCHANGED <<isReconnecting, calls>>
  BY DEF CloseHandler
<1>2. UNCHANGED used
  BY DEF CloseHandler
<1>3. open' \subseteq 1..used' /\ usable' \subseteq open'
  BY DEF CloseHandler, TypeOK
<1> QED
  BY <1>1, <1>2, <1>3, ScheduleTyped DEF CloseHandler

LEMMA ConnectStepTyped ==
  ASSUME TypeOK, NEW c \in Calls, ConnectStep(c)
  PROVE  TypeOK'
<1>1. CASE Connected(c)
  <2>1. used' \in Nat /\ used <= used' /\ used' \in 1..MaxConnections
    BY <1>1, ConnectionAssumption DEF Connected, TypeOK
  <2>2. 1..used \subseteq 1..used' /\ used' \in 1..used'
    BY <2>1 DEF TypeOK
  <2>3. /\ pc' \in [Calls -> States]
        /\ \A d \in Calls : pc'[d] = "delay" => attempt'[d] < MaxRetries
        /\ on' \in [Calls -> 1..used' \union {None}]
        /\ declared' \in [Calls -> 0..(Declares - 1)]
    BY <1>1, <2>1, <2>2, AwaitTyped DEF Connected, States, Declares
  <2> QED
    BY <1>1, <2>1, <2>2, <2>3 DEF Connected, TypeOK, States, shutdown
<1>2. CASE Refused(c)
  BY <1>2, AttemptFailsTyped, SpendTyped
  DEF Refused, TypeOK, States, broker, shutdown, Events
<1>3. CASE DelayEnds(c)
  BY <1>3, ConnectionAssumption
  DEF DelayEnds, At, Await, TypeOK, States, Declares, broker, fields, shutdown
<1>4. CASE ChannelOpened(c)
  <2>1. on[c] \in 1..used
    BY <1>4 DEF ChannelOpened, TypeOK
  <2>2. /\ used <= used' /\ used' \in Nat
        /\ on[c] \in 1..used' \union {None}
        /\ 0 \in 0..(Declares - 1)
        /\ "declare" \in States \ {"delay"}
        /\ Await(c, "declare", on[c], 0) /\ UNCHANGED attempt
    BY <1>4, <2>1 DEF ChannelOpened, TypeOK, Declares, States
  <2>3. /\ pc' \in [Calls -> States]
        /\ \A d \in Calls : pc'[d] = "delay" => attempt'[d] < MaxRetries
        /\ on' \in [Calls -> 1..used' \union {None}]
        /\ declared' \in [Calls -> 0..(Declares - 1)]
    BY <2>2, AwaitTyped
  <2> QED
    BY <1>4, <2>1, <2>3 DEF ChannelOpened, TypeOK, States, shutdown
<1>5. CASE ChannelRejected(c)
  BY <1>5, AttemptFailsTyped, SpendTyped
  DEF ChannelRejected, TypeOK, States, broker, shutdown, Events
<1>6. CASE Declared(c)
  <2>1. CASE channel = None
    BY <1>6, <2>1, AttemptFailsTyped
    DEF Declared, TypeOK, States, broker, shutdown
  <2>2. CASE channel # None
    <3>1. /\ channel \in 1..used' \union {None}
          /\ declared[c] + 1 \in 0..(Declares - 1)
          /\ used' \in Nat /\ used <= used'
      BY <1>6 DEF Declared, TypeOK, broker, Declares
    <3>2. /\ pc' \in [Calls -> States]
          /\ \A d \in Calls : pc'[d] = "delay" => attempt'[d] < MaxRetries
          /\ on' \in [Calls -> 1..used' \union {None}]
          /\ declared' \in [Calls -> 0..(Declares - 1)]
      BY <1>6, <2>2, <3>1, AwaitTyped DEF Declared, States
    <3> QED
      BY <1>6, <2>2, <3>2 DEF Declared, TypeOK, States, broker, shutdown
  <2> QED
    BY <2>1, <2>2
<1>7. CASE DeclareRejected(c)
  BY <1>7, AttemptFailsTyped
  DEF DeclareRejected, TypeOK, States, broker, shutdown
<1>8. CASE Ready(c)
  <2>1. /\ used <= used' /\ used' \in Nat
        /\ None \in 1..used' \union {None}
        /\ 0 \in 0..(Declares - 1)
        /\ "idle" \in States \ {"delay"}
        /\ Await(c, "idle", None, 0) /\ UNCHANGED attempt
    BY <1>8 DEF Ready, TypeOK, Declares, States, broker
  <2>2. /\ pc' \in [Calls -> States]
        /\ \A d \in Calls : pc'[d] = "delay" => attempt'[d] < MaxRetries
        /\ on' \in [Calls -> 1..used' \union {None}]
        /\ declared' \in [Calls -> 0..(Declares - 1)]
    BY <2>1, AwaitTyped
  <2> QED
    BY <1>8, <2>2 DEF Ready, TypeOK, States, broker, shutdown
<1> QED
  BY <1>1, <1>2, <1>3, <1>4, <1>5, <1>6, <1>7, <1>8 DEF ConnectStep

\* A step of the world outside, or of close.
LEMMA OtherStepTyped ==
  ASSUME TypeOK,
         \/ \E k \in Connections : Drop(k) \/ ChannelCloses(k)
         \/ Close \/ CloseStep
  PROVE  TypeOK'
<1>1. ASSUME NEW k \in Connections, Drop(k)
      PROVE  TypeOK'
  BY <1>1, CloseHandlerTyped, SpendTyped
  DEF Drop, TypeOK, States, shutdown, Events
<1>2. ASSUME NEW k \in Connections, ChannelCloses(k)
      PROVE  TypeOK'
  BY <1>2, SpendTyped
  DEF ChannelCloses, TypeOK, fields, calls, shutdown, Events
<1>3. CASE Close
  BY <1>3 DEF Close, CloseAt, CloseConnection, TypeOK, fields, broker, calls
<1>4. CASE ChannelClosed
  BY <1>4 DEF ChannelClosed, CloseAt, CloseConnection, TypeOK, calls
<1>5. CASE ConnectionClosed
  BY <1>5, CloseHandlerTyped DEF ConnectionClosed, CloseAt, TypeOK, States
<1>6. CASE CloseThrows
  BY <1>6 DEF CloseThrows, CloseAt, TypeOK, fields, broker, calls
<1> QED
  BY <1>1, <1>2, <1>3, <1>4, <1>5, <1>6 DEF CloseStep

LEMMA StepTyped ==
  ASSUME TypeOK, [Next]_vars
  PROVE  TypeOK'
<1>1. CASE UNCHANGED vars
  BY <1>1 DEF TypeOK, vars, fields, broker, calls, shutdown
<1>2. ASSUME NEW c \in Calls, ConnectStep(c)
      PROVE  TypeOK'
  BY <1>2, ConnectStepTyped
<1> QED
  BY <1>1, <1>2, OtherStepTyped DEF Next

LEMMA InitTyped == Init => TypeOK
<1> SUFFICES ASSUME Init
             PROVE  TypeOK
  OBVIOUS
<1>1. pc \in [Calls -> States]
  BY DEF Init, States
<1>2. attempt \in [Calls -> 1..MaxRetries]
  BY ConnectionAssumption DEF Init
<1>3. \A c \in Calls : pc[c] # "delay"
  BY DEF Init
<1>4. on \in [Calls -> 1..used \union {None}]
  BY DEF Init
<1>5. declared \in [Calls -> 0..(Declares - 1)]
  BY DEF Init, Declares
<1>6. spent \in [Events -> Nat]
  BY DEF Init
<1>7. /\ used \in 0..MaxConnections
      /\ open \subseteq 1..used /\ usable \subseteq open
  BY ConnectionAssumption DEF Init
<1> QED
  BY <1>1, <1>2, <1>3, <1>4, <1>5, <1>6, <1>7 DEF Init, TypeOK, States

\* Every reachable state is well typed: the fields only ever name connections
\* that were opened, and no call makes more than MaxRetries attempts.
THEOREM ConnectionTyped == Safe => []TypeOK
<1>1. Init => TypeOK
  BY InitTyped
<1>2. TypeOK /\ [Next]_vars => TypeOK'
  BY StepTyped
<1> QED
  BY <1>1, <1>2, PTL DEF Safe

-----------------------------------------------------------------------------
(* The channel that getChannel hands out. *)

LEMMA StepConnected ==
  ASSUME ChannelIsConnected, [Next]_vars
  PROVE  ChannelIsConnected'
<1>1. CASE UNCHANGED vars
  BY <1>1 DEF ChannelIsConnected, vars, fields, broker
<1>2. ASSUME NEW c \in Calls, ConnectStep(c)
      PROVE  ChannelIsConnected'
  BY <1>2 DEF ConnectStep, Connected, Refused, DelayEnds, ChannelOpened,
              ChannelRejected, Declared, DeclareRejected, Ready,
              ChannelIsConnected, broker, fields
<1>3. ASSUME NEW k, CloseHandler(k)
      PROVE  ChannelIsConnected'
  BY <1>3 DEF CloseHandler, ChannelIsConnected
<1>4. ASSUME NEW k \in Connections, Drop(k) \/ ChannelCloses(k)
      PROVE  ChannelIsConnected'
  BY <1>3, <1>4 DEF Drop, ChannelCloses, ChannelIsConnected, fields
<1>5. CASE Close \/ CloseStep
  BY <1>3, <1>5 DEF Close, CloseStep, ChannelClosed, ConnectionClosed,
                    CloseThrows, ChannelIsConnected, fields, broker
<1> QED
  BY <1>1, <1>2, <1>4, <1>5 DEF Next

\* However the calls of connect overlap and whatever closes, getChannel never
\* hands out the channel of a connection that has closed.
THEOREM ChannelStaysConnected == Safe => []ChannelIsConnected
<1>1. Init => ChannelIsConnected
  BY DEF Init, ChannelIsConnected
<1>2. ChannelIsConnected /\ [Next]_vars => ChannelIsConnected'
  BY StepConnected
<1> QED
  BY <1>1, <1>2, PTL DEF Safe

-----------------------------------------------------------------------------
(* The flag isReconnecting. *)

\* A step of one call leaves every other call running.
LEMMA OthersKeepRunning ==
  ASSUME TypeOK, NEW c \in Calls, NEW what \in States, NEW where, NEW done,
         Await(c, what, where, done)
  PROVE  /\ \A d \in Calls \ {c} : pc'[d] = pc[d]
         /\ pc'[c] = what
BY DEF Await, TypeOK, States

LEMMA AttemptFailsFlag ==
  ASSUME TypeOK, FlagMeansAtWork, NEW c \in Calls, AttemptFails(c)
  PROVE  FlagMeansAtWork'
<1>1. CASE attempt[c] < MaxRetries
  BY <1>1, OthersKeepRunning
  DEF AttemptFails, FlagMeansAtWork, Running, States, Calls
<1>2. CASE ~(attempt[c] < MaxRetries)
  <2>1. CASE c = "start"
    <3>1. \A d \in Reconnects : pc'[d] = pc[d]
      <4>1. Await(c, "idle", None, 0)
        BY <1>2 DEF AttemptFails
      <4>2. \A d \in Calls \ {c} : pc'[d] = pc[d]
        BY <4>1, OthersKeepRunning DEF States
      <4> QED
        BY <2>1, <4>2, ConnectionAssumption DEF Calls
    <3> QED
      BY <1>2, <2>1, <3>1 DEF AttemptFails, FlagMeansAtWork, Running
  <2>2. CASE c # "start"
    BY <1>2, <2>2 DEF AttemptFails, FlagMeansAtWork
  <2> QED
    BY <2>1, <2>2
<1> QED
  BY <1>1, <1>2

\* A call that goes on leaves the flag to whoever raised it.
LEMMA GoesOnFlag ==
  ASSUME TypeOK, FlagMeansAtWork, NEW c \in Calls,
         NEW what \in States \ {"idle"}, NEW where, NEW done,
         Await(c, what, where, done), UNCHANGED isReconnecting
  PROVE  FlagMeansAtWork'
BY OthersKeepRunning DEF FlagMeansAtWork, Running, States, Calls

LEMMA ScheduleFlag ==
  ASSUME TypeOK, FlagMeansAtWork, ScheduleReconnect
  PROVE  FlagMeansAtWork'
<1>1. CASE isReconnecting
  BY <1>1 DEF ScheduleReconnect, FlagMeansAtWork, Running, calls
<1>2. CASE ~isReconnecting
  <2> PICK c \in Reconnects : Await(c, "connect", None, 0)
    BY <1>2 DEF ScheduleReconnect
  <2>1. pc'[c] = "connect"
    BY OthersKeepRunning DEF Calls, States
  <2> QED
    BY <2>1 DEF FlagMeansAtWork, Running
<1> QED
  BY <1>1, <1>2

LEMMA CloseHandlerFlag ==
  ASSUME TypeOK, FlagMeansAtWork, NEW k, CloseHandler(k)
  PROVE  FlagMeansAtWork'
<1>1. CASE ScheduleReconnect
  BY <1>1, ScheduleFlag
<1>2. CASE UNCHANGED <<isReconnecting, calls>>
  BY <1>2 DEF FlagMeansAtWork, Running, calls
<1> QED
  BY <1>1, <1>2 DEF CloseHandler

LEMMA ConnectStepFlag ==
  ASSUME TypeOK, FlagMeansAtWork, NEW c \in Calls, ConnectStep(c)
  PROVE  FlagMeansAtWork'
<1>1. CASE Connected(c)
  BY <1>1, GoesOnFlag DEF Connected, States
<1>2. CASE Refused(c) \/ ChannelRejected(c) \/ DeclareRejected(c)
  BY <1>2, AttemptFailsFlag DEF Refused, ChannelRejected, DeclareRejected
<1>3. CASE DelayEnds(c)
  BY <1>3, GoesOnFlag DEF DelayEnds, fields, States
<1>4. CASE ChannelOpened(c)
  BY <1>4, GoesOnFlag DEF ChannelOpened, States
<1>5. CASE Declared(c)
  BY <1>5, GoesOnFlag, AttemptFailsFlag DEF Declared, States
<1>6. CASE Ready(c)
  BY <1>6 DEF Ready, FlagMeansAtWork
<1> QED
  BY <1>1, <1>2, <1>3, <1>4, <1>5, <1>6 DEF ConnectStep

LEMMA StepFlag ==
  ASSUME TypeOK, FlagMeansAtWork, [Next]_vars
  PROVE  FlagMeansAtWork'
<1>1. CASE UNCHANGED vars
  BY <1>1 DEF FlagMeansAtWork, Running, vars, fields, calls
<1>2. ASSUME NEW k \in Connections, Drop(k) \/ ChannelCloses(k)
      PROVE  FlagMeansAtWork'
  BY <1>2, CloseHandlerFlag
  DEF Drop, ChannelCloses, FlagMeansAtWork, Running, fields, calls
<1>3. CASE Close \/ CloseStep
  BY <1>3, CloseHandlerFlag
  DEF Close, CloseStep, ChannelClosed, ConnectionClosed, CloseThrows,
      FlagMeansAtWork, Running, fields, calls
<1> QED
  BY <1>1, <1>2, <1>3, ConnectStepFlag DEF Next

\* isReconnecting is never left raised by a reconnect that has ended, so it
\* cannot hold off reconnects for ever.
THEOREM FlagIsNeverStuck == Safe => []FlagMeansAtWork
<1>1. Init => FlagMeansAtWork
  BY DEF Init, FlagMeansAtWork
<1>2. TypeOK /\ FlagMeansAtWork /\ [Next]_vars => FlagMeansAtWork'
  BY StepFlag
<1> QED
  BY <1>1, <1>2, ConnectionTyped, PTL DEF Safe

-----------------------------------------------------------------------------
(* Shutting down. *)

\* Who closes has said so first.
FlaggedFirst == closing # "no" => isShuttingDown

LEMMA StepFlagged ==
  ASSUME FlaggedFirst, [Next]_vars
  PROVE  FlaggedFirst'
<1>1. CASE UNCHANGED vars
  BY <1>1 DEF FlaggedFirst, vars, shutdown
<1>2. ASSUME NEW c \in Calls, ConnectStep(c)
      PROVE  FlaggedFirst'
  BY <1>2 DEF ConnectStep, Connected, Refused, DelayEnds, ChannelOpened,
              ChannelRejected, Declared, DeclareRejected, Ready,
              FlaggedFirst, shutdown
<1>3. ASSUME NEW k \in Connections, Drop(k) \/ ChannelCloses(k)
      PROVE  FlaggedFirst'
  BY <1>3 DEF Drop, ChannelCloses, FlaggedFirst, shutdown
<1>4. CASE Close
  BY <1>4 DEF Close, FlaggedFirst
<1>5. CASE CloseStep
  BY <1>5 DEF CloseStep, ChannelClosed, ConnectionClosed, CloseThrows,
              FlaggedFirst
<1> QED
  BY <1>1, <1>2, <1>3, <1>4, <1>5 DEF Next

\* A step of connect belongs to a call that runs, and leaves the others alone.
LEMMA ConnectStepIsOfOne ==
  ASSUME TypeOK, NEW c \in Calls, ConnectStep(c)
  PROVE  Running(c) /\ \A d \in Calls \ {c} : pc'[d] = pc[d]
<1>1. Running(c)
  BY DEF ConnectStep, Connected, Refused, DelayEnds, ChannelOpened,
         ChannelRejected, Declared, DeclareRejected, Ready, At, Running
<1>2. ASSUME AttemptFails(c)
      PROVE  \A d \in Calls \ {c} : pc'[d] = pc[d]
  BY <1>2, OthersKeepRunning DEF AttemptFails, States
<1>3. CASE Connected(c)
  BY <1>1, <1>3, OthersKeepRunning DEF Connected, States
<1>4. CASE DelayEnds(c) \/ ChannelOpened(c)
  BY <1>1, <1>4, OthersKeepRunning DEF DelayEnds, ChannelOpened, States
<1>5. CASE Refused(c) \/ ChannelRejected(c) \/ DeclareRejected(c)
  BY <1>1, <1>2, <1>5 DEF Refused, ChannelRejected, DeclareRejected
<1>6. CASE Declared(c)
  <2>1. CASE channel = None
    BY <1>1, <1>2, <1>6, <2>1 DEF Declared
  <2>2. CASE channel # None
    BY <1>1, <1>6, <2>2, OthersKeepRunning DEF Declared, States
  <2> QED
    BY <2>1, <2>2
<1>7. CASE Ready(c)
  BY <1>1, <1>7, OthersKeepRunning DEF Ready, States
<1> QED
  BY <1>3, <1>4, <1>5, <1>6, <1>7 DEF ConnectStep

LEMMA StepStaysDown ==
  ASSUME TypeOK, FlaggedFirst, Next, closing # "no",
         NEW c \in Reconnects, ~Running(c)
  PROVE  pc'[c] = "idle"
<1>1. c \in Calls /\ pc[c] = "idle" /\ isShuttingDown
  BY DEF Calls, Running, FlaggedFirst
<1>2. ASSUME NEW d \in Calls, ConnectStep(d)
      PROVE  pc'[c] = "idle"
  BY <1>1, <1>2, ConnectStepIsOfOne
<1>3. ASSUME NEW k, CloseHandler(k)
      PROVE  pc'[c] = "idle"
  BY <1>1, <1>3 DEF CloseHandler, calls
<1>4. ASSUME NEW k \in Connections, Drop(k) \/ ChannelCloses(k)
      PROVE  pc'[c] = "idle"
  BY <1>1, <1>3, <1>4 DEF Drop, ChannelCloses, calls
<1>5. CASE Close \/ CloseStep
  BY <1>1, <1>3, <1>5
  DEF Close, CloseStep, ChannelClosed, ConnectionClosed, CloseThrows, calls
<1> QED
  BY <1>2, <1>4, <1>5 DEF Next

\* Once close was called no connection that closes starts a reconnect.
THEOREM ShutdownIsFinal == Safe => ShutdownStaysDown
<1>1. Init => FlaggedFirst
  BY DEF Init, FlaggedFirst
<1>2. FlaggedFirst /\ [Next]_vars => FlaggedFirst'
  BY StepFlagged
<1>3. TypeOK /\ FlaggedFirst /\ [Next]_vars
        => [closing # "no" =>
              \A c \in Reconnects : ~Running(c) => pc'[c] = "idle"]_vars
  BY StepStaysDown
<1> QED
  BY <1>1, <1>2, <1>3, ConnectionTyped, PTL DEF Safe, ShutdownStaysDown
=============================================================================
