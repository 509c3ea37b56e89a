--------------------------- MODULE LifecycleProofs ---------------------------
(***************************************************************************)
(* For every set of signals and every bound of Lifecycle: its states are   *)
(* well typed, exit code 0 tells the truth as far as close can know it, and *)
(* no request meets a service that start-up or a shutdown left closed.     *)
(***************************************************************************)
EXTENDS Lifecycle, TLAPS

-----------------------------------------------------------------------------
(* The inductive invariant. *)

\* Who waits for another attempt has one.
TypeInv == TypeOK /\ (step = "delay" => attempt < MaxRetries)

\* A server exists only when start-up is through, of which Redis is the last.
ServerIsLast == /\ http # "none" => stage = "listening" /\ step = "done"
                /\ step \in {"check", "await"} => stage = "redis"

\* Without a server that takes requests there are none.
NoIdleRequests == http \in {"none", "closed"} => requests = 0

\* A connection to RabbitMQ that is open is the one the field names, unless
\* another one has taken its place.
ConnectionsNamed ==
  /\ service["rabbit"] = "open" => connections > 0
  /\ "leaked" \notin mishaps =>
       connections = IF service["rabbit"] = "open" THEN 1 ELSE 0

\* What start-up has connected stays so until the server is closed.
ConnectedInOrder ==
  "early" \notin mishaps /\ http # "closed" =>
    /\ stage # "database" => service["database"] = "open"
    /\ stage \in {"redis", "listening"} =>
         service["rabbit"] = "open" \/ "lost" \in mishaps
    /\ redis # "end"

\* Of RabbitMQ nothing is open and nothing can open any more.
NothingLeft == \/ "leaked" \in mishaps
               \/ "racing" \in mishaps
               \/ connections = 0 /\ reconnects = 0

\* A shutdown closes one thing after the other, the server first.
ClosedInOrder ==
  "early" \notin mishaps => \A g \in Signals :
    /\ shutdown[g] \in {"rabbit", "redis", "database", "done"} => http = "closed"
    /\ shutdown[g] \in {"redis", "database", "done"} => NothingLeft
    /\ shutdown[g] \in {"database", "done"} => redis = "end"

Inv == /\ TypeInv
       /\ ServerIsLast
       /\ NoIdleRequests
       /\ ConnectionsNamed
       /\ ConnectedInOrder
       /\ ClosedInOrder
       /\ CleanExit

LEMMA InitInv == Init => Inv
<1> SUFFICES ASSUME Init PROVE Inv
  OBVIOUS
<1> USE ParametersAssumption DEF Init
<1>1. TypeInv
  <2>1. isReconnecting \in BOOLEAN
    BY Zenon
  <2>2. requests \in 0..MaxRequests /\ attempt \in 1..MaxRetries
    OBVIOUS
  <2> QED
    BY <2>1, <2>2 DEF TypeInv, TypeOK, Services, Mishaps
<1>2. ServerIsLast /\ NoIdleRequests /\ ConnectionsNamed
  BY DEF ServerIsLast, NoIdleRequests, ConnectionsNamed, Services
<1>3. ConnectedInOrder /\ ClosedInOrder /\ CleanExit
  BY DEF ConnectedInOrder, ClosedInOrder, CleanExit
<1> QED
  BY <1>1, <1>2, <1>3 DEF Inv

LEMMA SpendTyped ==
  ASSUME spent \in [Failures -> Nat], NEW e \in Failures, Spend(e)
  PROVE  spent' \in [Failures -> Nat]
BY DEF Spend

LEMMA AttemptTyped ==
  ASSUME TypeOK, AttemptRejected
  PROVE  /\ process' \in {"running", "exited 0", "exited 1"}
         /\ step' \in {"gaveUp", "delay"}
         /\ step' = "delay" => attempt < MaxRetries
         /\ stage' = stage
         /\ attempt' = attempt
<1>0. attempt \in 1..MaxRetries
  BY Zenon DEF TypeOK
<1>1. attempt # MaxRetries => attempt < MaxRetries
  BY <1>0, ParametersAssumption
<1>2. CASE attempt = MaxRetries
  BY <1>2 DEF AttemptRejected, TypeOK
<1>3. CASE attempt # MaxRetries
  BY <1>1, <1>3 DEF AttemptRejected, TypeOK
<1> QED
  BY <1>2, <1>3

LEMMA FirstOfEach == 1 \in 1..MaxRetries /\ 0 \in 0..MaxRequests
BY ParametersAssumption

LEMMA OpenTyped ==
  ASSUME TypeOK, ConnectionsNamed, OpenRabbit
  PROVE  /\ service' \in [Services -> {"closed", "open"}]
         /\ connections' \in Nat
         /\ mishaps' \subseteq Mishaps
         /\ ConnectionsNamed'
<1>1. service \in [Services -> {"closed", "open"}] /\ connections \in Nat
  BY Zenon DEF TypeOK
<1>2. service' = [service EXCEPT !["rabbit"] = "open"]
  BY DEF OpenRabbit
<1>3. /\ service' \in [Services -> {"closed", "open"}]
      /\ service'["rabbit"] = "open"
  BY <1>1, <1>2 DEF Services
<1>4. connections' \in Nat /\ connections' = connections + 1
  BY <1>1 DEF OpenRabbit
<1>5. mishaps \subseteq mishaps' /\ mishaps' \subseteq Mishaps
  BY DEF OpenRabbit, TypeOK, Mishaps
<1>6. CASE service["rabbit"] = "open"
  <2>1. "leaked" \in mishaps'
    BY <1>6 DEF OpenRabbit
  <2>2. connections' > 0
    BY <1>1, <1>4
  <2> QED
    BY <1>3, <1>4, <1>5, <2>1, <2>2 DEF ConnectionsNamed
<1>7. CASE service["rabbit"] # "open"
  BY <1>1, <1>3, <1>4, <1>5, <1>7 DEF ConnectionsNamed
<1> QED
  BY <1>3, <1>4, <1>5, <1>6, <1>7

LEMMA StepTypes == Inv /\ [Next]_vars => TypeInv'
<1> SUFFICES ASSUME Inv, [Next]_vars PROVE TypeInv'
  OBVIOUS
<1> USE ParametersAssumption
        DEF Inv, TypeInv, TypeOK, Services, Running, startVars, rabbitVars, serviceVars,
            httpVars, shutdownVars
<1>1. CASE DelayEnds
  BY <1>1 DEF DelayEnds
<1>2. CASE CheckRedis
  BY <1>2 DEF CheckRedis, Listen
<1>3. CASE TryRedis
  <2>1. CASE redis \in {"connecting", "connect", "ready"}
    BY <1>3, <2>1, AttemptTyped DEF TryRedis
  <2>2. CASE redis \notin {"connecting", "connect", "ready"}
    BY <1>3, <2>2 DEF TryRedis
  <2> QED
    BY <2>1, <2>2
<1>4. CASE DatabaseConnects
  BY <1>4 DEF DatabaseConnects, Calls, Connected, After
<1>5. CASE RabbitConnects
  <2>1. OpenRabbit /\ Connected("rabbit")
    BY <1>5 DEF RabbitConnects
  <2>2. isReconnecting' \in BOOLEAN
    BY <1>5, Zenon DEF RabbitConnects
  <2>3. UNCHANGED <<reconnects, redis, httpVars, shutdown, spent>>
    BY <1>5 DEF RabbitConnects
  <2> QED
    BY <2>1, <2>2, <2>3, OpenTyped, FirstOfEach DEF Connected, After
<1>6. CASE RabbitHalfway
  <2>1. AttemptRejected /\ OpenRabbit /\ spent' \in [Failures -> Nat]
    BY <1>6, SpendTyped DEF RabbitHalfway, Failures
  <2>2. UNCHANGED <<reconnects, isReconnecting, redis, httpVars, shutdown>>
    BY <1>6 DEF RabbitHalfway
  <2> QED
    BY <2>1, <2>2, AttemptTyped, OpenTyped
<1>7. ASSUME NEW s \in Services, ServiceRefuses(s) PROVE TypeInv'
  BY <1>7, AttemptTyped, SpendTyped DEF ServiceRefuses, Calls, Failures
<1>8. CASE LoseRabbit
  <2>1. connections' \in Nat
    BY <1>8 DEF LoseRabbit
  <2>2. reconnects' \in Nat
    BY <1>8 DEF LoseRabbit, ScheduleReconnect
  <2>3. isReconnecting' = TRUE \/ isReconnecting' = isReconnecting
    BY <1>8, Zenon DEF LoseRabbit, ScheduleReconnect
  <2>4. isReconnecting' \in BOOLEAN
    BY <2>3, Zenon
  <2>5. spent' \in [Failures -> Nat]
    BY <1>8, SpendTyped DEF LoseRabbit, Failures
  <2>6. service' \in [Services -> {"closed", "open"}]
    BY <1>8 DEF LoseRabbit
  <2>7. process' = process /\ UNCHANGED <<startVars, redis, httpVars, shutdown>>
        /\ mishaps' = mishaps \union {"lost"}
    BY <1>8, Zenon DEF LoseRabbit
  <2> QED
    BY <2>1, <2>2, <2>4, <2>5, <2>6, <2>7 DEF Mishaps
<1>9. CASE ReconnectOpens
  <2>1. reconnects' \in Nat
    BY <1>9 DEF ReconnectOpens, ReconnectEnds
  <2>2. isReconnecting' = FALSE \/ isReconnecting' = isReconnecting
    BY <1>9, Zenon DEF ReconnectOpens, ReconnectEnds
  <2>3. isReconnecting' \in BOOLEAN
    BY <2>2, Zenon
  <2>4. spent' \in [Failures -> Nat]
    BY <1>9, SpendTyped DEF ReconnectOpens, Failures
  <2>5. UNCHANGED <<process, startVars, redis, httpVars, shutdown>> /\ OpenRabbit
    BY <1>9, Zenon DEF ReconnectOpens
  <2>6. UNCHANGED <<process, stage, step, attempt, redis, http, requests, shutdown>>
    BY <2>5
  <2>7. /\ service' \in [Services -> {"closed", "open"}]
        /\ connections' \in Nat
        /\ mishaps' \subseteq Mishaps
    BY <2>5, OpenTyped
  <2> QED
    BY <2>1, <2>3, <2>4, <2>6, <2>7
<1>10. CASE ReconnectGivesUp
  <2>1. reconnects' \in Nat
    BY <1>10 DEF ReconnectGivesUp, ReconnectEnds
  <2>2. isReconnecting' \in BOOLEAN
    BY <1>10, Zenon DEF ReconnectGivesUp, ReconnectEnds
  <2>3. spent' \in [Failures -> Nat]
    BY <1>10, SpendTyped DEF ReconnectGivesUp, Failures
  <2>4. UNCHANGED <<process, startVars, service, connections, redis, httpVars,
                    shutdownVars>>
    BY <1>10, Zenon DEF ReconnectGivesUp
  <2> QED
    BY <2>1, <2>2, <2>3, <2>4
<1>11. CASE RedisAccepts
  BY <1>11 DEF RedisAccepts
<1>12. CASE RedisReady
  BY <1>12 DEF RedisReady, Listen
<1>13. CASE RedisBreaks
  <2>1. CASE step = "await"
    BY <1>13, <2>1, AttemptTyped, SpendTyped DEF RedisBreaks, Failures
  <2>2. CASE step # "await"
    BY <1>13, <2>2, SpendTyped DEF RedisBreaks, Failures
  <2> QED
    BY <2>1, <2>2
<1>14. CASE RedisReconnects
  BY <1>14 DEF RedisReconnects
<1>15. CASE Arrive
  BY <1>15 DEF Arrive
<1>16. CASE Finish
  BY <1>16 DEF Finish
<1>17. CASE Drained
  BY <1>17 DEF Drained
<1>18. CASE Fatal
  BY <1>18, SpendTyped DEF Fatal, Exit, Failures
<1>19. ASSUME NEW g \in Signals, Signal(g) PROVE TypeInv'
  BY <1>19 DEF Signal, Mishaps
<1>20. ASSUME NEW g \in Signals, CloseRabbit(g) PROVE TypeInv'
  <2>1. connections' \in Nat
    BY <1>20 DEF CloseRabbit, LeftOpen, ConnectionsNamed
  <2> QED
    BY <1>20, <2>1 DEF CloseRabbit, Mishaps
<1>21. ASSUME NEW g \in Signals, QuitRedis(g) PROVE TypeInv'
  <2>1. CASE step = "await"
    BY <1>21, <2>1, AttemptTyped DEF QuitRedis
  <2>2. CASE step # "await"
    BY <1>21, <2>2 DEF QuitRedis
  <2> QED
    BY <2>1, <2>2
<1>22. ASSUME NEW g \in Signals, CloseDatabase(g) PROVE TypeInv'
  BY <1>22 DEF CloseDatabase, Exit
<1>23. ASSUME NEW g \in Signals, CloseFails(g) PROVE TypeInv'
  BY <1>23, SpendTyped DEF CloseFails, Exit, Failures
<1>24. ASSUME NEW g \in Signals, ForceExit(g) PROVE TypeInv'
  BY <1>24 DEF ForceExit, Exit
<1>25. CASE Restart
  <2>1. isReconnecting' \in BOOLEAN
    BY <1>25, Zenon DEF Restart
  <2>2. attempt' \in 1..MaxRetries /\ requests' \in 0..MaxRequests
    BY <1>25, FirstOfEach, Zenon DEF Restart
  <2>3. service' \in [Services -> {"closed", "open"}] /\ spent' \in [Failures -> Nat]
    BY <1>25 DEF Restart
  <2> QED
    BY <1>25, <2>1, <2>2, <2>3 DEF Restart, Mishaps
<1>26. CASE UNCHANGED vars
  <2>1. /\ process' = process /\ stage' = stage /\ step' = step
        /\ attempt' = attempt /\ service' = service /\ redis' = redis
        /\ connections' = connections /\ reconnects' = reconnects
        /\ isReconnecting' = isReconnecting
        /\ http' = http /\ requests' = requests /\ shutdown' = shutdown
        /\ mishaps' = mishaps /\ spent' = spent
    BY <1>26 DEF vars
  <2>2. isReconnecting' \in BOOLEAN /\ mishaps' \subseteq Mishaps
    BY <2>1, Zenon
  <2>3. spent' \in [Failures -> Nat]
    BY <2>1, Zenon
  <2> QED
    BY <2>1, <2>2, <2>3
<1> QED
  BY <1>1, <1>2, <1>3, <1>4, <1>5, <1>6, <1>7, <1>8, <1>9, <1>10, <1>11,
     <1>12, <1>13, <1>14, <1>15, <1>16, <1>17, <1>18, <1>19, <1>20, <1>21,
     <1>22, <1>23, <1>24, <1>25, <1>26
     DEF Next, StartStep, RabbitStep, RedisStep, ShutdownStep

LEMMA StepOrder == Inv /\ [Next]_vars => (ServerIsLast /\ NoIdleRequests)'
<1> SUFFICES ASSUME Inv, [Next]_vars PROVE (ServerIsLast /\ NoIdleRequests)'
  OBVIOUS
<1> USE DEF Inv, TypeInv, TypeOK, ServerIsLast, NoIdleRequests, Running, startVars, rabbitVars, serviceVars,
            httpVars, shutdownVars
<1>1. CASE DelayEnds
  BY <1>1 DEF DelayEnds
<1>2. CASE CheckRedis
  BY <1>2 DEF CheckRedis, Listen
<1>3. CASE TryRedis
  BY <1>3 DEF TryRedis, AttemptRejected
<1>4. CASE DatabaseConnects
  BY <1>4 DEF DatabaseConnects, Calls, Connected, After
<1>5. CASE RabbitConnects
  BY <1>5 DEF RabbitConnects, Calls, Connected, After, OpenRabbit
<1>6. CASE RabbitHalfway
  BY <1>6 DEF RabbitHalfway, Calls, OpenRabbit, AttemptRejected
<1>7. ASSUME NEW s \in Services, ServiceRefuses(s) PROVE (ServerIsLast /\ NoIdleRequests)'
  BY <1>7 DEF ServiceRefuses, Calls, AttemptRejected
<1>8. CASE LoseRabbit
  BY <1>8 DEF LoseRabbit, ScheduleReconnect
<1>9. CASE ReconnectOpens
  BY <1>9 DEF ReconnectOpens, OpenRabbit, ReconnectEnds
<1>10. CASE ReconnectGivesUp
  BY <1>10 DEF ReconnectGivesUp, ReconnectEnds
<1>11. CASE RedisAccepts
  BY <1>11 DEF RedisAccepts
<1>12. CASE RedisReady
  BY <1>12 DEF RedisReady, Listen
<1>13. CASE RedisBreaks
  BY <1>13 DEF RedisBreaks, AttemptRejected
<1>14. CASE RedisReconnects
  BY <1>14 DEF RedisReconnects
<1>15. CASE Arrive
  BY <1>15 DEF Arrive
<1>16. CASE Finish
  BY <1>16 DEF Finish
<1>17. CASE Drained
  BY <1>17 DEF Drained
<1>18. CASE Fatal
  BY <1>18 DEF Fatal, Exit
<1>19. ASSUME NEW g \in Signals, Signal(g) PROVE (ServerIsLast /\ NoIdleRequests)'
  BY <1>19 DEF Signal
<1>20. ASSUME NEW g \in Signals, CloseRabbit(g) PROVE (ServerIsLast /\ NoIdleRequests)'
  BY <1>20 DEF CloseRabbit, LeftOpen
<1>21. ASSUME NEW g \in Signals, QuitRedis(g) PROVE (ServerIsLast /\ NoIdleRequests)'
  BY <1>21 DEF QuitRedis, AttemptRejected
<1>22. ASSUME NEW g \in Signals, CloseDatabase(g) PROVE (ServerIsLast /\ NoIdleRequests)'
  BY <1>22 DEF CloseDatabase, Exit
<1>23. ASSUME NEW g \in Signals, CloseFails(g) PROVE (ServerIsLast /\ NoIdleRequests)'
  BY <1>23 DEF CloseFails, Exit
<1>24. ASSUME NEW g \in Signals, ForceExit(g) PROVE (ServerIsLast /\ NoIdleRequests)'
  BY <1>24 DEF ForceExit, Exit
<1>25. CASE Restart
  BY <1>25 DEF Restart
<1>26. CASE UNCHANGED vars
  BY <1>26 DEF vars
<1> QED
  BY <1>1, <1>2, <1>3, <1>4, <1>5, <1>6, <1>7, <1>8, <1>9, <1>10, <1>11,
     <1>12, <1>13, <1>14, <1>15, <1>16, <1>17, <1>18, <1>19, <1>20, <1>21,
     <1>22, <1>23, <1>24, <1>25, <1>26
     DEF Next, StartStep, RabbitStep, RedisStep, ShutdownStep

LEMMA StepNamed == Inv /\ [Next]_vars => ConnectionsNamed'
<1> SUFFICES ASSUME Inv, [Next]_vars PROVE ConnectionsNamed'
  OBVIOUS
<1> USE DEF Inv, TypeInv, TypeOK, ConnectionsNamed, Services, Running, startVars, rabbitVars, serviceVars,
            httpVars, shutdownVars
<1>1. CASE DelayEnds
  BY <1>1 DEF DelayEnds
<1>2. CASE CheckRedis
  BY <1>2 DEF CheckRedis, Listen
<1>3. CASE TryRedis
  BY <1>3 DEF TryRedis, AttemptRejected
<1>4. CASE DatabaseConnects
  BY <1>4 DEF DatabaseConnects, Calls, Connected, After
<1>5. CASE RabbitConnects
  BY <1>5 DEF RabbitConnects, Calls, Connected, After, OpenRabbit
<1>6. CASE RabbitHalfway
  <2>1. OpenRabbit
    BY <1>6 DEF RabbitHalfway
  <2> QED
    BY <2>1, OpenTyped
<1>7. ASSUME NEW s \in Services, ServiceRefuses(s) PROVE ConnectionsNamed'
  BY <1>7 DEF ServiceRefuses, Calls, AttemptRejected
<1>8. CASE LoseRabbit
  BY <1>8 DEF LoseRabbit, ScheduleReconnect
<1>9. CASE ReconnectOpens
  BY <1>9 DEF ReconnectOpens, OpenRabbit, ReconnectEnds
<1>10. CASE ReconnectGivesUp
  BY <1>10 DEF ReconnectGivesUp, ReconnectEnds
<1>11. CASE RedisAccepts
  BY <1>11 DEF RedisAccepts
<1>12. CASE RedisReady
  BY <1>12 DEF RedisReady, Listen
<1>13. CASE RedisBreaks
  BY <1>13 DEF RedisBreaks, AttemptRejected
<1>14. CASE RedisReconnects
  BY <1>14 DEF RedisReconnects
<1>15. CASE Arrive
  BY <1>15 DEF Arrive
<1>16. CASE Finish
  BY <1>16 DEF Finish
<1>17. CASE Drained
  BY <1>17 DEF Drained
<1>18. CASE Fatal
  BY <1>18 DEF Fatal, Exit
<1>19. ASSUME NEW g \in Signals, Signal(g) PROVE ConnectionsNamed'
  BY <1>19 DEF Signal
<1>20. ASSUME NEW g \in Signals, CloseRabbit(g) PROVE ConnectionsNamed'
  BY <1>20 DEF CloseRabbit, LeftOpen
<1>21. ASSUME NEW g \in Signals, QuitRedis(g) PROVE ConnectionsNamed'
  BY <1>21 DEF QuitRedis, AttemptRejected
<1>22. ASSUME NEW g \in Signals, CloseDatabase(g) PROVE ConnectionsNamed'
  BY <1>22 DEF CloseDatabase, Exit
<1>23. ASSUME NEW g \in Signals, CloseFails(g) PROVE ConnectionsNamed'
  BY <1>23 DEF CloseFails, Exit
<1>24. ASSUME NEW g \in Signals, ForceExit(g) PROVE ConnectionsNamed'
  BY <1>24 DEF ForceExit, Exit
<1>25. CASE Restart
  BY <1>25 DEF Restart
<1>26. CASE UNCHANGED vars
  BY <1>26 DEF vars
<1> QED
  BY <1>1, <1>2, <1>3, <1>4, <1>5, <1>6, <1>7, <1>8, <1>9, <1>10, <1>11,
     <1>12, <1>13, <1>14, <1>15, <1>16, <1>17, <1>18, <1>19, <1>20, <1>21,
     <1>22, <1>23, <1>24, <1>25, <1>26
     DEF Next, StartStep, RabbitStep, RedisStep, ShutdownStep

LEMMA StepServices == Inv /\ [Next]_vars => (ConnectedInOrder /\ ClosedInOrder)'
<1> SUFFICES ASSUME Inv, [Next]_vars PROVE (ConnectedInOrder /\ ClosedInOrder)'
  OBVIOUS
<1> USE DEF Inv, TypeInv, TypeOK, ServerIsLast, ConnectedInOrder, ClosedInOrder,
            ConnectionsNamed, NothingLeft, Services, Running, startVars, rabbitVars, serviceVars,
            httpVars, shutdownVars
<1>1. CASE DelayEnds
  BY <1>1 DEF DelayEnds
<1>2. CASE CheckRedis
  BY <1>2 DEF CheckRedis, Listen
<1>3. CASE TryRedis
  BY <1>3 DEF TryRedis, AttemptRejected
<1>4. CASE DatabaseConnects
  BY <1>4 DEF DatabaseConnects, Calls, Connected, After
<1>5. CASE RabbitConnects
  BY <1>5 DEF RabbitConnects, Calls, Connected, After, OpenRabbit
<1>6. CASE RabbitHalfway
  BY <1>6 DEF RabbitHalfway, Calls, OpenRabbit, AttemptRejected
<1>7. ASSUME NEW s \in Services, ServiceRefuses(s) PROVE (ConnectedInOrder /\ ClosedInOrder)'
  BY <1>7 DEF ServiceRefuses, Calls, AttemptRejected
<1>8. CASE LoseRabbit
  BY <1>8 DEF LoseRabbit, ScheduleReconnect
<1>9. CASE ReconnectOpens
  BY <1>9 DEF ReconnectOpens, OpenRabbit, ReconnectEnds
<1>10. CASE ReconnectGivesUp
  BY <1>10 DEF ReconnectGivesUp, ReconnectEnds
<1>11. CASE RedisAccepts
  BY <1>11 DEF RedisAccepts
<1>12. CASE RedisReady
  <2>1. CASE step = "await"
    BY <1>12, <2>1 DEF RedisReady, Listen
  <2>2. CASE step # "await"
    BY <1>12, <2>2 DEF RedisReady
  <2> QED
    BY <2>1, <2>2
<1>13. CASE RedisBreaks
  BY <1>13 DEF RedisBreaks, AttemptRejected
<1>14. CASE RedisReconnects
  BY <1>14 DEF RedisReconnects
<1>15. CASE Arrive
  BY <1>15 DEF Arrive
<1>16. CASE Finish
  BY <1>16 DEF Finish
<1>17. CASE Drained
  BY <1>17 DEF Drained
<1>18. CASE Fatal
  BY <1>18 DEF Fatal, Exit
<1>19. ASSUME NEW g \in Signals, Signal(g) PROVE (ConnectedInOrder /\ ClosedInOrder)'
  BY <1>19 DEF Signal
<1>20. ASSUME NEW g \in Signals, CloseRabbit(g) PROVE (ConnectedInOrder /\ ClosedInOrder)'
  BY <1>20 DEF CloseRabbit, LeftOpen
<1>21. ASSUME NEW g \in Signals, QuitRedis(g) PROVE (ConnectedInOrder /\ ClosedInOrder)'
  BY <1>21 DEF QuitRedis, AttemptRejected
<1>22. ASSUME NEW g \in Signals, CloseDatabase(g) PROVE (ConnectedInOrder /\ ClosedInOrder)'
  BY <1>22 DEF CloseDatabase, Exit
<1>23. ASSUME NEW g \in Signals, CloseFails(g) PROVE (ConnectedInOrder /\ ClosedInOrder)'
  BY <1>23 DEF CloseFails, Exit
<1>24. ASSUME NEW g \in Signals, ForceExit(g) PROVE (ConnectedInOrder /\ ClosedInOrder)'
  BY <1>24 DEF ForceExit, Exit
<1>25. CASE Restart
  BY <1>25 DEF Restart
<1>26. CASE UNCHANGED vars
  BY <1>26 DEF vars
<1> QED
  BY <1>1, <1>2, <1>3, <1>4, <1>5, <1>6, <1>7, <1>8, <1>9, <1>10, <1>11,
     <1>12, <1>13, <1>14, <1>15, <1>16, <1>17, <1>18, <1>19, <1>20, <1>21,
     <1>22, <1>23, <1>24, <1>25, <1>26
     DEF Next, StartStep, RabbitStep, RedisStep, ShutdownStep

LEMMA StepExit == Inv /\ [Next]_vars => CleanExit'
<1> SUFFICES ASSUME Inv, [Next]_vars PROVE CleanExit'
  OBVIOUS
<1> USE DEF Inv, TypeInv, TypeOK, NoIdleRequests, ClosedInOrder, NothingLeft,
            CleanExit, Services, Running, startVars, rabbitVars, serviceVars,
            httpVars, shutdownVars
<1>1. CASE DelayEnds
  BY <1>1 DEF DelayEnds
<1>2. CASE CheckRedis
  BY <1>2 DEF CheckRedis, Listen
<1>3. CASE TryRedis
  BY <1>3 DEF TryRedis, AttemptRejected
<1>4. CASE DatabaseConnects
  BY <1>4 DEF DatabaseConnects, Calls, Connected, After
<1>5. CASE RabbitConnects
  BY <1>5 DEF RabbitConnects, Calls, Connected, After, OpenRabbit
<1>6. CASE RabbitHalfway
  BY <1>6 DEF RabbitHalfway, Calls, OpenRabbit, AttemptRejected
<1>7. ASSUME NEW s \in Services, ServiceRefuses(s) PROVE CleanExit'
  BY <1>7 DEF ServiceRefuses, Calls, AttemptRejected
<1>8. CASE LoseRabbit
  BY <1>8 DEF LoseRabbit, ScheduleReconnect
<1>9. CASE ReconnectOpens
  BY <1>9 DEF ReconnectOpens, OpenRabbit, ReconnectEnds
<1>10. CASE ReconnectGivesUp
  BY <1>10 DEF ReconnectGivesUp, ReconnectEnds
<1>11. CASE RedisAccepts
  BY <1>11 DEF RedisAccepts
<1>12. CASE RedisReady
  BY <1>12 DEF RedisReady, Listen
<1>13. CASE RedisBreaks
  BY <1>13 DEF RedisBreaks, AttemptRejected
<1>14. CASE RedisReconnects
  BY <1>14 DEF RedisReconnects
<1>15. CASE Arrive
  BY <1>15 DEF Arrive
<1>16. CASE Finish
  BY <1>16 DEF Finish
<1>17. CASE Drained
  BY <1>17 DEF Drained
<1>18. CASE Fatal
  BY <1>18 DEF Fatal, Exit
<1>19. ASSUME NEW g \in Signals, Signal(g) PROVE CleanExit'
  BY <1>19 DEF Signal
<1>20. ASSUME NEW g \in Signals, CloseRabbit(g) PROVE CleanExit'
  BY <1>20 DEF CloseRabbit, LeftOpen
<1>21. ASSUME NEW g \in Signals, QuitRedis(g) PROVE CleanExit'
  BY <1>21 DEF QuitRedis, AttemptRejected
<1>22. ASSUME NEW g \in Signals, CloseDatabase(g) PROVE CleanExit'
  BY <1>22 DEF CloseDatabase, Exit
<1>23. ASSUME NEW g \in Signals, CloseFails(g) PROVE CleanExit'
  BY <1>23 DEF CloseFails, Exit
<1>24. ASSUME NEW g \in Signals, ForceExit(g) PROVE CleanExit'
  BY <1>24 DEF ForceExit, Exit
<1>25. CASE Restart
  BY <1>25 DEF Restart
<1>26. CASE UNCHANGED vars
  BY <1>26 DEF vars
<1> QED
  BY <1>1, <1>2, <1>3, <1>4, <1>5, <1>6, <1>7, <1>8, <1>9, <1>10, <1>11,
     <1>12, <1>13, <1>14, <1>15, <1>16, <1>17, <1>18, <1>19, <1>20, <1>21,
     <1>22, <1>23, <1>24, <1>25, <1>26
     DEF Next, StartStep, RabbitStep, RedisStep, ShutdownStep

LEMMA InvHolds == Safe => []Inv
<1>1. Init => Inv
  BY InitInv
<1>2. Inv /\ [Next]_vars => Inv'
  BY StepTypes, StepOrder, StepNamed, StepServices, StepExit DEF Inv
<1> QED
  BY <1>1, <1>2, PTL DEF Safe

-----------------------------------------------------------------------------
(* The theorems. *)

\* Every reachable state is well typed; no connect loop makes more than
\* MaxRetries attempts.
THEOREM LifecycleTyped == Safe => []TypeOK
<1>1. Inv => TypeOK
  BY DEF Inv, TypeInv
<1> QED
  BY <1>1, InvHolds, PTL

\* However many signals come, and however often RabbitMQ breaks its connection,
\* exit code 0 means that every request was answered and Redis and MongoDB were
\* closed, unless a signal came before the server listened.  No connection to
\* RabbitMQ was left either, unless connect had lost track of one or was on its
\* way when close ran.
THEOREM ExitIsClean == Safe => []CleanExit
<1>1. Inv => CleanExit
  BY DEF Inv
<1> QED
  BY <1>1, InvHolds, PTL

\* A request is handled only while MongoDB and Redis are there and no shutdown
\* has begun to close anything, under the same exception for early signals;
\* RabbitMQ is there unless it broke a connection.
THEOREM RequestsAreServed == Safe => []RequestsHaveServices
<1>1. Inv => RequestsHaveServices
  <2> SUFFICES ASSUME Inv, Running, requests > 0, "early" \notin mishaps
               PROVE  /\ redis # "end"
                      /\ service["database"] = "open"
                      /\ service["rabbit"] = "open" \/ "lost" \in mishaps
                      /\ ~ShuttingDown
    BY DEF RequestsHaveServices
  <2>1. http \notin {"none", "closed"}
    BY DEF Inv, NoIdleRequests
  <2>2. stage = "listening"
    BY <2>1 DEF Inv, ServerIsLast
  <2>3. ~ShuttingDown
    BY <2>1 DEF Inv, ClosedInOrder, ShuttingDown
  <2> QED
    BY <2>1, <2>2, <2>3 DEF Inv, ConnectedInOrder
<1> QED
  BY <1>1, InvHolds, PTL
=============================================================================
