------------------------------ MODULE Lifecycle ------------------------------
(***************************************************************************)
(* One API process from start to exit: startServer connects MongoDB,       *)
(* RabbitMQ and Redis one after the other and listens; every signal starts *)
(* a gracefulShutdown of its own, with a timer that forces the exit;       *)
(* docker starts the process again.                                        *)
(*                                                                         *)
(* connect and close of RabbitMQ are seen from outside: RabbitConnection   *)
(* has their awaits.  Its connections may break at any time, and calls of  *)
(* connect on their way open new ones, also while a shutdown is closing.   *)
(* The client of Redis is ioredis, which connects again by itself: its     *)
(* status is an external state machine.                                    *)
(***************************************************************************)
EXTENDS Integers

CONSTANTS Signals,      \* signals the process may receive, in any order
          MaxRetries,   \* attempts per service at start-up
          MaxRequests,  \* requests open at a time
          Budget        \* how often each failure may happen

Failures == {"connect",  \* an attempt to reach MongoDB or RabbitMQ fails
             "drop",     \* a connection to RabbitMQ breaks
             "redis",    \* Redis refuses, or breaks the connection
             "close",    \* closing a service fails
             "fatal"}    \* an exception or a rejection nobody handles

Services == {"database", "rabbit"}

\* What may happen to a process that its exit code does not tell.
Mishaps == {"early",   \* a signal came before the server listened
            "lost",    \* a connection to RabbitMQ broke
            "leaked",  \* connect opened one in place of another, open one
            "racing"}  \* close ran while a reconnect was on its way

ASSUME ParametersAssumption == /\ MaxRetries \in Nat \ {0}
                               /\ MaxRequests \in Nat
                               /\ Budget \in [Failures -> Nat]

VARIABLES process,   \* "running", or how it exited
          stage,     \* what startServer has come to
          step,      \* and what it does there
          attempt,   \* the attempt of the connect loop it is in
          service,   \* service[s]: "closed", or "open"; for RabbitMQ, whether
                     \*   the field connection names an open one
          connections,    \* connections to RabbitMQ that are open
          reconnects,     \* calls of connect by scheduleReconnect on their way
          isReconnecting, \* the field of that name
          redis,     \* status of the ioredis client
          http,      \* the HTTP server: "none", "open", "closing", "closed"
          requests,  \* requests being handled
          shutdown,  \* shutdown[g]: what gracefulShutdown of signal g does
          mishaps,   \* history: the mishaps of this process so far
          spent      \* spent[e]: how often failure e happened

startVars    == <<stage, step, attempt>>
rabbitVars   == <<connections, reconnects, isReconnecting>>
serviceVars  == <<service, rabbitVars>>
httpVars     == <<http, requests>>
shutdownVars == <<shutdown, mishaps>>
vars == <<process, startVars, serviceVars, redis, httpVars, shutdownVars,
          spent>>

Running == process = "running"

Spend(e) == /\ spent[e] < Budget[e]
            /\ spent' = [spent EXCEPT ![e] = @ + 1]

-----------------------------------------------------------------------------
(* startServer. *)

\* Faulty variant: a failed start-up is logged and the process stays.
AttemptRejectedStays ==
  /\ step' = IF attempt = MaxRetries THEN "gaveUp" ELSE "delay"
  /\ UNCHANGED <<process, stage, attempt>>

\* Faulty variant: one attempt too many.
AttemptRejectedLate ==
  /\ step' = IF attempt > MaxRetries THEN "gaveUp" ELSE "delay"
  /\ process' = IF attempt > MaxRetries THEN "exited 1" ELSE process
  /\ UNCHANGED <<stage, attempt>>

\* An attempt failed: another one after a delay, or startServer exits with 1.
AttemptRejected ==
  /\ step' = IF attempt = MaxRetries THEN "gaveUp" ELSE "delay"
  /\ process' = IF attempt = MaxRetries THEN "exited 1" ELSE process
  /\ UNCHANGED <<stage, attempt>>

DelayEnds == /\ Running /\ step = "delay"
             /\ step' = "call"
             /\ attempt' = attempt + 1
             /\ UNCHANGED <<process, stage, serviceVars, redis, httpVars,
                            shutdownVars, spent>>

\* Faulty variant: startServer does not wait for RabbitMQ.
AfterUnordered(s) == "redis"

After(s) == IF s = "database" THEN "rabbit" ELSE "redis"

Calls(s) == Running /\ stage = s /\ step = "call"

Connected(s) == /\ stage' = After(s)
                /\ step' = IF After(s) = "redis" THEN "check" ELSE "call"
                /\ attempt' = 1
                /\ UNCHANGED process

DatabaseConnects == /\ Calls("database")
                    /\ service' = [service EXCEPT !["database"] = "open"]
                    /\ Connected("database")
                    /\ UNCHANGED <<rabbitVars, redis, httpVars, shutdownVars,
                                   spent>>

\* A connection opens, and the field names it instead of what it named before.
OpenRabbit ==
  /\ service' = [service EXCEPT !["rabbit"] = "open"]
  /\ connections' = connections + 1
  /\ mishaps' = IF service["rabbit"] = "open" THEN mishaps \union {"leaked"}
                                              ELSE mishaps

RabbitConnects == /\ Calls("rabbit")
                  /\ OpenRabbit
                  /\ isReconnecting' = FALSE
                  /\ Connected("rabbit")
                  /\ UNCHANGED <<reconnects, redis, httpVars, shutdown, spent>>

\* The connection opens; the channel or a declaration fails.
RabbitHalfway == /\ Calls("rabbit")
                 /\ Spend("connect")
                 /\ OpenRabbit
                 /\ AttemptRejected
                 /\ UNCHANGED <<reconnects, isReconnecting, redis, httpVars,
                                shutdown>>

ServiceRefuses(s) == /\ Calls(s)
                     /\ Spend("connect")
                     /\ AttemptRejected
                     /\ UNCHANGED <<serviceVars, redis, httpVars, shutdownVars>>

Listen == /\ stage' = "listening"
          /\ step' = "done"
          /\ http' = "open"
          /\ UNCHANGED <<process, attempt, requests>>

\* connectRedis looks at the status once, before its first attempt.
CheckRedis == /\ Running /\ stage = "redis" /\ step = "check"
              /\ IF redis \in {"ready", "connecting"}
                 THEN Listen
                 ELSE /\ step' = "call"
                      /\ UNCHANGED <<process, stage, attempt, httpVars>>
              /\ UNCHANGED <<serviceVars, redis, shutdownVars, spent>>

\* An attempt: the client refuses while it is connecting or connected.
TryRedis ==
  /\ Running /\ stage = "redis" /\ step = "call"
  /\ IF redis \in {"connecting", "connect", "ready"}
     THEN AttemptRejected /\ UNCHANGED redis
     ELSE /\ redis' = "connecting"
          /\ step' = "await"
          /\ UNCHANGED <<process, stage, attempt>>
  /\ UNCHANGED <<serviceVars, httpVars, shutdownVars, spent>>

-----------------------------------------------------------------------------
(* The ioredis client. *)

RedisAccepts == /\ Running /\ redis = "connecting"
                /\ redis' = "connect"
                /\ UNCHANGED <<process, startVars, serviceVars, httpVars,
                               shutdownVars, spent>>

\* The connection is ready; an attempt that waits for it is over.
RedisReady == /\ Running /\ redis = "connect"
              /\ redis' = "ready"
              /\ IF step = "await"
                 THEN Listen
                 ELSE UNCHANGED <<process, startVars, httpVars>>
              /\ UNCHANGED <<serviceVars, shutdownVars, spent>>

\* The connection closes: the client will connect again, the attempt is over.
RedisBreaks == /\ Running /\ redis \in {"connecting", "connect", "ready"}
               /\ Spend("redis")
               /\ redis' = "reconnecting"
               /\ IF step = "await" THEN AttemptRejected
                                    ELSE UNCHANGED <<process, startVars>>
               /\ UNCHANGED <<serviceVars, httpVars, shutdownVars>>

RedisReconnects == /\ Running /\ redis = "reconnecting"
                   /\ redis' = "connecting"
                   /\ UNCHANGED <<process, startVars, serviceVars, httpVars,
                                  shutdownVars, spent>>

-----------------------------------------------------------------------------
(* RabbitMQ, once connected. *)

\* The first close of RabbitMQ has raised isShuttingDown.
ShuttingDown ==
  \E g \in Signals : shutdown[g] \in {"redis", "database", "done"}

ScheduleReconnect == IF isReconnecting
                     THEN UNCHANGED <<reconnects, isReconnecting>>
                     ELSE /\ reconnects' = reconnects + 1
                          /\ isReconnecting' = TRUE

\* The close handler clears the fields, whichever connection broke.
LoseRabbit == /\ Running /\ connections > 0
              /\ Spend("drop")
              /\ connections' = connections - 1
              /\ service' = [service EXCEPT !["rabbit"] = "closed"]
              /\ mishaps' = mishaps \union {"lost"}
              /\ IF ShuttingDown THEN UNCHANGED <<reconnects, isReconnecting>>
                                 ELSE ScheduleReconnect
              /\ UNCHANGED <<process, startVars, redis, httpVars, shutdown>>

ReconnectEnds == /\ reconnects' = reconnects - 1
                 /\ isReconnecting' = FALSE

\* An attempt of a reconnect opens a connection, even during a shutdown; it
\* ends the call unless the channel or a declaration fails.
ReconnectOpens ==
  /\ Running /\ reconnects > 0
  /\ OpenRabbit
  /\ \/ ReconnectEnds /\ UNCHANGED spent
     \/ Spend("connect") /\ UNCHANGED <<reconnects, isReconnecting>>
  /\ UNCHANGED <<process, startVars, redis, httpVars, shutdown>>

\* All attempts of a reconnect have failed.
ReconnectGivesUp == /\ Running /\ reconnects > 0
                    /\ Spend("connect")
                    /\ ReconnectEnds
                    /\ UNCHANGED <<process, startVars, service, connections,
                                   redis, httpVars, shutdownVars>>

-----------------------------------------------------------------------------
(* Requests. *)

Arrive == /\ Running /\ http = "open" /\ requests < MaxRequests
          /\ requests' = requests + 1
          /\ UNCHANGED <<process, startVars, serviceVars, redis, http,
                         shutdownVars, spent>>

Finish == /\ Running /\ requests > 0
          /\ requests' = requests - 1
          /\ UNCHANGED <<process, startVars, serviceVars, redis, http,
                         shutdownVars, spent>>

-----------------------------------------------------------------------------
(* gracefulShutdown. *)

Exit(code) == process' = code /\ UNCHANGED <<startVars, httpVars, mishaps>>

\* server.close of a closed server reports an error at once; of a closing
\* one when it is drained.  Without a server there is nothing to wait for.
Signal(g) ==
  /\ Running /\ shutdown[g] = "none"
  /\ shutdown' = [shutdown EXCEPT ![g] = CASE http = "none"    -> "rabbit"
                                           [] http = "open"    -> "draining"
                                           [] http = "closing" -> "refused"
                                           [] http = "closed"  -> "refused"]
  /\ http' = IF http = "open" THEN "closing" ELSE http
  /\ process' = IF http = "closed" THEN "exited 1" ELSE process
  /\ mishaps' = IF http = "none" THEN mishaps \union {"early"} ELSE mishaps
  /\ UNCHANGED <<startVars, serviceVars, redis, requests, spent>>

\* The last request has ended: the callbacks of server.close run, and the
\* process exits with 1 if one of them gets the error.
Drained == /\ Running /\ http = "closing" /\ requests = 0
           /\ http' = "closed"
           /\ shutdown' = [g \in Signals |-> IF shutdown[g] = "draining"
                                             THEN "rabbit" ELSE shutdown[g]]
           /\ process' = IF \E g \in Signals : shutdown[g] = "refused"
                         THEN "exited 1" ELSE process
           /\ UNCHANGED <<startVars, serviceVars, redis, requests, mishaps,
                          spent>>

\* What close leaves open: it sees the connection the field names, no other.
LeftOpen == IF service["rabbit"] = "open" THEN connections - 1 ELSE connections

\* Faulty variant: the flag is raised when everything is closed.
CloseRabbitUnflagged(g) ==
  /\ Running /\ shutdown[g] = "rabbit"
  /\ service' = [service EXCEPT !["rabbit"] = "closed"]
  /\ connections' = LeftOpen
  /\ IF service["rabbit"] = "open" THEN ScheduleReconnect
                                   ELSE UNCHANGED <<reconnects, isReconnecting>>
  /\ mishaps' = IF reconnects > 0 THEN mishaps \union {"racing"} ELSE mishaps
  /\ shutdown' = [shutdown EXCEPT ![g] = "redis"]
  /\ UNCHANGED <<process, startVars, redis, httpVars, spent>>

\* close of rabbitmqConnection; calls of connect on their way go on.
CloseRabbit(g) ==
  /\ Running /\ shutdown[g] = "rabbit"
  /\ service' = [service EXCEPT !["rabbit"] = "closed"]
  /\ connections' = LeftOpen
  /\ mishaps' = IF reconnects > 0 THEN mishaps \union {"racing"} ELSE mishaps
  /\ shutdown' = [shutdown EXCEPT ![g] = "redis"]
  /\ UNCHANGED <<process, startVars, reconnects, isReconnecting, redis,
                 httpVars, spent>>

\* quit ends the client, and an attempt of start-up that waits for it.
QuitRedis(g) == /\ Running /\ shutdown[g] = "redis"
                /\ redis' = "end"
                /\ shutdown' = [shutdown EXCEPT ![g] = "database"]
                /\ IF step = "await" THEN AttemptRejected
                                     ELSE UNCHANGED <<process, startVars>>
                /\ UNCHANGED <<serviceVars, httpVars, mishaps, spent>>

CloseDatabase(g) == /\ Running /\ shutdown[g] = "database"
                    /\ service' = [service EXCEPT !["database"] = "closed"]
                    /\ shutdown' = [shutdown EXCEPT ![g] = "done"]
                    /\ Exit("exited 0")
                    /\ UNCHANGED <<rabbitVars, redis, spent>>

CloseFails(g) == /\ Running /\ shutdown[g] \in {"rabbit", "redis", "database"}
                 /\ Spend("close")
                 /\ Exit("exited 1")
                 /\ UNCHANGED <<serviceVars, redis, shutdown>>

\* Faulty variant: the timer is cleared once the server is closed.
ForceExitDrainOnly(g) == /\ Running /\ shutdown[g] \in {"draining", "refused"}
                         /\ Exit("exited 1")
                         /\ UNCHANGED <<serviceVars, redis, shutdown, spent>>

\* The timer of a shutdown runs out.
ForceExit(g) == /\ Running /\ shutdown[g] # "none"
                /\ Exit("exited 1")
                /\ UNCHANGED <<serviceVars, redis, shutdown, spent>>

Fatal == /\ Running
         /\ Spend("fatal")
         /\ Exit("exited 1")
         /\ UNCHANGED <<serviceVars, redis, shutdown>>

-----------------------------------------------------------------------------
(* The system. *)

\* Importing app.ts may make the client of Redis connect.
Init == /\ process = "running"
        /\ stage = "database"
        /\ step = "call"
        /\ attempt = 1
        /\ service = [s \in Services |-> "closed"]
        /\ connections = 0
        /\ reconnects = 0
        /\ isReconnecting = FALSE
        /\ redis \in {"wait", "connecting"}
        /\ http = "none"
        /\ requests = 0
        /\ shutdown = [g \in Signals |-> "none"]
        /\ mishaps = {}
        /\ spent = [e \in Failures |-> 0]

\* docker starts the process again.
Restart == /\ ~Running
           /\ process' = "running"
           /\ stage' = "database"
           /\ step' = "call"
           /\ attempt' = 1
           /\ service' = [s \in Services |-> "closed"]
           /\ connections' = 0
           /\ reconnects' = 0
           /\ isReconnecting' = FALSE
           /\ redis' \in {"wait", "connecting"}
           /\ http' = "none"
           /\ requests' = 0
           /\ shutdown' = [g \in Signals |-> "none"]
           /\ mishaps' = {}
           /\ UNCHANGED spent

StartStep == \/ DelayEnds \/ CheckRedis \/ TryRedis
             \/ DatabaseConnects \/ RabbitConnects \/ RabbitHalfway
             \/ \E s \in Services : ServiceRefuses(s)

RabbitStep == LoseRabbit \/ ReconnectOpens \/ ReconnectGivesUp

RedisStep == RedisAccepts \/ RedisReady \/ RedisBreaks \/ RedisReconnects

ShutdownStep(g) == \/ CloseRabbit(g) \/ QuitRedis(g) \/ CloseDatabase(g)
                   \/ CloseFails(g)

Next == \/ StartStep \/ RabbitStep \/ RedisStep \/ Arrive \/ Finish \/ Drained
        \/ Fatal
        \/ \E g \in Signals : Signal(g) \/ ShutdownStep(g) \/ ForceExit(g)
        \/ Restart

Safe == Init /\ [][Next]_vars

\* Calls of start-up end, the client of Redis goes on, timers run out and
\* docker restarts.  Requests, reconnects and closing services may hang.
Fairness == /\ WF_vars(StartStep) /\ WF_vars(RedisStep) /\ WF_vars(Restart)
            /\ \A g \in Signals : WF_vars(ForceExit(g))

Spec == Safe /\ Fairness

-----------------------------------------------------------------------------
(* Properties. *)

\* Every variable has its type: no connect loop makes more than MaxRetries
\* attempts (connectDatabase, connect, connectRedis).
TypeOK == /\ process \in {"running", "exited 0", "exited 1"}
          /\ stage \in Services \union {"redis", "listening"}
          /\ step \in {"call", "check", "await", "delay", "gaveUp", "done"}
          /\ attempt \in 1..MaxRetries
          /\ service \in [Services -> {"closed", "open"}]
          /\ connections \in Nat /\ reconnects \in Nat
          /\ isReconnecting \in BOOLEAN
          /\ redis \in {"wait", "connecting", "connect", "ready",
                        "reconnecting", "end"}
          /\ http \in {"none", "open", "closing", "closed"}
          /\ requests \in 0..MaxRequests
          /\ shutdown \in [Signals -> {"none", "draining", "refused", "rabbit",
                                       "redis", "database", "done"}]
          /\ mishaps \subseteq Mishaps
          /\ spent \in [Failures -> Nat]

\* Exit code 0 promises that every request was answered and that Redis and
\* MongoDB were closed, however many signals came, unless one came before the
\* server listened (gracefulShutdown).  RabbitMQ was closed as well, unless an
\* attempt of connect had failed with its connection open, or a reconnect was
\* on its way when close ran: close sees neither (connect, close).
CleanExit == process = "exited 0" /\ "early" \notin mishaps =>
               /\ requests = 0
               /\ redis = "end"
               /\ service["database"] = "closed"
               /\ "leaked" \in mishaps \/ "racing" \in mishaps \/ connections = 0

\* A request never meets a service that start-up has not connected yet or a
\* shutdown has closed already, under the same exception; only a RabbitMQ that
\* broke its connection may be missing (startServer, gracefulShutdown).
RequestsHaveServices ==
  Running /\ requests > 0 /\ "early" \notin mishaps =>
    /\ redis # "end"
    /\ service["database"] = "open"
    /\ service["rabbit"] = "open" \/ "lost" \in mishaps
    /\ ~ShuttingDown

\* A signal ends the process, although requests and closing calls may hang
\* and a second signal makes the callback of server.close fail (forceExitTimer).
ShutdownEnds == \A g \in Signals : shutdown[g] # "none" ~> ~Running

\* connectRedis may run out of attempts although the client is connected.
GaveUpConnected == /\ stage = "redis" /\ step = "gaveUp"
                   /\ redis \in {"connect", "ready"}

\* Without signals the API listens in the end: who gives up exits, and is
\* started again (startServer, docker-compose.yml).
EventuallyServes ==
  TRUE ~> \/ http = "open"
          \/ GaveUpConnected
          \/ \E g \in Signals : shutdown[g] # "none"
=============================================================================
