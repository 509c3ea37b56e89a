-------------------------- MODULE RabbitConnection --------------------------
(***************************************************************************)
(* The RabbitMQ connection of one process: connect and its attempts, the   *)
(* close handler that schedules a reconnect, and close on shutdown.        *)
(*                                                                         *)
(* Every call of connect runs from one await to the next and writes the    *)
(* fields all calls share.  Connections are numbered as they are opened;   *)
(* each has at most one channel, named by its connection's number.         *)
(***************************************************************************)
EXTENDS Integers, FiniteSets

CONSTANTS Reconnects,     \* slots for calls of connect by scheduleReconnect
          MaxRetries,     \* attempts of one call (MAX_RETRIES)
          MaxConnections, \* bound on the connections ever opened
          None,           \* null
          Budget          \* how often each event may happen

Events == {"refused",   \* a connection attempt is refused
           "channel",   \* the broker closes or refuses a channel
           "drop"}      \* an open connection breaks

ASSUME ConnectionAssumption == /\ MaxRetries \in Nat \ {0}
                               /\ MaxConnections \in Nat \ {0}
                               /\ "start" \notin Reconnects
                               /\ None \notin 1..MaxConnections
                               /\ Budget \in [Events -> Nat]

\* The call of connect at start-up, and those of scheduleReconnect.
Calls       == {"start"} \union Reconnects
Connections == 1..MaxConnections
Declares    == 4    \* the exchange, the two queues and the binding

VARIABLES connection, channel, isReconnecting, isShuttingDown,
          used,       \* connections opened so far
          open,       \* connections that are open
          usable,     \* channels that are open
          pc,         \* pc[c]: what call c of connect awaits, or "idle"
          attempt,    \* attempt[c]: its attempt
          on,         \* on[c]: the connection or channel it awaits an answer on
          declared,   \* declared[c]: answers to its declarations so far
          closing,    \* where close stands
          closingOn,  \* the connection or channel it closes
          gaveUp,     \* the call at start-up, or a reconnect, used all attempts
          spent       \* spent[e]: how often event e happened

fields   == <<connection, channel, isReconnecting>>
broker   == <<used, open, usable>>
calls    == <<pc, attempt, on, declared>>
shutdown == <<isShuttingDown, closing, closingOn>>
vars == <<fields, broker, calls, shutdown, gaveUp, spent>>

Spend(e) == /\ spent[e] < Budget[e]
            /\ spent' = [spent EXCEPT ![e] = @ + 1]

Running(c) == pc[c] # "idle"

\* When the call at start-up fails the process exits.
Exited == "start" \in gaveUp

\* Call c, in a process that runs, awaits what.
At(c, what) == ~Exited /\ pc[c] = what

-----------------------------------------------------------------------------
(* connect. *)

Await(c, what, where, done) == /\ pc' = [pc EXCEPT ![c] = what]
                               /\ on' = [on EXCEPT ![c] = where]
                               /\ declared' = [declared EXCEPT ![c] = done]

\* Faulty variant: one attempt too many.
AttemptFailsLate(c) ==
  IF attempt[c] <= MaxRetries
  THEN /\ Await(c, "delay", None, 0)
       /\ UNCHANGED <<isReconnecting, gaveUp>>
  ELSE /\ Await(c, "idle", None, 0)
       /\ gaveUp' = gaveUp \union {c}
       /\ isReconnecting' = IF c = "start" THEN isReconnecting ELSE FALSE

\* The catch: another attempt after a delay, or the end of the call; the catch
\* of scheduleReconnect lowers the flag.
AttemptFails(c) ==
  IF attempt[c] < MaxRetries
  THEN /\ Await(c, "delay", None, 0)
       /\ UNCHANGED <<isReconnecting, gaveUp>>
  ELSE /\ Await(c, "idle", None, 0)
       /\ gaveUp' = gaveUp \union {c}
       /\ isReconnecting' = IF c = "start" THEN isReconnecting ELSE FALSE

Connected(c) == /\ At(c, "connect")
                /\ used < MaxConnections
                /\ used' = used + 1
                /\ open' = open \union {used'}
                /\ connection' = used'
                /\ Await(c, "channel", used', 0)
                /\ UNCHANGED <<channel, isReconnecting, usable, attempt,
                               shutdown, gaveUp, spent>>

Refused(c) == /\ At(c, "connect")
              /\ Spend("refused")
              /\ AttemptFails(c)
              /\ UNCHANGED <<connection, channel, broker, attempt, shutdown>>

DelayEnds(c) == /\ At(c, "delay")
                /\ Await(c, "connect", None, 0)
                /\ attempt' = [attempt EXCEPT ![c] = @ + 1]
                /\ UNCHANGED <<fields, broker, shutdown, gaveUp, spent>>

ChannelOpened(c) == /\ At(c, "channel")
                    /\ on[c] \in open
                    /\ channel' = on[c]
                    /\ usable' = usable \union {on[c]}
                    /\ Await(c, "declare", on[c], 0)
                    /\ UNCHANGED <<connection, isReconnecting, used, open,
                                   attempt, shutdown, gaveUp, spent>>

\* The channel is refused, or its connection is gone.
ChannelRejected(c) == /\ At(c, "channel")
                      /\ \/ on[c] \in open /\ Spend("channel")
                         \/ on[c] \notin open /\ UNCHANGED spent
                      /\ AttemptFails(c)
                      /\ UNCHANGED <<connection, channel, broker, attempt,
                                     shutdown>>

\* Each declaration goes to whatever channel the field names by then, and
\* fails when it names none.
Declared(c) == /\ At(c, "declare")
               /\ on[c] \in usable
               /\ declared[c] + 1 < Declares
               /\ IF channel = None
                  THEN AttemptFails(c)
                  ELSE /\ Await(c, "declare", channel, declared[c] + 1)
                       /\ UNCHANGED <<isReconnecting, gaveUp>>
               /\ UNCHANGED <<connection, channel, broker, attempt, shutdown,
                              spent>>

DeclareRejected(c) == /\ At(c, "declare")
                      /\ on[c] \notin usable
                      /\ AttemptFails(c)
                      /\ UNCHANGED <<connection, channel, broker, attempt,
                                     shutdown, spent>>

\* Faulty variant: forgets to lower the flag.
ReadyStillFlagged(c) == /\ At(c, "declare")
                        /\ on[c] \in usable
                        /\ declared[c] + 1 = Declares
                        /\ Await(c, "idle", None, 0)
                        /\ UNCHANGED <<fields, broker, attempt, shutdown,
                                       gaveUp, spent>>

Ready(c) == /\ At(c, "declare")
            /\ on[c] \in usable
            /\ declared[c] + 1 = Declares
            /\ Await(c, "idle", None, 0)
            /\ isReconnecting' = FALSE
            /\ UNCHANGED <<connection, channel, broker, attempt, shutdown,
                           gaveUp, spent>>

-----------------------------------------------------------------------------
(* The close handler of a connection, and scheduleReconnect. *)

\* Faulty variant: the flag lets nobody through.
ScheduleReconnectNever == UNCHANGED <<isReconnecting, calls>>

ScheduleReconnect ==
  IF isReconnecting
  THEN UNCHANGED <<isReconnecting, calls>>
  ELSE /\ isReconnecting' = TRUE
       /\ \E c \in Reconnects : /\ ~Running(c)
                                /\ Await(c, "connect", None, 0)
                                /\ attempt' = [attempt EXCEPT ![c] = 1]

\* Faulty variant: leaves the channel of the closed connection behind.
CloseHandlerKeepsChannel(k) ==
  /\ open' = open \ {k}
  /\ usable' = usable \ {k}
  /\ connection' = None
  /\ IF isShuttingDown THEN UNCHANGED <<isReconnecting, calls>>
                       ELSE ScheduleReconnect
  /\ UNCHANGED <<channel, used>>

\* Whichever connection closed, the fields are cleared.
CloseHandler(k) ==
  /\ open' = open \ {k}
  /\ usable' = usable \ {k}
  /\ connection' = None
  /\ channel' = None
  /\ IF isShuttingDown THEN UNCHANGED <<isReconnecting, calls>>
                       ELSE ScheduleReconnect
  /\ UNCHANGED used

Drop(k) == /\ ~Exited
           /\ k \in open
           /\ Spend("drop")
           /\ CloseHandler(k)
           /\ UNCHANGED <<shutdown, gaveUp>>

\* A channel error: its handlers only log.
ChannelCloses(k) == /\ ~Exited
                    /\ k \in usable
                    /\ Spend("channel")
                    /\ usable' = usable \ {k}
                    /\ UNCHANGED <<fields, used, open, calls, shutdown, gaveUp>>

-----------------------------------------------------------------------------
(* close. *)

CloseAt(step, what) == closing' = step /\ closingOn' = what

\* The second half of close, with the field connection as it is by now.
CloseConnection == IF connection = None THEN CloseAt("closed", None)
                   ELSE CloseAt("connection", connection)

\* Faulty variant: raises the flag only when everything is closed.
CloseUnflagged ==
  /\ ~Exited /\ closing = "no"
  /\ \/ channel = None /\ CloseConnection
     \/ channel \in usable /\ CloseAt("channel", channel)
     \/ channel \notin usable \union {None} /\ CloseAt("failed", None)
  /\ UNCHANGED <<fields, broker, calls, isShuttingDown, gaveUp, spent>>

\* Closing a channel that is closed throws.
Close ==
  /\ ~Exited /\ closing = "no"
  /\ isShuttingDown' = TRUE
  /\ \/ channel = None /\ CloseConnection
     \/ channel \in usable /\ CloseAt("channel", channel)
     \/ channel \notin usable \union {None} /\ CloseAt("failed", None)
  /\ UNCHANGED <<fields, broker, calls, gaveUp, spent>>

ChannelClosed == /\ ~Exited /\ closing = "channel"
                 /\ closingOn \in usable
                 /\ usable' = usable \ {closingOn}
                 /\ channel' = None
                 /\ CloseConnection
                 /\ UNCHANGED <<connection, isReconnecting, used, open, calls,
                                isShuttingDown, gaveUp, spent>>

ConnectionClosed == /\ ~Exited /\ closing = "connection"
                    /\ closingOn \in open
                    /\ CloseHandler(closingOn)
                    /\ CloseAt("closed", None)
                    /\ UNCHANGED <<isShuttingDown, gaveUp, spent>>

\* What close waits for was closed by somebody else.
CloseThrows == /\ ~Exited
               /\ \/ closing = "channel" /\ closingOn \notin usable
                  \/ closing = "connection" /\ closingOn \notin open
               /\ CloseAt("failed", None)
               /\ UNCHANGED <<fields, broker, calls, isShuttingDown, gaveUp,
                              spent>>

-----------------------------------------------------------------------------
Init == /\ connection = None
        /\ channel = None
        /\ isReconnecting = FALSE
        /\ isShuttingDown = FALSE
        /\ used = 0
        /\ open = {}
        /\ usable = {}
        /\ pc = [c \in Calls |-> IF c = "start" THEN "connect" ELSE "idle"]
        /\ attempt = [c \in Calls |-> 1]
        /\ on = [c \in Calls |-> None]
        /\ declared = [c \in Calls |-> 0]
        /\ closing = "no"
        /\ closingOn = None
        /\ gaveUp = {}
        /\ spent = [e \in Events |-> 0]

ConnectStep(c) == \/ Connected(c) \/ Refused(c) \/ DelayEnds(c)
                  \/ ChannelOpened(c) \/ ChannelRejected(c)
                  \/ Declared(c) \/ DeclareRejected(c) \/ Ready(c)

CloseStep == ChannelClosed \/ ConnectionClosed \/ CloseThrows

Next == \/ \E c \in Calls : ConnectStep(c)
        \/ \E k \in Connections : Drop(k) \/ ChannelCloses(k)
        \/ Close \/ CloseStep

Safe == Init /\ [][Next]_vars

\* The broker answers, delays end: every call of connect goes on.
Spec == Safe /\ \A c \in Calls : WF_vars(ConnectStep(c))

-----------------------------------------------------------------------------
(* Properties. *)

\* Every variable has its type; what the fields and the calls name was opened,
\* and who waits for another attempt has one left.
TypeOK == /\ used \in 0..MaxConnections
          /\ connection \in 1..used \union {None}
          /\ channel \in 1..used \union {None}
          /\ isReconnecting \in BOOLEAN /\ isShuttingDown \in BOOLEAN
          /\ open \subseteq 1..used /\ usable \subseteq open
          /\ pc \in [Calls -> {"idle", "connect", "delay", "channel", "declare"}]
          /\ attempt \in [Calls -> 1..MaxRetries]
          /\ \A c \in Calls : pc[c] = "delay" => attempt[c] < MaxRetries
          /\ on \in [Calls -> 1..used \union {None}]
          /\ declared \in [Calls -> 0..(Declares - 1)]
          /\ closing \in {"no", "channel", "connection", "closed", "failed"}
          /\ closingOn \in 1..used \union {None}
          /\ gaveUp \subseteq Calls
          /\ spent \in [Events -> Nat]

\* getChannel never hands out a channel whose connection has closed, however
\* the calls of connect overlap (close handler of connect).
ChannelIsConnected == channel # None => channel \in open

\* While isReconnecting holds off other reconnects one of them is at work: the
\* flag never outlives the call that raised it (connect, scheduleReconnect).
FlagMeansAtWork == isReconnecting => \E c \in Reconnects : Running(c)

\* Once close was called no reconnect begins, whatever closes (isShuttingDown).
ShutdownStaysDown ==
  [][closing # "no" => \A c \in Reconnects : ~Running(c) => pc'[c] = "idle"]_vars

\* After losing its connection once, start-up and failing channels included, a
\* process gets a channel again, unless all attempts of a call failed or it is
\* shutting down (close handler, scheduleReconnect).
ChannelComesBack ==
  channel = None ~> \/ channel # None \/ gaveUp # {} \/ isShuttingDown
                    \/ spent["drop"] > 1
=============================================================================
