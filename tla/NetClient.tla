------------------------------- MODULE NetClient -------------------------------
(***************************************************************************)
(* The life of a client (src/src/net/NetClient.cpp) with its connections:  *)
(* asynchronous start, connect, reconnect timer, stop, and the pool of     *)
(* NetManager that stop works on.                                          *)
(*                                                                         *)
(* One thread runs the io_service, as the sample does                      *)
(* (src/src/sample/client_main.cpp:95), so handlers run one at a time in   *)
(* the order they were posted; the application calls start and stop  *)
(* from a thread of its own, between any two of them.  A session           *)
(* is reduced to its beginning and its end: NetConnectionSend has what     *)
(* happens in it.                                                          *)
(***************************************************************************)
EXTENDS Naturals, Sequences, FiniteSets

CONSTANTS
  MaxConns,     \* bound: connections the client creates
  MaxStarts,    \* bound: calls of start
  MaxStops,     \* bound: calls of stop
  MaxFaults     \* bound: failed connects and lost sessions

ASSUME ClientAssumption == {MaxConns, MaxStarts, MaxStops, MaxFaults} \subseteq Nat

Conns == 1..MaxConns
NoConn == 0

VARIABLES
  current,     \* m_connection
  pool,        \* NetManager::m_connectionPool
  armed,       \* a wait on m_reconnectTimer is pending
  made,        \* number of connections created
  socket,      \* state of each connection's socket
  sessions,    \* the connections with m_bConnected
  loops,       \* the connections whose two endpoints are the same
  ready,       \* the io_service's handlers that are ready to run, in order
  app,         \* where the application's thread is
  lastCall,    \* the last call of start or stop that has returned
  calls        \* how often each bounded thing has happened

clientVars == <<current, armed>>
connVars == <<made, socket, sessions, loops>>
appVars == <<app, lastCall>>
vars == <<clientVars, pool, connVars, ready, appVars, calls>>

Handlers == [what : {"start", "timer", "connError", "removeAll"}, conn : {NoConn}]
              \cup [what : {"connected", "refused", "error", "close"}, conn : Conns]
Handler(what, c) == [what |-> what, conn |-> c]
Bounds == [start : 0..MaxStarts, stop : 0..MaxStops, fault : 0..MaxFaults]

TypeOK ==
  /\ current \in Conns \cup {NoConn}
  /\ pool \subseteq Conns
  /\ armed \in BOOLEAN
  /\ made \in 0..MaxConns
  /\ socket \in [Conns -> {"none", "connecting", "open", "closed"}]
  /\ sessions \subseteq Conns
  /\ loops \subseteq Conns
  /\ ready \in Seq(Handlers)
  /\ app \in {"idle", "stopping"}
  /\ lastCall \in {"none", "start", "stop"}
  /\ calls \in Bounds

Init ==
  /\ current = NoConn
  /\ pool = {}
  /\ armed = FALSE
  /\ made = 0
  /\ socket = [c \in Conns |-> "none"]
  /\ sessions = {}
  /\ loops = {}
  /\ ready = << >>
  /\ app = "idle"
  /\ lastCall = "none"
  /\ calls = [start |-> 0, stop |-> 0, fault |-> 0]

Counted(what) == calls' = [calls EXCEPT ![what] = @ + 1]
Limit == [start |-> MaxStarts, stop |-> MaxStops, fault |-> MaxFaults]
MayStill(what) == calls[what] < Limit[what]

-----------------------------------------------------------------------------
(* The application. *)

Start ==
  /\ app = "idle"
  /\ MayStill("start") /\ Counted("start")
  /\ ready' = Append(ready, Handler("start", NoConn))
  /\ lastCall' = "start"
  /\ UNCHANGED <<clientVars, pool, connVars, app>>

(* stop cancels the timer and then posts removeAllConnections. *)
StopCancel ==
  /\ app = "idle"
  /\ MayStill("stop") /\ Counted("stop")
  /\ armed' = FALSE
  /\ app' = "stopping"
  /\ UNCHANGED <<current, pool, connVars, ready, lastCall>>

StopPost ==
  /\ app = "stopping"
  /\ ready' = Append(ready, Handler("removeAll", NoConn))
  /\ app' = "idle"
  /\ lastCall' = "stop"
  /\ UNCHANGED <<clientVars, pool, connVars, calls>>

-----------------------------------------------------------------------------
(* Timer and network. *)

TimerExpires ==
  /\ armed
  /\ armed' = FALSE
  /\ ready' = Append(ready, Handler("timer", NoConn))
  /\ UNCHANGED <<current, pool, connVars, appVars, calls>>

(* Resolving and connecting end: with a connection, with one of the client *)
(* to itself, or with an error.                                            *)
Connects(c) ==
  /\ socket[c] = "connecting"
  /\ socket' = [socket EXCEPT ![c] = "open"]
  /\ ready' = Append(ready, Handler("connected", c))
  /\ \/ UNCHANGED <<loops, calls>>
     \/ MayStill("fault") /\ Counted("fault") /\ loops' = loops \cup {c}
  /\ UNCHANGED <<clientVars, pool, made, sessions, appVars>>

IsRefused(c) ==
  /\ socket[c] = "connecting"
  /\ MayStill("fault") /\ Counted("fault")
  /\ socket' = [socket EXCEPT ![c] = "closed"]
  /\ ready' = Append(ready, Handler("refused", c))
  /\ UNCHANGED <<clientVars, pool, made, sessions, loops, appVars>>

ConnectEnds(c) == Connects(c) \/ IsRefused(c)

(* The read of a session fails. *)
SessionFails(c) ==
  /\ c \in sessions
  /\ MayStill("fault") /\ Counted("fault")
  /\ ready' = Append(ready, Handler("error", c))
  /\ UNCHANGED <<clientVars, pool, connVars, appVars>>

-----------------------------------------------------------------------------
(* The io thread runs the first ready handler. *)

Runs(what) == ready # << >> /\ Head(ready).what = what

(* startConnectAsync: nothing to do with a session, a new connection       *)
(* otherwise, also when another one is still connecting.                   *)
StartConnectAsync ==
  /\ Runs("start") \/ Runs("timer")
  /\ current \notin sessions
  /\ made < MaxConns
  /\ made' = made + 1
  /\ current' = made + 1
  /\ socket' = [socket EXCEPT ![made + 1] = "connecting"]
  /\ ready' = Tail(ready)
  /\ UNCHANGED <<pool, armed, sessions, loops, appVars, calls>>

AlreadyConnected ==
  /\ Runs("start") \/ Runs("timer")
  /\ current \in sessions
  /\ ready' = Tail(ready)
  /\ UNCHANGED <<clientVars, pool, connVars, appVars, calls>>

(* createConnection returns none, or throws: onConnectionError is posted. *)
CreateFails ==
  /\ Runs("start") \/ Runs("timer")
  /\ current \notin sessions
  /\ MayStill("fault") /\ Counted("fault")
  /\ current' \in {NoConn, current}
  /\ ready' = Append(Tail(ready), Handler("connError", NoConn))
  /\ UNCHANGED <<armed, pool, connVars, appVars>>

(* onConnectionError: reconnect replaces the timer's pending wait. *)
Reconnect == armed' = TRUE

HandleConnectedUnpooled ==    \* mutant: the connection is not added to the pool
  /\ Runs("connected")
  /\ LET c == Head(ready).conn
     IN  /\ sessions' = sessions \cup {c}
         /\ IF c \in loops
            THEN /\ ready' = Append(Tail(ready), Handler("close", c))
                 /\ Reconnect
            ELSE ready' = Tail(ready) /\ UNCHANGED armed
  /\ UNCHANGED <<current, pool, made, socket, loops, appVars, calls>>

HandleConnectedCurrent ==    \* mutant: m_connection is taken for the connection that is made
  /\ Runs("connected")
  /\ pool' = pool \cup {current}
  /\ sessions' = sessions \cup {current}
  /\ ready' = Tail(ready)
  /\ UNCHANGED <<clientVars, made, socket, loops, appVars, calls>>

HandleConnected ==
  /\ Runs("connected")
  /\ LET c == Head(ready).conn
     IN  /\ pool' = pool \cup {c}
         /\ sessions' = sessions \cup {c}
         /\ IF c \in loops
            THEN /\ ready' = Append(Tail(ready), Handler("close", c))
                 /\ Reconnect
            ELSE ready' = Tail(ready) /\ UNCHANGED armed
  /\ UNCHANGED <<current, made, socket, loops, appVars, calls>>

HandleRefusedForGood ==    \* mutant: a refused connect is not tried again
  /\ Runs("refused") \/ Runs("connError")
  /\ ready' = Tail(ready)
  /\ UNCHANGED <<clientVars, pool, connVars, appVars, calls>>

HandleRefused ==
  /\ Runs("refused") \/ Runs("connError")
  /\ Reconnect
  /\ ready' = Tail(ready)
  /\ UNCHANGED <<current, pool, connVars, appVars, calls>>

(* NetConnection::doClose *)
DoClose(c) == /\ sessions' = sessions \ {c}
              /\ socket' = [socket EXCEPT ![c] = "closed"]

HandleEveryError ==    \* mutant: m_bConnected is not tested
  /\ Runs("error")
  /\ LET c == Head(ready).conn
     IN  /\ DoClose(c)
         /\ Reconnect
         /\ pool' = pool \ {c}
         /\ ready' = Append(Tail(ready), Handler("close", c))
  /\ UNCHANGED <<current, made, loops, appVars, calls>>

HandleErrorKeepsPooled ==    \* mutant: the connection stays in the pool
  /\ Runs("error")
  /\ LET c == Head(ready).conn
     IN  IF c \in sessions
         THEN /\ DoClose(c)
              /\ Reconnect
              /\ ready' = Append(Tail(ready), Handler("close", c))
         ELSE ready' = Tail(ready) /\ UNCHANGED <<armed, socket, sessions>>
  /\ UNCHANGED <<current, pool, made, loops, appVars, calls>>

(* NetConnection::handleConnectionError: the first error of a session      *)
(* closes it, is reported and takes it from the pool, which posts a close. *)
HandleConnectionError ==
  /\ Runs("error")
  /\ LET c == Head(ready).conn
     IN  IF c \in sessions
         THEN /\ DoClose(c)
              /\ Reconnect
              /\ pool' = pool \ {c}
              /\ ready' = Append(Tail(ready), Handler("close", c))
         ELSE ready' = Tail(ready) /\ UNCHANGED <<armed, pool, socket, sessions>>
  /\ UNCHANGED <<current, made, loops, appVars, calls>>

HandleClose ==
  /\ Runs("close")
  /\ DoClose(Head(ready).conn)
  /\ ready' = Tail(ready)
  /\ UNCHANGED <<clientVars, pool, made, loops, appVars, calls>>

(* removeAllConnections posts a close for each connection of the pool, in  *)
(* the order of their addresses.                                           *)
Orders(S) == {s \in [1..Cardinality(S) -> S] : S = {s[i] : i \in DOMAIN s}}

RemoveAllForgets ==    \* mutant: the pool is cleared, its connections are not closed
  /\ Runs("removeAll")
  /\ ready' = Tail(ready)
  /\ pool' = {}
  /\ UNCHANGED <<clientVars, connVars, appVars, calls>>

RemoveAllConnections ==
  /\ Runs("removeAll")
  /\ \E order \in Orders(pool) :
       ready' = Tail(ready) \o [i \in DOMAIN order |-> Handler("close", order[i])]
  /\ pool' = {}
  /\ UNCHANGED <<clientVars, connVars, appVars, calls>>

IoThread == \/ StartConnectAsync \/ AlreadyConnected \/ CreateFails
            \/ HandleConnected \/ HandleRefused
            \/ HandleConnectionError \/ HandleClose \/ RemoveAllConnections

-----------------------------------------------------------------------------
(* Nothing is under way: only the application or a fault can go on.        *)
Quiet == /\ ready = << >> /\ ~armed /\ app = "idle"
         /\ \A c \in Conns : socket[c] # "connecting"

Rest == Quiet /\ UNCHANGED vars

Next == \/ Start \/ StopCancel \/ StopPost
        \/ TimerExpires
        \/ \E c \in Conns : ConnectEnds(c) \/ SessionFails(c)
        \/ IoThread
        \/ Rest

Spec == Init /\ [][Next]_vars

(* The io thread runs what is ready, a pending timer expires, a connect    *)
(* ends, and a call of stop returns.  Nothing makes the application call,  *)
(* or a fault happen.                                                      *)
FairSpec ==
  /\ Spec
  /\ WF_vars(IoThread) /\ WF_vars(TimerExpires) /\ WF_vars(StopPost)
  /\ \A c \in Conns : WF_vars(ConnectEnds(c))

-----------------------------------------------------------------------------
(* Properties. *)

Queued(what, c) == \E i \in DOMAIN ready : ready[i] = Handler(what, c)
Closing(c) == Queued("close", c)

(* Whatever the application calls, a session can be reached by stop or is  *)
(* about to be closed: none is forgotten by the pool.                      *)
SessionsPooled == \A c \in sessions : c \in pool \/ Closing(c)

(* The pool keeps no connection that is over, but those of the client to   *)
(* itself, which nothing removes: removeConnection is reached by the first *)
(* error of a session, and by no other way to end one.                     *)
OnlySessionsPooled == pool \subseteq sessions \cup loops

(* What holds the attempt to be connected: a queued start or failure, the  *)
(* timer, a connect, or a session that is not being closed.                *)
Attempts ==
  {<<"queued", i>> : i \in {j \in DOMAIN ready :
       ready[j].what \in {"start", "timer", "connError", "connected", "refused"}}}
  \cup {<<"timer", 0>> : t \in {u \in {0} : armed}}
  \cup {<<"connecting", c>> : c \in {d \in Conns : socket[d] = "connecting"}}
  \cup {<<"session", c>> : c \in {d \in sessions : ~Closing(d)}}

(* A client that was started once and not stopped always has exactly one   *)
(* attempt under way: no failure loses it, none doubles it.                *)
OneAttempt ==
  (calls.start = 1 /\ calls.stop = 0) => Cardinality(Attempts) = 1

(* Liveness: a started client that nobody stops is connected again after   *)
(* every failure.                                                          *)
Reconnects == calls.start > 0 ~> (current \in sessions \/ calls.stop > 0)

(* Liveness: removeAllConnections ends every session the pool has then.    *)
RemovedIsClosed ==
  \A c \in Conns : (Runs("removeAll") /\ c \in pool) ~> (c \notin sessions)

-----------------------------------------------------------------------------
(* What the documentation says and the code does not keep. *)

(* NetClient.h:60: start runs the client.  When all is done that was under *)
(* way, a started client should have its session.                          *)
StartRuns == (lastCall = "start" /\ Quiet) => current \in sessions
=============================================================================
