------------------------------- MODULE NetServer -------------------------------
(***************************************************************************)
(* The life of a server (src/src/net/NetServer.cpp) with its connections:  *)
(* listening, the accept loop with its two timers, stop, start again, the  *)
(* broadcast, and the pool of NetManager they all work on.                 *)
(*                                                                         *)
(* Several threads run the io_service (src/src/sample/main.cpp:26), so the *)
(* acceptor's strand and the strand of each connection run at the same     *)
(* time, each its own handlers in order; the application calls start,      *)
(* stop and sendDataToClients from a thread of its own.  A handler that    *)
(* uses what another thread may change meanwhile is more than one step.    *)
(* m_mutex of the manager is held over more than one step only by a        *)
(* broadcast with blocking sends: everybody else waits for it there.       *)
(***************************************************************************)
EXTENDS Naturals, Sequences, FiniteSets

CONSTANTS
  MaxConns,       \* bound: peers that connect
  MaxStarts,      \* bound: calls of start
  MaxStops,       \* bound: calls of stop
  MaxBindFaults,  \* bound: failed binds
  MaxAcceptFaults, \* bound: failed accepts
  MaxBroadcasts   \* bound: calls of sendDataToClients

ASSUME ServerAssumption ==
  {MaxConns, MaxStarts, MaxStops, MaxBindFaults, MaxAcceptFaults, MaxBroadcasts}
    \subseteq Nat

Conns == 1..MaxConns
NoConn == 0

VARIABLES
  autoBind,    \* m_bAutoBind
  open,        \* m_acceptor is open, bound and listening
  accepts,     \* number of accepts that are outstanding
  acceptTimer, \* a wait on m_acceptTimer is pending
  listenTimer, \* a wait on m_linstenTimer is pending
  stopped,     \* m_bStopped
  strand,      \* the handlers that wait for the acceptor's strand, in order
  doing,       \* what is left of the handler the acceptor's strand is in
  pool,        \* NetManager::m_connectionPool
  made,        \* number of connections accepted
  sessions,    \* the connections with m_bConnected
  closed,      \* the connections whose socket is closed
  posted,      \* the handlers that wait for each connection's strand, in order
  removing,    \* the connections whose strand is about to remove them
  app,         \* where the application's thread is in stop
  lastCall,    \* the last call of start or stop that has returned
  calls        \* how often each bounded thing has happened

acceptor == <<autoBind, open, accepts, acceptTimer, listenTimer, stopped>>
acceptorStrand == <<strand, doing>>
connVars == <<sessions, closed, posted, removing>>
appVars == <<app, lastCall>>
vars == <<acceptor, acceptorStrand, pool, made, connVars, appVars, calls>>

Handlers == [what : {"startAccept", "failed", "acceptTimer", "listen",
                     "broadcast", "broadcastSync"}, conn : {NoConn}]
              \cup [what : {"accepted"}, conn : Conns]
Handler(what, c) == [what |-> what, conn |-> c]

(* Between two handlers; in handleAccept, after addConnection; in          *)
(* onListenTimer, after its look at m_bStopped; in doSendDataToClients,    *)
(* with the connections still to be sent to.                               *)
Idle == [step |-> "idle", conn |-> NoConn, left |-> {}]
Doings == [step : {"idle", "start", "open", "walk", "write"},
           conn : Conns \cup {NoConn}, left : SUBSET Conns]

Limit == [start |-> MaxStarts, stop |-> MaxStops, bind |-> MaxBindFaults,
          accept |-> MaxAcceptFaults, broadcast |-> MaxBroadcasts]

TypeOK ==
  /\ autoBind \in BOOLEAN /\ open \in BOOLEAN
  /\ accepts \in Nat
  /\ acceptTimer \in BOOLEAN /\ listenTimer \in BOOLEAN
  /\ stopped \in BOOLEAN
  /\ strand \in Seq(Handlers)
  /\ doing \in Doings
  /\ pool \subseteq Conns
  /\ made \in 0..MaxConns
  /\ sessions \subseteq Conns
  /\ closed \subseteq Conns
  /\ posted \in [Conns -> Seq({"error", "close"})]
  /\ removing \subseteq Conns
  /\ app \in {"idle", "close", "cancelListen", "setStopped", "removeAll"}
  /\ lastCall \in {"none", "start", "stop"}
  /\ calls \in [DOMAIN Limit -> Nat]

(* A server that binds in its constructor tries port after port until one  *)
(* is free; the other kind is not open before start.  A constructor that   *)
(* caught an exception (no such address, a listen that fails) leaves a     *)
(* server that can never accept: there is none here.                       *)
Init ==
  /\ autoBind \in BOOLEAN
  /\ open = autoBind
  /\ accepts = 0
  /\ acceptTimer = FALSE /\ listenTimer = FALSE
  /\ stopped = FALSE
  /\ strand = << >>
  /\ doing = Idle
  /\ pool = {}
  /\ made = 0
  /\ sessions = {}
  /\ closed = {}
  /\ posted = [c \in Conns |-> << >>]
  /\ removing = {}
  /\ app = "idle"
  /\ lastCall = "none"
  /\ calls = [what \in DOMAIN Limit |-> 0]

MayStill(what) == calls[what] < Limit[what]
Counted(what) == calls' = [calls EXCEPT ![what] = @ + 1]
Post(c, what) == posted' = [posted EXCEPT ![c] = Append(@, what)]

(* The manager's mutex. *)
Locked == doing.step \in {"walk", "write"}

-----------------------------------------------------------------------------
(* The application: start. *)

(* The acceptor is bound now, or has been since the constructor. *)
StartListening ==
  /\ app = "idle"
  /\ MayStill("start") /\ Counted("start")
  /\ open <=> autoBind    \* open() throws on an acceptor that is open
  /\ open' = TRUE
  /\ strand' = Append(strand, Handler("startAccept", NoConn))
  /\ lastCall' = "start"
  /\ UNCHANGED <<autoBind, accepts, acceptTimer, listenTimer, stopped, doing,
                 pool, made, connVars, app>>

(* The port is in use, or start does not bind and the acceptor was closed  *)
(* by stop: an asynchronous start tries again later, a synchronous one     *)
(* throws.                                                                 *)
StartWithoutPort ==
  /\ app = "idle"
  /\ MayStill("start")
  /\ ~open
  /\ IF autoBind THEN Counted("start")
     ELSE /\ MayStill("bind")
          /\ calls' = [calls EXCEPT !.start = @ + 1, !.bind = @ + 1]
  /\ \/ listenTimer' = TRUE /\ lastCall' = "start"
     \/ UNCHANGED <<listenTimer, lastCall>>
  /\ UNCHANGED <<autoBind, open, accepts, acceptTimer, stopped, acceptorStrand,
                 pool, made, connVars, app>>

-----------------------------------------------------------------------------
(* The application: stop, step by step. *)

StopCancelsAccept ==
  /\ app = "idle"
  /\ MayStill("stop") /\ Counted("stop")
  /\ acceptTimer' = FALSE
  /\ app' = "close"
  /\ UNCHANGED <<autoBind, open, accepts, listenTimer, stopped, acceptorStrand,
                 pool, made, connVars, lastCall>>

Repeat(h, n) == [i \in 1..n |-> h]

StopCancelsOnly ==    \* mutant: the acceptor is not closed
  /\ app = "close"
  /\ accepts' = 0
  /\ strand' = strand \o Repeat(Handler("failed", NoConn), accepts)
  /\ app' = "cancelListen"
  /\ UNCHANGED <<autoBind, open, acceptTimer, listenTimer, stopped, doing, pool,
                 made, connVars, lastCall, calls>>

(* Outstanding accepts are aborted; those that have completed are not. *)
StopCloses ==
  /\ app = "close"
  /\ open' = FALSE
  /\ accepts' = 0
  /\ strand' = strand \o Repeat(Handler("failed", NoConn), accepts)
  /\ app' = "cancelListen"
  /\ UNCHANGED <<autoBind, acceptTimer, listenTimer, stopped, doing, pool, made,
                 connVars, lastCall, calls>>

StopCancelsListen ==
  /\ app = "cancelListen"
  /\ listenTimer' = FALSE
  /\ app' = "setStopped"
  /\ UNCHANGED <<autoBind, open, accepts, acceptTimer, stopped, acceptorStrand,
                 pool, made, connVars, lastCall, calls>>

StopSetsStopped ==
  /\ app = "setStopped"
  /\ stopped' = TRUE
  /\ app' = "removeAll"
  /\ UNCHANGED <<autoBind, open, accepts, acceptTimer, listenTimer,
                 acceptorStrand, pool, made, connVars, lastCall, calls>>

RemoveAllForgets ==    \* mutant: the pool is cleared, its connections are not closed
  /\ app = "removeAll"
  /\ ~Locked
  /\ pool' = {}
  /\ app' = "idle"
  /\ lastCall' = "stop"
  /\ UNCHANGED <<acceptor, acceptorStrand, made, connVars, calls>>

RemoveAllConnections ==
  /\ app = "removeAll"
  /\ ~Locked
  /\ posted' = [c \in Conns |-> IF c \in pool THEN Append(posted[c], "close")
                                ELSE posted[c]]
  /\ pool' = {}
  /\ app' = "idle"
  /\ lastCall' = "stop"
  /\ UNCHANGED <<acceptor, acceptorStrand, made, sessions, closed, removing, calls>>

StopGoesOn == \/ StopCloses \/ StopCancelsListen \/ StopSetsStopped
              \/ RemoveAllConnections

SendDataToClients ==
  /\ app = "idle"
  /\ MayStill("broadcast") /\ Counted("broadcast")
  /\ \E mode \in {"broadcast", "broadcastSync"} :
       strand' = Append(strand, Handler(mode, NoConn))
  /\ UNCHANGED <<acceptor, doing, pool, made, connVars, appVars>>

-----------------------------------------------------------------------------
(* Network and timers. *)

Accepted ==
  /\ accepts > 0 /\ made < MaxConns
  /\ accepts' = accepts - 1
  /\ made' = made + 1
  /\ strand' = Append(strand, Handler("accepted", made + 1))
  /\ UNCHANGED <<autoBind, open, acceptTimer, listenTimer, stopped, doing, pool,
                 connVars, appVars, calls>>

AcceptFails ==
  /\ accepts > 0
  /\ MayStill("accept") /\ Counted("accept")
  /\ accepts' = accepts - 1
  /\ strand' = Append(strand, Handler("failed", NoConn))
  /\ UNCHANGED <<autoBind, open, acceptTimer, listenTimer, stopped, doing, pool,
                 made, connVars, appVars>>

AcceptTimerExpires ==
  /\ acceptTimer
  /\ acceptTimer' = FALSE
  /\ strand' = Append(strand, Handler("acceptTimer", NoConn))
  /\ UNCHANGED <<autoBind, open, accepts, listenTimer, stopped, doing, pool, made,
                 connVars, appVars, calls>>

ListenTimerExpires ==
  /\ listenTimer
  /\ listenTimer' = FALSE
  /\ strand' = Append(strand, Handler("listen", NoConn))
  /\ UNCHANGED <<autoBind, open, accepts, acceptTimer, stopped, doing, pool, made,
                 connVars, appVars, calls>>

(* The read of a session fails, or its timeout finds the peer silent. *)
SessionFails(c) ==
  /\ c \in sessions \ closed /\ posted[c] = << >>
  /\ Post(c, "error")
  /\ UNCHANGED <<acceptor, acceptorStrand, pool, made, sessions, closed, removing,
                 appVars, calls>>

-----------------------------------------------------------------------------
(* The acceptor's strand. *)

Runs(what) == doing = Idle /\ strand # << >> /\ Head(strand).what = what

(* async_accept, whose handler gets an error at once when the acceptor is  *)
(* closed.  "rest" is what the strand has queued before.                   *)
BeginAccept(rest) ==
  IF open THEN accepts' = accepts + 1 /\ strand' = rest
          ELSE strand' = Append(rest, Handler("failed", NoConn)) /\ UNCHANGED accepts

(* startAccept as posted by start, and onAcceptTimer. *)
StartAccept ==
  /\ Runs("startAccept") \/ Runs("acceptTimer")
  /\ BeginAccept(Tail(strand))
  /\ UNCHANGED <<autoBind, open, acceptTimer, listenTimer, stopped, doing, pool,
                 made, connVars, appVars, calls>>

HandleAcceptUnchecked ==    \* mutant: the connection of a failed accept is taken
  /\ Runs("accepted") \/ Runs("failed")
  /\ ~Locked
  /\ pool' = pool \cup {Head(strand).conn}
  /\ doing' = [Idle EXCEPT !.step = "start", !.conn = Head(strand).conn]
  /\ strand' = Tail(strand)
  /\ UNCHANGED <<acceptor, made, connVars, appVars, calls>>

(* handleAccept without an error: addConnection, ... *)
HandleAccept ==
  /\ Runs("accepted")
  /\ ~Locked
  /\ pool' = pool \cup {Head(strand).conn}
  /\ doing' = [Idle EXCEPT !.step = "start", !.conn = Head(strand).conn]
  /\ strand' = Tail(strand)
  /\ UNCHANGED <<acceptor, made, connVars, appVars, calls>>

(* ... start, whose read fails when the connection was closed meanwhile,   *)
(* and the next accept.                                                    *)
StartConnection ==
  /\ doing.step = "start"
  /\ LET c == doing.conn
     IN  /\ sessions' = sessions \cup {c}
         /\ IF c \in closed THEN Post(c, "error") ELSE UNCHANGED posted
  /\ BeginAccept(strand)
  /\ doing' = Idle
  /\ UNCHANGED <<autoBind, open, acceptTimer, listenTimer, stopped, pool, made,
                 closed, removing, appVars, calls>>

HandleAcceptErrorTwice ==    \* mutant: a failed accept is repeated at once and by the timer
  /\ Runs("failed")
  /\ acceptTimer' = (acceptTimer \/ (~stopped /\ open))
  /\ BeginAccept(Tail(strand))
  /\ UNCHANGED <<autoBind, open, listenTimer, stopped, doing, pool, made,
                 connVars, appVars, calls>>

HandleAcceptErrorForGood ==    \* mutant: a failed accept is not repeated
  /\ Runs("failed")
  /\ strand' = Tail(strand)
  /\ UNCHANGED <<acceptor, doing, pool, made, connVars, appVars, calls>>

(* handleAccept with an error. *)
HandleAcceptError ==
  /\ Runs("failed")
  /\ acceptTimer' = (acceptTimer \/ (~stopped /\ open))
  /\ strand' = Tail(strand)
  /\ UNCHANGED <<autoBind, open, accepts, listenTimer, stopped, doing, pool, made,
                 connVars, appVars, calls>>

(* onListenTimer looks at m_bStopped, ... *)
OnListenTimer ==
  /\ Runs("listen")
  /\ doing' = IF stopped THEN Idle ELSE [Idle EXCEPT !.step = "open"]
  /\ strand' = Tail(strand)
  /\ UNCHANGED <<acceptor, pool, made, connVars, appVars, calls>>

(* ... and binds unless start has done it, or waits again. *)
Listen ==
  /\ doing.step = "open"
  /\ IF open
     THEN UNCHANGED <<open, accepts, listenTimer, calls>>
     ELSE \/ /\ open' = TRUE
             /\ accepts' = accepts + 1
             /\ UNCHANGED <<listenTimer, calls>>
          \/ /\ MayStill("bind") /\ Counted("bind")
             /\ listenTimer' = TRUE
             /\ UNCHANGED <<open, accepts>>
  /\ doing' = Idle
  /\ UNCHANGED <<autoBind, acceptTimer, stopped, strand, pool, made, connVars,
                 appVars>>

(* doSendDataToClients: asynchronous sends only queue the data.  It copies *)
(* nothing: it walks the pool itself.                                      *)
BroadcastAsync ==
  /\ Runs("broadcast")
  /\ strand' = Tail(strand)
  /\ UNCHANGED <<acceptor, doing, pool, made, connVars, appVars, calls>>

BroadcastBegins ==
  /\ Runs("broadcastSync")
  /\ doing' = [Idle EXCEPT !.step = "walk", !.left = pool]
  /\ strand' = Tail(strand)
  /\ UNCHANGED <<acceptor, pool, made, connVars, appVars, calls>>

BroadcastNextStuck ==    \* mutant: a connection without a session is not passed over
  /\ doing.step = "walk"
  /\ doing' \in IF doing.left = {} THEN {Idle}
                ELSE {IF c \in sessions
                      THEN [step |-> "write", conn |-> c, left |-> doing.left \ {c}]
                      ELSE doing : c \in doing.left}
  /\ UNCHANGED <<acceptor, strand, pool, made, connVars, appVars, calls>>

(* The next connection of the set, whose order is that of addresses;       *)
(* sendDataSync returns at once without a session.                         *)
BroadcastNext ==
  /\ doing.step = "walk"
  /\ doing' \in IF doing.left = {} THEN {Idle}
                ELSE {IF c \in sessions
                      THEN [step |-> "write", conn |-> c, left |-> doing.left \ {c}]
                      ELSE [doing EXCEPT !.left = @ \ {c}] : c \in doing.left}
  /\ UNCHANGED <<acceptor, strand, pool, made, connVars, appVars, calls>>

(* The peer reads what sendDataSync writes. *)
PeerReads ==
  /\ doing.step = "write" /\ doing.conn \notin closed
  /\ doing' = [doing EXCEPT !.step = "walk", !.conn = NoConn]
  /\ UNCHANGED <<acceptor, strand, pool, made, connVars, appVars, calls>>

(* The socket is closed: sendDataSync throws and posts the error. *)
WriteFails ==
  /\ doing.step = "write" /\ doing.conn \in closed
  /\ Post(doing.conn, "error")
  /\ doing' = [doing EXCEPT !.step = "walk", !.conn = NoConn]
  /\ UNCHANGED <<acceptor, strand, pool, made, sessions, closed, removing,
                 appVars, calls>>

AcceptorStrand ==
  \/ StartAccept \/ HandleAccept \/ StartConnection \/ HandleAcceptError
  \/ OnListenTimer \/ Listen
  \/ BroadcastAsync \/ BroadcastBegins \/ BroadcastNext \/ WriteFails

-----------------------------------------------------------------------------
(* The strand of a connection. *)

RunsAt(c, what) == c \notin removing /\ posted[c] # << >> /\ Head(posted[c]) = what
Done(c) == posted' = [posted EXCEPT ![c] = Tail(@)]
DoClose(c) == sessions' = sessions \ {c} /\ closed' = closed \cup {c}

(* handleConnectionError: the first error of a session closes it, ... *)
HandleConnectionError(c) ==
  /\ RunsAt(c, "error")
  /\ Done(c)
  /\ IF c \in sessions
     THEN DoClose(c) /\ removing' = removing \cup {c}
     ELSE UNCHANGED <<sessions, closed, removing>>
  /\ UNCHANGED <<acceptor, acceptorStrand, pool, made, appVars, calls>>

RemoveConnectionUnlocked(c) ==    \* mutant: removeConnection does not take the mutex
  /\ c \in removing
  /\ removing' = removing \ {c}
  /\ pool' = pool \ {c}
  /\ Post(c, "close")
  /\ UNCHANGED <<acceptor, acceptorStrand, made, sessions, closed, appVars, calls>>

(* ... reports it and takes it from the pool, which posts a close. *)
RemoveConnection(c) ==
  /\ c \in removing
  /\ ~Locked
  /\ removing' = removing \ {c}
  /\ pool' = pool \ {c}
  /\ Post(c, "close")
  /\ UNCHANGED <<acceptor, acceptorStrand, made, sessions, closed, appVars, calls>>

HandleClose(c) ==
  /\ RunsAt(c, "close")
  /\ DoClose(c)
  /\ Done(c)
  /\ UNCHANGED <<acceptor, acceptorStrand, pool, made, removing, appVars, calls>>

ConnStrand(c) == HandleConnectionError(c) \/ RemoveConnection(c) \/ HandleClose(c)

-----------------------------------------------------------------------------
(* Nothing is under way: only the application, a peer or a fault can go on. *)
Quiet == /\ strand = << >> /\ doing = Idle /\ app = "idle"
         /\ ~acceptTimer /\ ~listenTimer
         /\ removing = {} /\ \A c \in Conns : posted[c] = << >>

Rest == Quiet /\ UNCHANGED vars

Next == \/ StartListening \/ StartWithoutPort
        \/ StopCancelsAccept \/ StopGoesOn
        \/ SendDataToClients
        \/ Accepted \/ AcceptFails \/ AcceptTimerExpires \/ ListenTimerExpires
        \/ AcceptorStrand \/ PeerReads
        \/ \E c \in Conns : SessionFails(c) \/ ConnStrand(c)
        \/ Rest

Spec == Init /\ [][Next]_vars

(* Every strand runs what it has, a pending timer expires, a call of stop  *)
(* goes on, and peers read what they are sent.  Nothing makes the          *)
(* application call, a peer connect, or a fault happen.                    *)
FairSpec ==
  /\ Spec
  /\ WF_vars(AcceptorStrand) /\ WF_vars(PeerReads) /\ WF_vars(StopGoesOn)
  /\ WF_vars(AcceptTimerExpires) /\ WF_vars(ListenTimerExpires)
  /\ \A c \in Conns : WF_vars(ConnStrand(c))

-----------------------------------------------------------------------------
(* Properties. *)

IsPosted(c, what) == \E i \in DOMAIN posted[c] : posted[c][i] = what

(* The pool and the sessions agree: a session can be reached by stop and   *)
(* by a broadcast, or its end is posted; a connection in the pool is a     *)
(* session, is about to become one, or is about to be removed.             *)
PoolAgrees ==
  /\ \A c \in sessions : c \in pool \/ IsPosted(c, "close") \/ IsPosted(c, "error")
  /\ \A c \in pool : \/ c \in sessions
                     \/ c \in removing
                     \/ doing.step = "start" /\ doing.conn = c

(* What will have the server accept: an outstanding accept, a timer, a     *)
(* handler of the accept loop that is queued or under way.                 *)
LoopHandlers == {"startAccept", "accepted", "failed", "acceptTimer", "listen"}
Tending ==
  accepts + Cardinality({i \in DOMAIN strand : strand[i].what \in LoopHandlers})
    + Cardinality({t \in {"accept", "listen", "doing"} :
                     CASE t = "accept" -> acceptTimer
                       [] t = "listen" -> listenTimer
                       [] t = "doing"  -> doing.step \in {"start", "open"}})

(* A server that was started once and not stopped has exactly one chain of *)
(* accepts: no failed bind or accept ends it, none starts another.         *)
AcceptTended ==
  (calls.start = 1 /\ lastCall = "start" /\ calls.stop = 0) => Tending = 1

(* A server that got its port when it was started does not accept again    *)
(* once a stop has returned and what it left behind has run: neither an    *)
(* accept that completed or failed meanwhile nor the accept timer brings   *)
(* the loop back.                                                          *)
StopEndsAccepting ==
  (lastCall = "stop" /\ calls.start <= 1 /\ calls.bind = 0 /\ Quiet)
    => ~open /\ accepts = 0

(* The pool does not change while a broadcast walks through it with an     *)
(* iterator.                                                               *)
BroadcastPoolStable == [][Locked /\ Locked' => pool' = pool]_vars

(* Liveness: a started server that nobody stops waits for peers again      *)
(* after every failure.                                                    *)
AcceptsAgain ==
  (lastCall = "start" /\ calls.stop = 0) ~> (accepts > 0 \/ calls.stop > 0)

(* Liveness: stop returns, whatever connections and broadcasts do, as long *)
(* as peers read.                                                          *)
StopReturns == app # "idle" ~> app = "idle"
=============================================================================
