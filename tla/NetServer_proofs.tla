---------------------------- MODULE NetServer_proofs ----------------------------
(***************************************************************************)
(* Proofs about NetServer, for any number of peers, calls of start and     *)
(* stop, failed binds and accepts, and broadcasts: type correctness, the   *)
(* agreement of pool and sessions, the single chain of accepts, the end of *)
(* accepting after stop, and the pool that stands still under a broadcast. *)
(***************************************************************************)
EXTENDS NetServer, SequenceTheorems, FiniteSetTheorems, TLAPS

-----------------------------------------------------------------------------
(* Handlers and their queues. *)

LEMMA HandlerTypes ==
  /\ \A w \in {"startAccept", "failed", "acceptTimer", "listen", "broadcast", "broadcastSync"} :
       Handler(w, NoConn) \in Handlers
  /\ \A c \in Conns : Handler("accepted", c) \in Handlers
BY DEF Handler, Handlers

LEMMA AcceptedIsConn ==
  ASSUME NEW h \in Handlers, h.what = "accepted"
  PROVE  h.conn \in Conns /\ h = Handler("accepted", h.conn)
BY DEF Handler, Handlers

LEMMA QueueTypes ==
  ASSUME NEW queue \in Seq(Handlers)
  PROVE  /\ \A h \in Handlers : Append(queue, h) \in Seq(Handlers)
         /\ queue # << >> => Tail(queue) \in Seq(Handlers) /\ Head(queue) \in Handlers
         /\ \A h \in Handlers, n \in Nat : queue \o Repeat(h, n) \in Seq(Handlers)
<1>1. ASSUME NEW h \in Handlers, NEW n \in Nat
      PROVE  queue \o Repeat(h, n) \in Seq(Handlers)
  <2>1. Repeat(h, n) \in [1..n -> Handlers]
    BY DEF Repeat
  <2>2. Repeat(h, n) \in Seq(Handlers)
    BY <2>1, SeqDef
  <2> QED BY <2>2, ConcatProperties
<1> QED BY <1>1, HeadTailProperties

(* The places of a queue that hold a handler of the set hs, and queues     *)
(* that have at most one.                                                  *)
At(queue, hs) == {i \in DOMAIN queue : queue[i] \in hs}
Lone(queue, hs) == \A i, j \in At(queue, hs) : i = j

LEMMA AtAppend ==
  ASSUME NEW queue \in Seq(Handlers), NEW h \in Handlers, NEW hs
  PROVE  /\ h \notin hs => At(Append(queue, h), hs) = At(queue, hs)
         /\ h \in hs => At(Append(queue, h), hs) # {}
         /\ At(queue, hs) = {} => Lone(Append(queue, h), hs)
         /\ At(queue, hs) # {} => At(Append(queue, h), hs) # {}
<1>1. /\ DOMAIN queue = 1..Len(queue) /\ Len(queue) \in Nat
      /\ DOMAIN Append(queue, h) = 1..(Len(queue) + 1)
      /\ \A i \in 1..Len(queue) : Append(queue, h)[i] = queue[i]
      /\ Append(queue, h)[Len(queue) + 1] = h
  OBVIOUS
<1> QED BY <1>1 DEF At, Lone

LEMMA AtTail ==
  ASSUME NEW queue \in Seq(Handlers), queue # << >>, NEW hs
  PROVE  /\ At(queue, hs) = {} => At(Tail(queue), hs) = {}
         /\ Lone(queue, hs) => Lone(Tail(queue), hs)
         /\ Lone(queue, hs) /\ Head(queue) \in hs => At(Tail(queue), hs) = {}
         /\ Head(queue) \in hs => At(queue, hs) # {}
         /\ Head(queue) \notin hs /\ At(queue, hs) # {} => At(Tail(queue), hs) # {}
<1>1. /\ DOMAIN queue = 1..Len(queue) /\ Len(queue) \in Nat \ {0}
      /\ DOMAIN Tail(queue) = 1..(Len(queue) - 1)
      /\ \A i \in 1..(Len(queue) - 1) : Tail(queue)[i] = queue[i + 1]
      /\ Head(queue) = queue[1]
  OBVIOUS
<1>2. \A i \in At(Tail(queue), hs) : i + 1 \in At(queue, hs) /\ i \in Nat \ {0}
  BY <1>1 DEF At
<1>3. Head(queue) \in hs <=> 1 \in At(queue, hs)
  BY <1>1 DEF At
<1>4. \A i \in At(queue, hs) : i # 1 => i - 1 \in At(Tail(queue), hs)
  BY <1>1 DEF At
<1> QED BY <1>2, <1>3, <1>4 DEF Lone

LEMMA AtRepeat ==
  ASSUME NEW queue \in Seq(Handlers), NEW h \in Handlers, NEW n \in Nat, NEW hs, h \notin hs
  PROVE  At(queue \o Repeat(h, n), hs) = At(queue, hs)
<1> DEFINE r == Repeat(h, n)
<1>1. r \in [1..n -> Handlers]
  BY DEF Repeat
<1>2. r \in Seq(Handlers) /\ Len(r) = n /\ \A i \in 1..n : r[i] = h
  BY <1>1, SeqDef, LenProperties DEF Repeat
<1> HIDE DEF r
<1>3. /\ DOMAIN queue = 1..Len(queue) /\ Len(queue) \in Nat
      /\ Len(queue \o r) = Len(queue) + n /\ DOMAIN (queue \o r) = 1..(Len(queue) + n)
      /\ \A i \in 1..Len(queue) : (queue \o r)[i] = queue[i]
      /\ \A i \in (Len(queue) + 1)..(Len(queue) + n) : (queue \o r)[i] = h
  <2>1. /\ Len(queue \o r) = Len(queue) + n /\ queue \o r \in Seq(Handlers)
        /\ Len(queue) \in Nat
        /\ \A i \in 1..(Len(queue) + n) :
             (queue \o r)[i] = IF i <= Len(queue) THEN queue[i] ELSE r[i - Len(queue)]
    BY <1>2, ConcatProperties
  <2>2. DOMAIN queue = 1..Len(queue) /\ DOMAIN (queue \o r) = 1..(Len(queue) + n)
    BY <2>1, LenProperties
  <2>3. \A i \in (Len(queue) + 1)..(Len(queue) + n) : i - Len(queue) \in 1..n
    BY <2>1
  <2>4. \A i \in (Len(queue) + 1)..(Len(queue) + n) : (queue \o r)[i] = h
    BY <1>2, <2>1, <2>3
  <2>5. \A i \in 1..Len(queue) : (queue \o r)[i] = queue[i]
    BY <2>1
  <2> QED BY <2>1, <2>2, <2>4, <2>5
<1>4. At(queue \o r, hs) = At(queue, hs)
  BY <1>3 DEF At
<1> QED BY <1>4 DEF r

-----------------------------------------------------------------------------
(***************************************************************************)
(* Types.  The acceptor's strand works on a connection only while it       *)
(* starts it or writes to it.                                              *)
(***************************************************************************)
DoingConn == doing.step \in {"start", "write"} => doing.conn \in Conns

TypeInv == TypeOK /\ DoingConn

LEMMA CallsType ==
  ASSUME NEW D, NEW f \in [D -> Nat]
  PROVE  /\ \A what : [f EXCEPT ![what] = @ + 1] \in [D -> Nat]
         /\ [f EXCEPT !.start = @ + 1, !.bind = @ + 1] \in [D -> Nat]
<1>1. \A d \in D : f[d] + 1 \in Nat
  OBVIOUS
<1> QED BY <1>1

LEMMA PostType ==
  ASSUME TypeOK, NEW c \in Conns, NEW what \in {"error", "close"}, Post(c, what)
  PROVE  posted' \in [Conns -> Seq({"error", "close"})]
<1>1. posted[c] \in Seq({"error", "close"})
  BY DEF TypeOK
<1>2. Append(posted[c], what) \in Seq({"error", "close"})
  BY <1>1
<1> QED BY <1>2 DEF Post, TypeOK

LEMMA DoingTypes ==
  /\ Idle \in Doings
  /\ \A c \in Conns : [Idle EXCEPT !.step = "start", !.conn = c] \in Doings
  /\ [Idle EXCEPT !.step = "open"] \in Doings
  /\ \A s \in SUBSET Conns : [Idle EXCEPT !.step = "walk", !.left = s] \in Doings
  /\ \A d \in Doings : /\ [d EXCEPT !.step = "walk", !.conn = NoConn] \in Doings
                       /\ \A c \in Conns : [d EXCEPT !.left = @ \ {c}] \in Doings
                       /\ d.left \subseteq Conns
  /\ \A s \in SUBSET Conns : \A c \in Conns :
       [step |-> "write", conn |-> c, left |-> s \ {c}] \in Doings
BY DEF Idle, Doings

LEMMA DoingSteps ==
  /\ Idle.step = "idle"
  /\ [Idle EXCEPT !.step = "open"].step = "open"
  /\ \A s : [Idle EXCEPT !.step = "walk", !.left = s].step = "walk"
  /\ \A c : /\ [Idle EXCEPT !.step = "start", !.conn = c].step = "start"
            /\ [Idle EXCEPT !.step = "start", !.conn = c].conn = c
BY DEF Idle

LEMMA WalkGoesOn ==
  ASSUME NEW d \in Doings, NEW c
  PROVE  [d EXCEPT !.left = @ \ {c}].step = d.step
BY DEF Doings

LEMMA TypeInvInit == Init => TypeInv
<1> SUFFICES ASSUME Init PROVE TypeInv
  OBVIOUS
<1>1. << >> \in Seq(Handlers) /\ << >> \in Seq({"error", "close"})
  BY EmptySeq
<1>2. calls \in [DOMAIN Limit -> Nat]
  BY DEF Init
<1>3. Idle \in Doings /\ Idle.step = "idle"
  BY DoingTypes DEF Idle
<1>4. made \in 0..MaxConns
  BY ServerAssumption DEF Init
<1> QED BY <1>1, <1>2, <1>3, <1>4 DEF Init, TypeInv, TypeOK, DoingConn

LEMMA ApplicationType ==
  ASSUME TypeInv, \/ StartListening \/ StartWithoutPort \/ StopCancelsAccept \/ StopGoesOn
                  \/ SendDataToClients
  PROVE  TypeInv'
<1> USE DEF TypeInv, DoingConn, acceptor, acceptorStrand, connVars, appVars, Counted
<1>1. /\ \A h \in Handlers : Append(strand, h) \in Seq(Handlers)
      /\ strand \o Repeat(Handler("failed", NoConn), accepts) \in Seq(Handlers)
  BY QueueTypes, HandlerTypes DEF TypeOK
<1>2. /\ \A what : [calls EXCEPT ![what] = @ + 1] \in [DOMAIN Limit -> Nat]
      /\ [calls EXCEPT !.start = @ + 1, !.bind = @ + 1] \in [DOMAIN Limit -> Nat]
  BY CallsType DEF TypeOK
<1>3. CASE StartListening
  BY <1>1, <1>2, <1>3, HandlerTypes DEF StartListening, TypeOK
<1>4. CASE StartWithoutPort
  <2>1. calls' \in [DOMAIN Limit -> Nat]
    BY <1>2, <1>4 DEF StartWithoutPort
  <2> QED BY <1>4, <2>1 DEF StartWithoutPort, TypeOK
<1>5. CASE StopCancelsAccept
  BY <1>2, <1>5 DEF StopCancelsAccept, TypeOK
<1>6. CASE StopCloses
  BY <1>1, <1>6 DEF StopCloses, TypeOK
<1>7. CASE StopCancelsListen
  BY <1>7 DEF StopCancelsListen, TypeOK
<1>8. CASE StopSetsStopped
  BY <1>8 DEF StopSetsStopped, TypeOK
<1>9. CASE RemoveAllConnections
  <2>1. \A c \in Conns : Append(posted[c], "close") \in Seq({"error", "close"})
    BY DEF TypeOK
  <2>2. posted' \in [Conns -> Seq({"error", "close"})]
    BY <1>9, <2>1 DEF RemoveAllConnections, TypeOK
  <2> QED BY <1>9, <2>2 DEF RemoveAllConnections, TypeOK
<1>10. CASE SendDataToClients
  <2>1. strand' \in Seq(Handlers)
    BY <1>1, <1>10, HandlerTypes DEF SendDataToClients
  <2> QED BY <1>2, <1>10, <2>1 DEF SendDataToClients, TypeOK
<1> QED BY <1>3, <1>4, <1>5, <1>6, <1>7, <1>8, <1>9, <1>10 DEF StopGoesOn

LEMMA EnvironmentType ==
  ASSUME TypeInv, \/ Accepted \/ AcceptFails \/ AcceptTimerExpires \/ ListenTimerExpires
                  \/ PeerReads \/ \E c \in Conns : SessionFails(c) \/ ConnStrand(c)
  PROVE  TypeInv'
<1> USE DEF TypeInv, DoingConn, acceptor, acceptorStrand, connVars, appVars, Counted
<1>1. \A h \in Handlers : Append(strand, h) \in Seq(Handlers)
  BY QueueTypes DEF TypeOK
<1>2. \A what : [calls EXCEPT ![what] = @ + 1] \in [DOMAIN Limit -> Nat]
  BY CallsType DEF TypeOK
<1>3. CASE Accepted
  <2>1. made' \in Conns /\ made' \in 0..MaxConns /\ accepts' \in Nat
    BY <1>3, ServerAssumption DEF Accepted, TypeOK, Conns
  <2>2. strand' \in Seq(Handlers)
    BY <1>1, <1>3, <2>1, HandlerTypes DEF Accepted
  <2> QED BY <1>3, <2>1, <2>2 DEF Accepted, TypeOK
<1>4. CASE AcceptFails
  <2>1. accepts' \in Nat
    BY <1>4 DEF AcceptFails, TypeOK
  <2> QED BY <1>1, <1>2, <1>4, <2>1, HandlerTypes DEF AcceptFails, TypeOK
<1>5. CASE AcceptTimerExpires
  BY <1>1, <1>5, HandlerTypes DEF AcceptTimerExpires, TypeOK
<1>6. CASE ListenTimerExpires
  BY <1>1, <1>6, HandlerTypes DEF ListenTimerExpires, TypeOK
<1>7. CASE PeerReads
  <2>1. doing' \in Doings /\ doing'.step = "walk"
    BY <1>7, DoingTypes DEF PeerReads, TypeOK, Doings
  <2> QED BY <1>7, <2>1 DEF PeerReads, TypeOK
<1>8. ASSUME NEW c \in Conns, SessionFails(c)
      PROVE  TypeInv'
  <2>1. posted' \in [Conns -> Seq({"error", "close"})]
    BY <1>8, PostType DEF SessionFails
  <2> QED BY <1>8, <2>1 DEF SessionFails, TypeOK
<1>9. ASSUME NEW c \in Conns, ConnStrand(c)
      PROVE  TypeInv'
  <2>1. RunsAt(c, "error") \/ RunsAt(c, "close") => Tail(posted[c]) \in Seq({"error", "close"})
    BY HeadTailProperties DEF RunsAt, TypeOK
  <2>2. posted' \in [Conns -> Seq({"error", "close"})]
    BY <1>9, <2>1, PostType DEF ConnStrand, HandleConnectionError, RemoveConnection,
                                HandleClose, Done, TypeOK
  <2>3. CASE HandleConnectionError(c)
    BY <2>2, <2>3 DEF HandleConnectionError, DoClose, TypeOK
  <2>4. CASE RemoveConnection(c)
    BY <2>2, <2>4 DEF RemoveConnection, TypeOK
  <2>5. CASE HandleClose(c)
    BY <2>2, <2>5 DEF HandleClose, DoClose, TypeOK
  <2> QED BY <1>9, <2>3, <2>4, <2>5 DEF ConnStrand
<1> QED BY <1>3, <1>4, <1>5, <1>6, <1>7, <1>8, <1>9

LEMMA StrandType ==
  ASSUME TypeInv, AcceptorStrand
  PROVE  TypeInv'
<1> USE DEF TypeInv, DoingConn, acceptor, acceptorStrand, connVars, appVars, Counted
<1>1. /\ \A h \in Handlers : Append(strand, h) \in Seq(Handlers)
      /\ strand # << >> => /\ Tail(strand) \in Seq(Handlers) /\ Head(strand) \in Handlers
                           /\ \A h \in Handlers : Append(Tail(strand), h) \in Seq(Handlers)
  BY QueueTypes DEF TypeOK
<1>2. Handler("failed", NoConn) \in Handlers
  BY HandlerTypes
<1>3. CASE StartAccept
  <2>1. strand' \in Seq(Handlers) /\ accepts' \in Nat
    <3>1. accepts' \in {accepts, accepts + 1}
      BY <1>3 DEF StartAccept, BeginAccept
    <3>2. strand # << >> /\ strand' \in {Tail(strand), Append(Tail(strand), Handler("failed", NoConn))}
      BY <1>3 DEF StartAccept, BeginAccept, Runs
    <3>3. accepts \in Nat
      BY DEF TypeOK
    <3> QED BY <1>1, <1>2, <3>1, <3>2, <3>3
  <2> QED BY <1>3, <2>1 DEF StartAccept, TypeOK
<1>4. CASE HandleAccept
  <2>1. Head(strand).conn \in Conns /\ strand' \in Seq(Handlers)
    BY <1>1, <1>4, AcceptedIsConn DEF HandleAccept, Runs
  <2>2. doing' \in Doings /\ doing'.conn \in Conns
    BY <1>4, <2>1, DoingTypes DEF HandleAccept, Idle
  <2> QED BY <1>4, <2>1, <2>2 DEF HandleAccept, TypeOK
<1>5. CASE StartConnection
  <2>1. doing.conn \in Conns
    BY <1>5 DEF StartConnection
  <2>2. posted' \in [Conns -> Seq({"error", "close"})]
    BY <1>5, <2>1, PostType DEF StartConnection, TypeOK
  <2>3. strand' \in Seq(Handlers) /\ accepts' \in Nat
    <3>1. /\ accepts' \in {accepts, accepts + 1}
          /\ strand' \in {strand, Append(strand, Handler("failed", NoConn))}
      BY <1>5 DEF StartConnection, BeginAccept
    <3>2. accepts \in Nat /\ strand \in Seq(Handlers)
      BY DEF TypeOK
    <3> QED BY <1>1, <1>2, <3>1, <3>2
  <2>4. doing' \in Doings /\ doing'.step = "idle"
    BY <1>5, DoingTypes DEF StartConnection, Idle
  <2>5. sessions' \subseteq Conns
    BY <1>5, <2>1 DEF StartConnection, TypeOK
  <2> QED BY <1>5, <2>2, <2>3, <2>4, <2>5 DEF StartConnection, TypeOK
<1>6. CASE HandleAcceptError
  BY <1>1, <1>6 DEF HandleAcceptError, Runs, TypeOK
<1>7. CASE OnListenTimer
  <2>1. doing' \in Doings /\ doing'.step \in {"idle", "open"}
    BY <1>7, DoingTypes DEF OnListenTimer, Idle
  <2> QED BY <1>1, <1>7, <2>1 DEF OnListenTimer, Runs, TypeOK
<1>8. CASE Listen
  <2>1. doing' \in Doings /\ doing'.step = "idle"
    BY <1>8, DoingTypes DEF Listen, Idle
  <2>2. calls' \in [DOMAIN Limit -> Nat]
    <3>1. calls' = calls \/ Counted("bind")
      BY <1>8 DEF Listen
    <3>2. calls \in [DOMAIN Limit -> Nat]
      BY DEF TypeOK
    <3>3. [calls EXCEPT !["bind"] = @ + 1] \in [DOMAIN Limit -> Nat]
      BY <3>2, CallsType
    <3> QED BY <3>1, <3>2, <3>3
  <2>3. open' \in BOOLEAN /\ accepts' \in Nat /\ listenTimer' \in BOOLEAN
    <3>1. /\ accepts' \in {accepts, accepts + 1}
          /\ open' \in {open, TRUE} /\ listenTimer' \in {listenTimer, TRUE}
      BY <1>8 DEF Listen
    <3>2. accepts \in Nat
      BY DEF TypeOK
    <3>3. open \in BOOLEAN /\ listenTimer \in BOOLEAN
      BY DEF TypeOK
    <3>4. accepts' \in Nat
      BY <3>1, <3>2
    <3> QED BY <3>1, <3>3, <3>4
  <2> QED BY <1>8, <2>1, <2>2, <2>3 DEF Listen, TypeOK
<1>9. CASE BroadcastAsync
  BY <1>1, <1>9 DEF BroadcastAsync, Runs, TypeOK
<1>10. CASE BroadcastBegins
  <2>1. doing' \in Doings /\ doing'.step = "walk"
    BY <1>10, DoingTypes DEF BroadcastBegins, Idle, TypeOK
  <2> QED BY <1>1, <1>10, <2>1 DEF BroadcastBegins, Runs, TypeOK
<1>11. CASE BroadcastNext
  <2>1. doing \in Doings /\ doing.step = "walk" /\ doing.left \subseteq Conns
    BY <1>11, DoingTypes DEF BroadcastNext, TypeOK
  <2>2. \/ doing' = Idle
        \/ \E c \in doing.left : \/ doing' = [doing EXCEPT !.left = @ \ {c}]
                                 \/ doing' = [step |-> "write", conn |-> c,
                                              left |-> doing.left \ {c}]
    BY <1>11 DEF BroadcastNext
  <2>3. doing' \in Doings /\ (doing'.step \in {"start", "write"} => doing'.conn \in Conns)
    <3>1. CASE doing' = Idle
      BY <3>1, DoingTypes DEF Idle
    <3>2. ASSUME NEW c \in doing.left, doing' = [doing EXCEPT !.left = @ \ {c}]
          PROVE  doing' \in Doings /\ doing'.step = "walk"
      <4>1. c \in Conns
        BY <2>1
      <4>2. doing' \in Doings
        BY <2>1, <3>2, <4>1, DoingTypes
      <4> QED BY <2>1, <3>2, <4>2 DEF Doings
    <3>3. ASSUME NEW c \in doing.left,
                 doing' = [step |-> "write", conn |-> c, left |-> doing.left \ {c}]
          PROVE  doing' \in Doings /\ doing'.conn \in Conns
      BY <2>1, <3>3, DoingTypes
    <3> QED BY <2>2, <3>1, <3>2, <3>3
  <2> QED BY <1>11, <2>3 DEF BroadcastNext, TypeOK
<1>12. CASE WriteFails
  <2>1. doing' \in Doings /\ doing'.step = "walk"
    BY <1>12, DoingTypes DEF WriteFails, TypeOK, Doings
  <2>2. posted' \in [Conns -> Seq({"error", "close"})]
    BY <1>12, PostType DEF WriteFails
  <2> QED BY <1>12, <2>1, <2>2 DEF WriteFails, TypeOK
<1> QED BY <1>3, <1>4, <1>5, <1>6, <1>7, <1>8, <1>9, <1>10, <1>11, <1>12 DEF AcceptorStrand

LEMMA TypeInvStep == TypeInv /\ [Next]_vars => TypeInv'
<1> SUFFICES ASSUME TypeInv, [Next]_vars PROVE TypeInv'
  OBVIOUS
<1>1. CASE Rest \/ UNCHANGED vars
  BY <1>1 DEF Rest, vars, acceptor, acceptorStrand, connVars, appVars, TypeInv, TypeOK, DoingConn
<1> QED BY <1>1, ApplicationType, EnvironmentType, StrandType DEF Next

(* Type correctness of the server, for every instance: no failed accept    *)
(* brings a connection into the pool.                                      *)
THEOREM TypeCorrect == Spec => []TypeOK
<1>1. TypeInv => TypeOK
  BY DEF TypeInv
<1> QED BY TypeInvInit, TypeInvStep, <1>1, PTL DEF Spec

(* While doSendDataToClients walks the pool under the manager's mutex,     *)
(* nobody adds to it or takes from it.                                     *)
THEOREM PoolStable == Spec => BroadcastPoolStable
<1>1. [Next]_vars => [Locked /\ Locked' => pool' = pool]_vars
  BY DEF Next, StartListening, StartWithoutPort, StopCancelsAccept, StopGoesOn, StopCloses,
     StopCancelsListen, StopSetsStopped, RemoveAllConnections, SendDataToClients, Accepted,
     AcceptFails, AcceptTimerExpires, ListenTimerExpires, AcceptorStrand, StartAccept,
     HandleAccept, StartConnection, HandleAcceptError, OnListenTimer, Listen, BroadcastAsync,
     BroadcastBegins, BroadcastNext, WriteFails, PeerReads, SessionFails, ConnStrand,
     HandleConnectionError, RemoveConnection, HandleClose, Rest, vars
<1> QED BY <1>1, PTL DEF Spec, BroadcastPoolStable

-----------------------------------------------------------------------------
(***************************************************************************)
(* Pool and sessions.  A connection goes one way only: it is fresh, its    *)
(* accept is queued, it is started, a session, removed.  What makes the    *)
(* agreement inductive is that nothing is known of it before it is         *)
(* started, and that a close is posted only once it has left the pool.     *)
(***************************************************************************)
Starting == IF doing.step = "start" THEN {doing.conn} ELSE {}
Holds(queue, what) == \E i \in DOMAIN queue : queue[i] = what
PostedIn(queues, what) == {c \in Conns : Holds(queues[c], what)}
Closing == PostedIn(posted, "close")
Failing == PostedIn(posted, "error")
Fresh == {c \in Conns : c > made}
QueuedIn(queue) == {c \in Conns : At(queue, {Handler("accepted", c)}) # {}}
LoneIn(queue) == \A c \in Conns : Lone(queue, {Handler("accepted", c)})

PoolInv ==
  /\ sessions \subseteq pool \cup Closing \cup Failing
  /\ pool \subseteq sessions \cup removing \cup Starting
  /\ Starting \subseteq pool \cup closed \cup Closing
  /\ pool \cap Closing = {}
  /\ (QueuedIn(strand) \cup Fresh) \cap
       (pool \cup removing \cup sessions \cup Closing \cup Starting) = {}
  /\ QueuedIn(strand) \cap Fresh = {}
  /\ LoneIn(strand)

LEMMA PoolInvIsEnough == TypeInv /\ PoolInv => PoolAgrees
<1> SUFFICES ASSUME TypeInv, PoolInv PROVE PoolAgrees
  OBVIOUS
<1>1. ASSUME NEW c \in sessions
      PROVE  c \in pool \/ IsPosted(c, "close") \/ IsPosted(c, "error")
  BY DEF PoolInv, Closing, Failing, PostedIn, Holds, IsPosted
<1>2. ASSUME NEW c \in pool
      PROVE  \/ c \in sessions
             \/ c \in removing
             \/ doing.step = "start" /\ doing.conn = c
  <2>1. c \in sessions \/ c \in removing \/ c \in Starting
    BY <1>2 DEF PoolInv
  <2>2. c \in Starting => doing.step = "start" /\ doing.conn = c
    BY DEF Starting
  <2> QED BY <2>1, <2>2
<1> QED BY <1>1, <1>2 DEF PoolAgrees

LEMMA PoolInvInit == Init => PoolInv
<1> SUFFICES ASSUME Init PROVE PoolInv
  OBVIOUS
<1>1. DOMAIN << >> = {}
  OBVIOUS
<1>2. Closing = {} /\ Failing = {}
  BY <1>1 DEF Init, Closing, Failing, PostedIn, Holds
<1>3. Starting = {}
  BY DEF Init, Starting, Idle
<1>4. QueuedIn(strand) = {} /\ LoneIn(strand)
  BY <1>1 DEF Init, QueuedIn, LoneIn, At, Lone
<1> QED BY <1>2, <1>3, <1>4 DEF Init, PoolInv

(* Queues that change by handlers other than that of an accept, by a new   *)
(* accept, and by one that is run.                                         *)
LEMMA QueuedAppend ==
  ASSUME NEW queue \in Seq(Handlers), NEW h \in Handlers
  PROVE  /\ h.what # "accepted" => /\ QueuedIn(Append(queue, h)) = QueuedIn(queue)
                                   /\ LoneIn(queue) => LoneIn(Append(queue, h))
         /\ \A c \in Conns : h = Handler("accepted", c) /\ c \notin QueuedIn(queue)
              => /\ QueuedIn(Append(queue, h)) = QueuedIn(queue) \cup {c}
                 /\ LoneIn(queue) => LoneIn(Append(queue, h))
<1>1. \A c \in Conns : Handler("accepted", c).what = "accepted" /\ Handler("accepted", c).conn = c
  BY DEF Handler
<1>2. ASSUME NEW c \in Conns
      PROVE  /\ h # Handler("accepted", c) =>
                  At(Append(queue, h), {Handler("accepted", c)}) = At(queue, {Handler("accepted", c)})
             /\ h = Handler("accepted", c) =>
                  At(Append(queue, h), {Handler("accepted", c)}) # {}
             /\ At(queue, {Handler("accepted", c)}) = {} =>
                  Lone(Append(queue, h), {Handler("accepted", c)})
  BY AtAppend
<1>3. CASE h.what # "accepted"
  <2>1. \A c \in Conns : h # Handler("accepted", c)
    BY <1>1, <1>3
  <2> QED BY <1>2, <1>3, <2>1 DEF QueuedIn, LoneIn, Lone
<1>4. ASSUME NEW c \in Conns, h = Handler("accepted", c), c \notin QueuedIn(queue)
      PROVE  /\ QueuedIn(Append(queue, h)) = QueuedIn(queue) \cup {c}
             /\ LoneIn(queue) => LoneIn(Append(queue, h))
  <2>1. \A d \in Conns : d # c => h # Handler("accepted", d)
    BY <1>1, <1>4
  <2> QED BY <1>2, <1>4, <2>1 DEF QueuedIn, LoneIn, Lone
<1> QED BY <1>1, <1>3, <1>4

LEMMA QueuedTail ==
  ASSUME NEW queue \in Seq(Handlers), queue # << >>, LoneIn(queue)
  PROVE  /\ LoneIn(Tail(queue))
         /\ Head(queue).what # "accepted" => QueuedIn(Tail(queue)) = QueuedIn(queue)
         /\ \A c \in Conns : Head(queue) = Handler("accepted", c)
              => /\ c \in QueuedIn(queue)
                 /\ QueuedIn(Tail(queue)) = QueuedIn(queue) \ {c}
<1>1. \A c \in Conns : Handler("accepted", c).what = "accepted" /\ Handler("accepted", c).conn = c
  BY DEF Handler
<1>2. ASSUME NEW c \in Conns
      PROVE  /\ Lone(Tail(queue), {Handler("accepted", c)})
             /\ At(queue, {Handler("accepted", c)}) = {} =>
                  At(Tail(queue), {Handler("accepted", c)}) = {}
             /\ Head(queue) = Handler("accepted", c) =>
                  /\ At(Tail(queue), {Handler("accepted", c)}) = {}
                  /\ At(queue, {Handler("accepted", c)}) # {}
             /\ Head(queue) # Handler("accepted", c) /\ At(queue, {Handler("accepted", c)}) # {}
                  => At(Tail(queue), {Handler("accepted", c)}) # {}
  BY AtTail DEF LoneIn
<1>3. LoneIn(Tail(queue))
  BY <1>2 DEF LoneIn
<1>4. CASE Head(queue).what # "accepted"
  <2>1. \A c \in Conns : Head(queue) # Handler("accepted", c)
    BY <1>1, <1>4
  <2> QED BY <1>1, <1>2, <1>3, <2>1 DEF QueuedIn
<1>5. ASSUME NEW c \in Conns, Head(queue) = Handler("accepted", c)
      PROVE  c \in QueuedIn(queue) /\ QueuedIn(Tail(queue)) = QueuedIn(queue) \ {c}
  <2>1. \A d \in Conns : d # c => Head(queue) # Handler("accepted", d)
    BY <1>1, <1>5
  <2> QED BY <1>2, <1>5, <2>1 DEF QueuedIn
<1> QED BY <1>1, <1>3, <1>4, <1>5

(* The accept loop's other handlers, and queues that lose one of them.     *)
LEMMA QueueKeepsAccepts ==
  ASSUME NEW queue \in Seq(Handlers), LoneIn(queue)
  PROVE  /\ \A w \in {"startAccept", "failed", "acceptTimer", "listen", "broadcast",
                       "broadcastSync"} :
              /\ QueuedIn(Append(queue, Handler(w, NoConn))) = QueuedIn(queue)
              /\ LoneIn(Append(queue, Handler(w, NoConn)))
         /\ \A n \in Nat : /\ QueuedIn(queue \o Repeat(Handler("failed", NoConn), n)) = QueuedIn(queue)
                            /\ LoneIn(queue \o Repeat(Handler("failed", NoConn), n))
<1>1. \A w : Handler(w, NoConn).what = w
  BY DEF Handler
<1>2. ASSUME NEW n \in Nat, NEW c \in Conns
      PROVE  At(queue \o Repeat(Handler("failed", NoConn), n), {Handler("accepted", c)})
               = At(queue, {Handler("accepted", c)})
  <2>1. Handler("failed", NoConn) # Handler("accepted", c)
    BY DEF Handler
  <2> QED BY <2>1, AtRepeat, HandlerTypes
<1>3. \A w \in {"startAccept", "failed", "acceptTimer", "listen", "broadcast", "broadcastSync"} :
        Handler(w, NoConn) \in Handlers /\ Handler(w, NoConn).what # "accepted"
  BY <1>1, HandlerTypes
<1>4. \A n \in Nat : /\ QueuedIn(queue \o Repeat(Handler("failed", NoConn), n)) = QueuedIn(queue)
                     /\ LoneIn(queue \o Repeat(Handler("failed", NoConn), n))
  BY <1>2 DEF QueuedIn, LoneIn, Lone
<1> QED BY <1>3, <1>4, QueuedAppend

(* What posting and running does to a queue, and to the sets of            *)
(* connections.                                                            *)
LEMMA HoldsAppend ==
  ASSUME NEW S, NEW queue \in Seq(S), NEW what, NEW w
  PROVE  Holds(Append(queue, what), w) <=> (w = what \/ Holds(queue, w))
<1>1. /\ DOMAIN queue = 1..Len(queue) /\ Len(queue) \in Nat
      /\ DOMAIN Append(queue, what) = 1..(Len(queue) + 1)
      /\ \A i \in 1..Len(queue) : Append(queue, what)[i] = queue[i]
      /\ Append(queue, what)[Len(queue) + 1] = what
  OBVIOUS
<1>2. /\ Len(queue) + 1 \in DOMAIN Append(queue, what)
      /\ \A i \in DOMAIN queue : i \in DOMAIN Append(queue, what)
      /\ \A i \in DOMAIN Append(queue, what) : i \in DOMAIN queue \/ i = Len(queue) + 1
  BY <1>1
<1> QED BY <1>1, <1>2 DEF Holds

LEMMA HoldsTail ==
  ASSUME NEW S, NEW queue \in Seq(S), queue # << >>, NEW w
  PROVE  Holds(queue, w) <=> (w = Head(queue) \/ Holds(Tail(queue), w))
<1>1. /\ DOMAIN queue = 1..Len(queue) /\ Len(queue) \in Nat \ {0}
      /\ DOMAIN Tail(queue) = 1..(Len(queue) - 1)
      /\ \A i \in 1..(Len(queue) - 1) : Tail(queue)[i] = queue[i + 1]
      /\ Head(queue) = queue[1]
  OBVIOUS
<1>2. /\ 1 \in DOMAIN queue
      /\ \A i \in DOMAIN Tail(queue) : i + 1 \in DOMAIN queue /\ Tail(queue)[i] = queue[i + 1]
      /\ \A i \in DOMAIN queue : i = 1 \/ (i - 1 \in DOMAIN Tail(queue) /\ Tail(queue)[i - 1] = queue[i])
  BY <1>1
<1> QED BY <1>1, <1>2 DEF Holds

LEMMA PostSets ==
  ASSUME TypeOK, NEW c \in Conns, NEW what \in {"error", "close"}, Post(c, what)
  PROVE  /\ what = "close" => Closing' = Closing \cup {c} /\ Failing' = Failing
         /\ what = "error" => Failing' = Failing \cup {c} /\ Closing' = Closing
<1>1. /\ posted[c] \in Seq({"error", "close"})
      /\ posted'[c] = Append(posted[c], what)
      /\ \A d \in Conns : d # c => posted'[d] = posted[d]
  BY DEF TypeOK, Post
<1>2. \A w : Holds(posted'[c], w) <=> (w = what \/ Holds(posted[c], w))
  BY <1>1, HoldsAppend
<1> QED BY <1>1, <1>2 DEF Closing, Failing, PostedIn

LEMMA DoneSets ==
  ASSUME TypeOK, NEW c \in Conns, posted[c] # << >>, Done(c)
  PROVE  /\ Head(posted[c]) = "error" => /\ c \in Failing /\ Closing' = Closing
                                         /\ Failing \ {c} \subseteq Failing'
         /\ Head(posted[c]) = "close" => /\ c \in Closing /\ Failing' = Failing
                                         /\ Closing \ {c} \subseteq Closing'
                                         /\ Closing' \subseteq Closing
<1>1. /\ posted[c] \in Seq({"error", "close"})
      /\ posted'[c] = Tail(posted[c])
      /\ \A d \in Conns : d # c => posted'[d] = posted[d]
  BY DEF TypeOK, Done
<1>2. \A w : Holds(posted[c], w) <=> (w = Head(posted[c]) \/ Holds(posted'[c], w))
  BY <1>1, HoldsTail
<1> QED BY <1>1, <1>2 DEF Closing, Failing, PostedIn

(* Steps that move no connection. *)
LEMMA PoolUntouched ==
  ASSUME PoolInv, UNCHANGED <<pool, sessions, removing, closed, posted, made>>,
         Starting' = Starting, QueuedIn(strand') = QueuedIn(strand), LoneIn(strand')
  PROVE  PoolInv'
<1>1. Closing' = Closing /\ Failing' = Failing /\ Fresh' = Fresh
  BY DEF Closing, Failing, Fresh
<1> QED BY <1>1 DEF PoolInv

LEMMA ApplicationPool ==
  ASSUME TypeInv, PoolInv, \/ StartListening \/ StartWithoutPort \/ StopCancelsAccept
                           \/ StopGoesOn \/ SendDataToClients
  PROVE  PoolInv'
<1> USE DEF acceptor, acceptorStrand, connVars, appVars
<1>0. strand \in Seq(Handlers) /\ LoneIn(strand) /\ accepts \in Nat
  BY DEF TypeInv, TypeOK, PoolInv
<1>1. CASE StartListening \/ SendDataToClients
  <2>1. UNCHANGED <<pool, sessions, removing, closed, posted, made, doing>>
    BY <1>1 DEF StartListening, SendDataToClients
  <2>2. \E w \in {"startAccept", "broadcast", "broadcastSync"} :
          strand' = Append(strand, Handler(w, NoConn))
    BY <1>1 DEF StartListening, SendDataToClients
  <2>3. QueuedIn(strand') = QueuedIn(strand) /\ LoneIn(strand')
    BY <1>0, <2>2, QueueKeepsAccepts
  <2> QED BY <2>1, <2>3, PoolUntouched DEF Starting
<1>2. CASE StartWithoutPort \/ StopCancelsAccept \/ StopCancelsListen \/ StopSetsStopped
  <2>1. UNCHANGED <<pool, sessions, removing, closed, posted, made, doing, strand>>
    BY <1>2 DEF StartWithoutPort, StopCancelsAccept, StopCancelsListen, StopSetsStopped
  <2> QED BY <1>0, <2>1, PoolUntouched DEF Starting
<1>3. CASE StopCloses
  <2>1. /\ UNCHANGED <<pool, sessions, removing, closed, posted, made, doing>>
        /\ strand' = strand \o Repeat(Handler("failed", NoConn), accepts)
    BY <1>3 DEF StopCloses
  <2>2. QueuedIn(strand') = QueuedIn(strand) /\ LoneIn(strand')
    BY <1>0, <2>1, QueueKeepsAccepts
  <2> QED BY <2>1, <2>2, PoolUntouched DEF Starting
<1>4. CASE RemoveAllConnections
  <2>1. /\ pool' = {} /\ UNCHANGED <<sessions, removing, closed, made, doing, strand>>
        /\ posted' = [c \in Conns |-> IF c \in pool THEN Append(posted[c], "close")
                                       ELSE posted[c]]
    BY <1>4 DEF RemoveAllConnections
  <2>2. ASSUME NEW c \in Conns
        PROVE  /\ Holds(posted'[c], "close") <=> (c \in pool \/ Holds(posted[c], "close"))
               /\ Holds(posted'[c], "error") <=> Holds(posted[c], "error")
    <3>1. CASE c \in pool
      <4>1. posted[c] \in Seq({"error", "close"}) /\ posted'[c] = Append(posted[c], "close")
        BY <2>1, <3>1 DEF TypeInv, TypeOK
      <4> QED BY <3>1, <4>1, HoldsAppend
    <3>2. CASE c \notin pool
      BY <2>1, <3>2
    <3> QED BY <3>1, <3>2
  <2>3. Closing' = Closing \cup (pool \cap Conns) /\ Failing' = Failing
    BY <2>2 DEF Closing, Failing, PostedIn
  <2>4. Fresh' = Fresh /\ Starting' = Starting /\ pool \subseteq Conns
    BY <2>1 DEF Fresh, Starting, TypeInv, TypeOK
  <2> QED BY <2>1, <2>3, <2>4 DEF PoolInv
<1> QED BY <1>1, <1>2, <1>3, <1>4 DEF StopGoesOn

LEMMA EnvironmentPool ==
  ASSUME TypeInv, PoolInv, \/ Accepted \/ AcceptFails \/ AcceptTimerExpires
                           \/ ListenTimerExpires \/ PeerReads
                           \/ \E c \in Conns : SessionFails(c) \/ ConnStrand(c)
  PROVE  PoolInv'
<1> USE DEF acceptor, acceptorStrand, connVars, appVars
<1>0. strand \in Seq(Handlers) /\ LoneIn(strand) /\ TypeOK
  BY DEF TypeInv, TypeOK, PoolInv
<1>1. CASE Accepted
  <2> DEFINE c == made + 1
  <2>1. c \in Conns /\ made \in Nat
    BY <1>1, ServerAssumption DEF Accepted, Conns, TypeInv, TypeOK
  <2>2. /\ made' = c /\ strand' = Append(strand, Handler("accepted", c))
        /\ UNCHANGED <<pool, sessions, removing, closed, posted, doing>>
    BY <1>1 DEF Accepted
  <2>3. c \in Fresh /\ Fresh' = Fresh \ {c}
    BY <2>1, <2>2 DEF Fresh, Conns
  <2> HIDE DEF c
  <2>4. c \notin QueuedIn(strand)
    BY <2>3 DEF PoolInv
  <2>5. QueuedIn(strand') = QueuedIn(strand) \cup {c} /\ LoneIn(strand')
    BY <1>0, <2>1, <2>2, <2>4, QueuedAppend, HandlerTypes
  <2>6. Closing' = Closing /\ Failing' = Failing /\ Starting' = Starting
    BY <2>2 DEF Closing, Failing, Starting
  <2> QED BY <2>2, <2>3, <2>5, <2>6 DEF PoolInv
<1>2. CASE AcceptFails \/ AcceptTimerExpires \/ ListenTimerExpires
  <2>1. UNCHANGED <<pool, sessions, removing, closed, posted, made, doing>>
    BY <1>2 DEF AcceptFails, AcceptTimerExpires, ListenTimerExpires
  <2>2. \E w \in {"failed", "acceptTimer", "listen"} :
          strand' = Append(strand, Handler(w, NoConn))
    BY <1>2 DEF AcceptFails, AcceptTimerExpires, ListenTimerExpires
  <2>3. QueuedIn(strand') = QueuedIn(strand) /\ LoneIn(strand')
    BY <1>0, <2>2, QueueKeepsAccepts
  <2> QED BY <2>1, <2>3, PoolUntouched DEF Starting
<1>3. CASE PeerReads
  <2>1. /\ UNCHANGED <<pool, sessions, removing, closed, posted, made, strand>>
        /\ doing.step = "write" /\ doing'.step = "walk"
    BY <1>0, <1>3 DEF PeerReads, TypeOK, Doings
  <2> QED BY <1>0, <2>1, PoolUntouched DEF Starting
<1>4. ASSUME NEW c \in Conns, SessionFails(c)
      PROVE  PoolInv'
  <2>1. UNCHANGED <<pool, sessions, removing, closed, made, doing, strand>> /\ Post(c, "error")
    BY <1>4 DEF SessionFails
  <2>2. Failing' = Failing \cup {c} /\ Closing' = Closing
    BY <1>0, <2>1, PostSets
  <2>3. Fresh' = Fresh /\ Starting' = Starting
    BY <2>1 DEF Fresh, Starting
  <2> QED BY <2>1, <2>2, <2>3 DEF PoolInv
<1>5. ASSUME NEW c \in Conns, HandleConnectionError(c)
      PROVE  PoolInv'
  <2>1. /\ UNCHANGED <<pool, made, doing, strand>> /\ Done(c)
        /\ posted[c] # << >> /\ Head(posted[c]) = "error"
        /\ \/ /\ c \in sessions /\ sessions' = sessions \ {c}
              /\ closed' = closed \cup {c} /\ removing' = removing \cup {c}
           \/ c \notin sessions /\ UNCHANGED <<sessions, closed, removing>>
    BY <1>5 DEF HandleConnectionError, RunsAt, DoClose
  <2>2. Closing' = Closing /\ Failing \ {c} \subseteq Failing'
    BY <1>0, <2>1, DoneSets
  <2>3. Fresh' = Fresh /\ Starting' = Starting
    BY <2>1 DEF Fresh, Starting
  <2> QED BY <2>1, <2>2, <2>3 DEF PoolInv
<1>6. ASSUME NEW c \in Conns, RemoveConnection(c)
      PROVE  PoolInv'
  <2>1. /\ UNCHANGED <<sessions, closed, made, doing, strand>> /\ Post(c, "close")
        /\ c \in removing /\ removing' = removing \ {c} /\ pool' = pool \ {c}
    BY <1>6 DEF RemoveConnection
  <2>2. Closing' = Closing \cup {c} /\ Failing' = Failing
    BY <1>0, <2>1, PostSets
  <2>3. Fresh' = Fresh /\ Starting' = Starting
    BY <2>1 DEF Fresh, Starting
  <2> QED BY <2>1, <2>2, <2>3 DEF PoolInv
<1>7. ASSUME NEW c \in Conns, HandleClose(c)
      PROVE  PoolInv'
  <2>1. /\ UNCHANGED <<pool, removing, made, doing, strand>> /\ Done(c)
        /\ posted[c] # << >> /\ Head(posted[c]) = "close"
        /\ sessions' = sessions \ {c} /\ closed' = closed \cup {c}
    BY <1>7 DEF HandleClose, RunsAt, DoClose
  <2>2. /\ Failing' = Failing /\ c \in Closing
        /\ Closing \ {c} \subseteq Closing' /\ Closing' \subseteq Closing
    BY <1>0, <2>1, DoneSets
  <2>3. Fresh' = Fresh /\ Starting' = Starting
    BY <2>1 DEF Fresh, Starting
  <2> QED BY <2>1, <2>2, <2>3 DEF PoolInv
<1> QED BY <1>1, <1>2, <1>3, <1>4, <1>5, <1>6, <1>7 DEF ConnStrand

LEMMA StrandPool ==
  ASSUME TypeInv, PoolInv, AcceptorStrand
  PROVE  PoolInv'
<1> USE DEF acceptor, acceptorStrand, connVars, appVars
<1>0. strand \in Seq(Handlers) /\ LoneIn(strand) /\ TypeOK /\ Idle.step = "idle"
  BY DEF TypeInv, TypeOK, PoolInv, Idle
<1>1. ASSUME strand # << >>, Head(strand).what # "accepted"
      PROVE  /\ QueuedIn(Tail(strand)) = QueuedIn(strand) /\ LoneIn(Tail(strand))
             /\ QueuedIn(Append(Tail(strand), Handler("failed", NoConn))) = QueuedIn(strand)
             /\ LoneIn(Append(Tail(strand), Handler("failed", NoConn)))
  <2>1. Tail(strand) \in Seq(Handlers)
    BY <1>0, <1>1, QueueTypes
  <2>2. QueuedIn(Tail(strand)) = QueuedIn(strand) /\ LoneIn(Tail(strand))
    BY <1>0, <1>1, QueuedTail
  <2> QED BY <2>1, <2>2, QueueKeepsAccepts
<1>2. CASE StartAccept \/ HandleAcceptError \/ BroadcastAsync
  <2>1. /\ UNCHANGED <<pool, sessions, removing, closed, posted, made, doing>>
        /\ strand # << >> /\ Head(strand).what # "accepted"
        /\ strand' \in {Tail(strand), Append(Tail(strand), Handler("failed", NoConn))}
    BY <1>2 DEF StartAccept, HandleAcceptError, BroadcastAsync, Runs, BeginAccept
  <2>2. QueuedIn(strand') = QueuedIn(strand) /\ LoneIn(strand')
    BY <1>1, <2>1
  <2> QED BY <2>1, <2>2, PoolUntouched DEF Starting
<1>3. CASE OnListenTimer \/ BroadcastBegins
  <2>1. /\ UNCHANGED <<pool, sessions, removing, closed, posted, made>>
        /\ strand # << >> /\ Head(strand).what # "accepted" /\ strand' = Tail(strand)
        /\ doing.step = "idle"
    BY <1>0, <1>3 DEF OnListenTimer, BroadcastBegins, Runs
  <2>2. doing'.step # "start"
    BY <1>3, DoingSteps DEF OnListenTimer, BroadcastBegins
  <2>3. QueuedIn(strand') = QueuedIn(strand) /\ LoneIn(strand')
    BY <1>1, <2>1
  <2> QED BY <2>1, <2>2, <2>3, PoolUntouched DEF Starting
<1>4. CASE Listen \/ BroadcastNext
  <2>1. /\ UNCHANGED <<pool, sessions, removing, closed, posted, made, strand>>
        /\ doing.step \in {"open", "walk"}
    BY <1>4 DEF Listen, BroadcastNext
  <2>2. doing'.step # "start"
    <3>1. CASE Listen
      BY <1>0, <3>1 DEF Listen
    <3>2. CASE BroadcastNext
      <4>1. \/ doing' = Idle
            \/ \E c \in doing.left : \/ doing' = [doing EXCEPT !.left = @ \ {c}]
                                     \/ doing' = [step |-> "write", conn |-> c,
                                                  left |-> doing.left \ {c}]
        BY <3>2 DEF BroadcastNext
      <4>2. doing \in Doings
        BY DEF TypeInv, TypeOK
      <4>4. ASSUME NEW c \in doing.left, \/ doing' = [doing EXCEPT !.left = @ \ {c}]
                                         \/ doing' = [step |-> "write", conn |-> c,
                                                      left |-> doing.left \ {c}]
            PROVE  doing'.step # "start"
        <5>1. CASE doing' = [doing EXCEPT !.left = @ \ {c}]
          <6>1. doing'.step = doing.step
            BY <4>2, <5>1, WalkGoesOn
          <6> QED BY <2>1, <6>1
        <5>2. CASE doing' = [step |-> "write", conn |-> c, left |-> doing.left \ {c}]
          BY <5>2
        <5> QED BY <4>4, <5>1, <5>2
      <4>5. CASE doing' = Idle
        BY <1>0, <4>5
      <4> QED BY <4>1, <4>4, <4>5
    <3> QED BY <1>4, <3>1, <3>2
  <2> QED BY <1>0, <2>1, <2>2, PoolUntouched DEF Starting
<1>5. CASE WriteFails
  <2>1. /\ UNCHANGED <<pool, sessions, removing, closed, made, strand>>
        /\ Post(doing.conn, "error") /\ doing.conn \in Conns
        /\ doing.step = "write"
    BY <1>5 DEF WriteFails, TypeInv, DoingConn
  <2>2. doing'.step = "walk"
    BY <1>0, <1>5 DEF WriteFails, TypeOK, Doings
  <2>3. Failing' = Failing \cup {doing.conn} /\ Closing' = Closing
    BY <1>0, <2>1, PostSets
  <2>4. Fresh' = Fresh /\ Starting' = Starting
    BY <2>1, <2>2 DEF Fresh, Starting
  <2> QED BY <2>1, <2>3, <2>4 DEF PoolInv
<1>6. CASE HandleAccept
  <2> DEFINE c == Head(strand).conn
  <2>1. /\ strand # << >> /\ Head(strand) = Handler("accepted", c) /\ c \in Conns
        /\ doing = Idle
    <3>1. strand # << >> /\ Head(strand).what = "accepted" /\ doing = Idle
      BY <1>6 DEF HandleAccept, Runs
    <3>2. Head(strand) \in Handlers
      BY <1>0, <3>1, QueueTypes
    <3> QED BY <3>1, <3>2, AcceptedIsConn
  <2>2. /\ UNCHANGED <<sessions, removing, closed, posted, made>> /\ strand' = Tail(strand)
        /\ pool' = pool \cup {c} /\ Starting' = {c}
    BY <1>6 DEF HandleAccept, Starting, Idle
  <2> HIDE DEF c
  <2>3. Starting = {}
    BY <1>0, <2>1 DEF Starting
  <2>4. c \in QueuedIn(strand) /\ QueuedIn(strand') = QueuedIn(strand) \ {c} /\ LoneIn(strand')
    BY <1>0, <2>1, <2>2, QueuedTail
  <2>5. Closing' = Closing /\ Failing' = Failing /\ Fresh' = Fresh
    BY <2>2 DEF Closing, Failing, Fresh
  <2> QED BY <2>2, <2>3, <2>4, <2>5 DEF PoolInv
<1>7. CASE StartConnection
  <2> DEFINE c == doing.conn
  <2>1. /\ UNCHANGED <<pool, removing, closed, made>>
        /\ c \in Conns /\ sessions' = sessions \cup {c}
        /\ strand' \in {strand, Append(strand, Handler("failed", NoConn))}
        /\ Starting = {c}
    BY <1>7 DEF StartConnection, BeginAccept, TypeInv, DoingConn, Starting
  <2>2. Starting' = {}
    BY <1>0, <1>7 DEF StartConnection, Starting
  <2>3. QueuedIn(strand') = QueuedIn(strand) /\ LoneIn(strand')
    BY <1>0, <2>1, QueueKeepsAccepts
  <2>4. /\ c \in closed => Post(c, "error")
        /\ c \notin closed => posted' = posted
    BY <1>7 DEF StartConnection
  <2> HIDE DEF c
  <2>5. /\ c \in closed => Failing' = Failing \cup {c} /\ Closing' = Closing
        /\ c \notin closed => Failing' = Failing /\ Closing' = Closing
    BY <1>0, <2>1, <2>4, PostSets DEF Closing, Failing
  <2>6. Fresh' = Fresh
    BY <2>1 DEF Fresh
  <2> QED BY <2>1, <2>2, <2>3, <2>5, <2>6 DEF PoolInv
<1> QED BY <1>2, <1>3, <1>4, <1>5, <1>6, <1>7 DEF AcceptorStrand

LEMMA PoolInvStep == TypeInv /\ PoolInv /\ [Next]_vars => PoolInv'
<1> SUFFICES ASSUME TypeInv, PoolInv, [Next]_vars PROVE PoolInv'
  OBVIOUS
<1>1. CASE Rest \/ UNCHANGED vars
  <2>1. UNCHANGED <<pool, sessions, removing, closed, posted, made, doing, strand>>
    BY <1>1 DEF Rest, vars, acceptorStrand, connVars
  <2> QED BY <2>1, PoolUntouched DEF PoolInv, Starting
<1> QED BY <1>1, ApplicationPool, EnvironmentPool, StrandPool DEF Next

(* Whatever accepts, errors, closes, stops and broadcasts interleave: a    *)
(* session is in the pool, or its end is on the way; a connection in the   *)
(* pool is a session, is being started, or is about to be removed.         *)
THEOREM PoolAgreement == Spec => []PoolAgrees
BY TypeInvInit, TypeInvStep, PoolInvInit, PoolInvStep, PoolInvIsEnough, PTL DEF Spec

-----------------------------------------------------------------------------
(***************************************************************************)
(* The end of accepting.  Without a failed bind only a start after a stop  *)
(* sets the listen timer, and m_bStopped, which nothing resets, keeps its  *)
(* handler from opening the acceptor.                                      *)
(***************************************************************************)
ListenHandlers == {h \in Handlers : h.what = "listen"}
Listening == listenTimer \/ At(strand, ListenHandlers) # {}

EverBound == calls.bind = 0 /\ calls.start <= 1

StopInv ==
  /\ ~open => accepts = 0
  /\ EverBound =>
       /\ doing.step # "open"
       /\ Listening => stopped
       /\ autoBind /\ ~open /\ app = "idle" => stopped
       /\ app \in {"cancelListen", "setStopped", "removeAll"} => ~open
       /\ app = "removeAll" => stopped
       /\ lastCall = "stop" => ~open

(* The counters of the calls only grow. *)
LEMMA CallsGrow ==
  ASSUME TypeInv, [Next]_vars
  PROVE  /\ calls.start <= calls'.start /\ calls.bind <= calls'.bind
         /\ calls.stop <= calls'.stop
         /\ calls.start \in Nat /\ calls.bind \in Nat /\ calls.stop \in Nat
         /\ calls'.start \in Nat /\ calls'.bind \in Nat /\ calls'.stop \in Nat
<1>1. \/ UNCHANGED calls
      \/ \E what \in DOMAIN Limit : Counted(what)
      \/ calls' = [calls EXCEPT !.start = @ + 1, !.bind = @ + 1]
  BY DEF Limit, Next, StartListening, StartWithoutPort, StopCancelsAccept, StopGoesOn, StopCloses,
     StopCancelsListen, StopSetsStopped, RemoveAllConnections, SendDataToClients, Accepted,
     AcceptFails, AcceptTimerExpires, ListenTimerExpires, AcceptorStrand, StartAccept,
     HandleAccept, StartConnection, HandleAcceptError, OnListenTimer, Listen, BroadcastAsync,
     BroadcastBegins, BroadcastNext, WriteFails, PeerReads, SessionFails, ConnStrand,
     HandleConnectionError, RemoveConnection, HandleClose, Rest, vars
<1>2. calls \in [{"start", "stop", "bind", "accept", "broadcast"} -> Nat]
  BY DEF TypeInv, TypeOK, Limit
<1>3. ASSUME NEW what \in DOMAIN Limit, Counted(what)
      PROVE  \A w \in {"start", "stop", "bind"} : calls'[w] \in {calls[w], calls[w] + 1}
  BY <1>2, <1>3 DEF Counted
<1>4. ASSUME calls' = [calls EXCEPT !.start = @ + 1, !.bind = @ + 1]
      PROVE  \A w \in {"start", "stop", "bind"} : calls'[w] \in {calls[w], calls[w] + 1}
  BY <1>2, <1>4
<1>5. \A w \in {"start", "stop", "bind"} : calls'[w] \in {calls[w], calls[w] + 1} /\ calls[w] \in Nat
  BY <1>1, <1>2, <1>3, <1>4
<1>6. /\ calls'["start"] \in {calls["start"], calls["start"] + 1} /\ calls["start"] \in Nat
      /\ calls'["bind"] \in {calls["bind"], calls["bind"] + 1} /\ calls["bind"] \in Nat
      /\ calls'["stop"] \in {calls["stop"], calls["stop"] + 1} /\ calls["stop"] \in Nat
  BY <1>5
<1> QED BY <1>6

LEMMA OthersDoNotListen ==
  ASSUME NEW queue \in Seq(Handlers)
  PROVE  /\ \A h \in Handlers : h.what # "listen" =>
              At(Append(queue, h), ListenHandlers) = At(queue, ListenHandlers)
         /\ queue # << >> /\ At(queue, ListenHandlers) = {} => At(Tail(queue), ListenHandlers) = {}
         /\ \A n \in Nat : At(queue \o Repeat(Handler("failed", NoConn), n), ListenHandlers)
                            = At(queue, ListenHandlers)
<1>1. \A h \in Handlers : h.what # "listen" => h \notin ListenHandlers
  BY DEF ListenHandlers
<1>2. Handler("failed", NoConn) \in Handlers /\ Handler("failed", NoConn).what = "failed"
  BY HandlerTypes DEF Handler
<1> QED BY <1>1, <1>2, AtAppend, AtTail, AtRepeat

(* Steps that leave the acceptor alone. *)
LEMMA StopUntouched ==
  ASSUME StopInv, EverBound' => EverBound,
         UNCHANGED <<autoBind, open, accepts, stopped, listenTimer, app, lastCall>>,
         doing'.step = "open" => doing.step = "open",
         At(strand, ListenHandlers) = {} => At(strand', ListenHandlers) = {}
  PROVE  StopInv'
BY DEF StopInv, Listening

LEMMA ApplicationStop ==
  ASSUME TypeInv, StopInv, EverBound' => EverBound,
         \/ StartListening \/ StartWithoutPort \/ StopCancelsAccept \/ StopGoesOn
         \/ SendDataToClients
  PROVE  StopInv'
<1> USE DEF acceptor, acceptorStrand, connVars, appVars
<1>0. strand \in Seq(Handlers) /\ accepts \in Nat
  BY DEF TypeInv, TypeOK
<1>1. \A w : Handler(w, NoConn).what = w
  BY DEF Handler
<1>2. CASE StartListening
  <2>1. At(strand', ListenHandlers) = At(strand, ListenHandlers)
    <3>1. /\ strand' = Append(strand, Handler("startAccept", NoConn))
          /\ Handler("startAccept", NoConn) \in Handlers
      BY <1>2, HandlerTypes DEF StartListening
    <3> QED BY <1>0, <1>1, <3>1, OthersDoNotListen
  <2>2. /\ open' /\ lastCall' = "start" /\ app = "idle"
        /\ UNCHANGED <<autoBind, stopped, listenTimer, app, doing>>
    BY <1>2 DEF StartListening
  <2> QED BY <2>1, <2>2 DEF StopInv, Listening
<1>3. CASE StartWithoutPort
  <2>1. /\ UNCHANGED <<autoBind, open, accepts, stopped, app, strand, doing>>
        /\ ~open /\ app = "idle" /\ lastCall' \in {lastCall, "start"}
    BY <1>3 DEF StartWithoutPort
  <2>2. EverBound' => autoBind
    <3>1. ~autoBind => calls' = [calls EXCEPT !.start = @ + 1, !.bind = @ + 1]
      BY <1>3 DEF StartWithoutPort
    <3>2. calls \in [{"start", "stop", "bind", "accept", "broadcast"} -> Nat]
      BY DEF TypeInv, TypeOK, Limit
    <3>3. ~autoBind => calls'.bind = calls.bind + 1 /\ calls.bind \in Nat
      BY <3>1, <3>2
    <3> QED BY <3>3 DEF EverBound
  <2>3. EverBound' => stopped
    BY <2>1, <2>2 DEF StopInv
  <2> QED BY <2>1, <2>3 DEF StopInv, Listening
<1>4. CASE StopCancelsAccept
  BY <1>4 DEF StopCancelsAccept, StopInv, Listening
<1>5. CASE StopCloses
  <2>1. At(strand', ListenHandlers) = At(strand, ListenHandlers)
    BY <1>0, <1>5, OthersDoNotListen DEF StopCloses
  <2>2. /\ ~open' /\ accepts' = 0 /\ app' = "cancelListen"
        /\ UNCHANGED <<autoBind, stopped, listenTimer, doing, lastCall>>
    BY <1>5 DEF StopCloses
  <2> QED BY <2>1, <2>2 DEF StopInv, Listening
<1>6. CASE StopCancelsListen
  BY <1>6 DEF StopCancelsListen, StopInv, Listening
<1>7. CASE StopSetsStopped
  BY <1>7 DEF StopSetsStopped, StopInv, Listening
<1>8. CASE RemoveAllConnections
  BY <1>8 DEF RemoveAllConnections, StopInv, Listening
<1>9. CASE SendDataToClients
  <2>1. \E w \in {"broadcast", "broadcastSync"} : strand' = Append(strand, Handler(w, NoConn))
    BY <1>9 DEF SendDataToClients
  <2>2. At(strand', ListenHandlers) = At(strand, ListenHandlers)
    <3>1. PICK w \in {"broadcast", "broadcastSync"} : strand' = Append(strand, Handler(w, NoConn))
      BY <2>1
    <3>2. Handler(w, NoConn) \in Handlers /\ Handler(w, NoConn).what # "listen"
      BY <1>1, HandlerTypes
    <3> QED BY <1>0, <3>1, <3>2, OthersDoNotListen
  <2> QED BY <1>9, <2>2, StopUntouched DEF SendDataToClients
<1> QED BY <1>2, <1>3, <1>4, <1>5, <1>6, <1>7, <1>8, <1>9 DEF StopGoesOn

LEMMA EnvironmentStop ==
  ASSUME TypeInv, StopInv, EverBound' => EverBound,
         \/ Accepted \/ AcceptFails \/ AcceptTimerExpires \/ ListenTimerExpires
         \/ PeerReads \/ \E c \in Conns : SessionFails(c) \/ ConnStrand(c)
  PROVE  StopInv'
<1> USE DEF acceptor, acceptorStrand, connVars, appVars
<1>0. strand \in Seq(Handlers) /\ accepts \in Nat
  BY DEF TypeInv, TypeOK
<1>1. CASE Accepted \/ AcceptFails
  <2>1. /\ accepts > 0 /\ UNCHANGED <<autoBind, open, stopped, listenTimer, app, lastCall, doing>>
        /\ \/ /\ strand' = Append(strand, Handler("accepted", made + 1)) /\ made < MaxConns
           \/ strand' = Append(strand, Handler("failed", NoConn))
    BY <1>1 DEF Accepted, AcceptFails
  <2>2. open
    BY <1>0, <2>1 DEF StopInv
  <2>3. At(strand', ListenHandlers) = At(strand, ListenHandlers)
    <3>1. made < MaxConns => made + 1 \in Conns
      BY ServerAssumption DEF Conns, TypeInv, TypeOK
    <3>2. /\ made < MaxConns => Handler("accepted", made + 1) \in Handlers
          /\ Handler("accepted", made + 1).what # "listen"
          /\ Handler("failed", NoConn) \in Handlers /\ Handler("failed", NoConn).what # "listen"
      BY <3>1, HandlerTypes DEF Handler
    <3>3. CASE strand' = Append(strand, Handler("accepted", made + 1)) /\ made < MaxConns
      BY <1>0, <3>2, <3>3, OthersDoNotListen
    <3>4. CASE strand' = Append(strand, Handler("failed", NoConn))
      BY <1>0, <3>2, <3>4, OthersDoNotListen
    <3> QED BY <2>1, <3>3, <3>4
  <2> QED BY <2>1, <2>2, <2>3 DEF StopInv, Listening
<1>2. CASE AcceptTimerExpires
  <2>1. Handler("acceptTimer", NoConn) \in Handlers /\ Handler("acceptTimer", NoConn).what # "listen"
    BY HandlerTypes DEF Handler
  <2>2. At(strand', ListenHandlers) = At(strand, ListenHandlers)
    BY <1>0, <1>2, <2>1, OthersDoNotListen DEF AcceptTimerExpires
  <2> QED BY <1>2, <2>2, StopUntouched DEF AcceptTimerExpires
<1>3. CASE ListenTimerExpires
  <2>1. /\ UNCHANGED <<autoBind, open, accepts, stopped, app, lastCall, doing>> /\ listenTimer
    BY <1>3 DEF ListenTimerExpires
  <2> QED BY <2>1 DEF StopInv, Listening
<1>4. CASE PeerReads
  <2>1. doing'.step = "walk"
    BY <1>4 DEF PeerReads, TypeInv, TypeOK, Doings
  <2> QED BY <1>4, <2>1, StopUntouched DEF PeerReads
<1>5. ASSUME NEW c \in Conns, SessionFails(c) \/ ConnStrand(c)
      PROVE  StopInv'
  <2>1. UNCHANGED <<autoBind, open, accepts, stopped, listenTimer, app, lastCall, doing, strand>>
    BY <1>5 DEF SessionFails, ConnStrand, HandleConnectionError, RemoveConnection, HandleClose
  <2> QED BY <2>1, StopUntouched
<1> QED BY <1>1, <1>2, <1>3, <1>4, <1>5

LEMMA StrandStop ==
  ASSUME TypeInv, StopInv, EverBound' => EverBound, AcceptorStrand
  PROVE  StopInv'
<1> USE DEF acceptor, acceptorStrand, connVars, appVars
<1>0. /\ strand \in Seq(Handlers) /\ accepts \in Nat
      /\ strand # << >> => Tail(strand) \in Seq(Handlers)
  BY QueueTypes DEF TypeInv, TypeOK
<1>1. /\ Handler("failed", NoConn) \in Handlers /\ Handler("failed", NoConn).what # "listen"
  BY HandlerTypes DEF Handler
<1>2. strand # << >> /\ At(strand, ListenHandlers) = {}
        => /\ At(Tail(strand), ListenHandlers) = {}
           /\ At(Append(Tail(strand), Handler("failed", NoConn)), ListenHandlers) = {}
  BY <1>0, <1>1, OthersDoNotListen
<1>3. CASE StartAccept \/ StartConnection
  <2>1. /\ UNCHANGED <<autoBind, open, stopped, listenTimer, app, lastCall>>
        /\ open \/ accepts' = accepts
    BY <1>3 DEF StartAccept, StartConnection, BeginAccept
  <2>2. doing'.step = "open" => doing.step = "open"
    BY <1>3, DoingSteps DEF StartAccept, StartConnection
  <2>3. At(strand, ListenHandlers) = {} => At(strand', ListenHandlers) = {}
    <3>1. CASE StartAccept
      BY <1>2, <3>1 DEF StartAccept, Runs, BeginAccept
    <3>2. CASE StartConnection
      <4>1. strand' \in {strand, Append(strand, Handler("failed", NoConn))}
        BY <3>2 DEF StartConnection, BeginAccept
      <4>2. At(Append(strand, Handler("failed", NoConn)), ListenHandlers)
              = At(strand, ListenHandlers)
        BY <1>0, <1>1, OthersDoNotListen
      <4> QED BY <4>1, <4>2
    <3> QED BY <1>3, <3>1, <3>2
  <2> QED BY <2>1, <2>2, <2>3 DEF StopInv, Listening
<1>4. CASE HandleAccept \/ HandleAcceptError \/ BroadcastAsync \/ BroadcastBegins
  <2>1. /\ UNCHANGED <<autoBind, open, accepts, stopped, listenTimer, app, lastCall>>
        /\ strand' = Tail(strand) /\ strand # << >>
    BY <1>4 DEF HandleAccept, HandleAcceptError, BroadcastAsync, BroadcastBegins, Runs
  <2>2. doing'.step = "open" => doing.step = "open"
    BY <1>4, DoingSteps DEF HandleAccept, HandleAcceptError, BroadcastAsync, BroadcastBegins
  <2> QED BY <1>2, <2>1, <2>2, StopUntouched
<1>5. CASE OnListenTimer
  <2>1. /\ UNCHANGED <<autoBind, open, accepts, stopped, listenTimer, app, lastCall>>
        /\ strand' = Tail(strand) /\ strand # << >> /\ Head(strand).what = "listen"
        /\ stopped => doing' = Idle
    BY <1>5 DEF OnListenTimer, Runs
  <2>2. At(strand, ListenHandlers) # {}
    <3>1. Head(strand) \in ListenHandlers
      BY <1>0, <2>1, QueueTypes DEF ListenHandlers
    <3> QED BY <1>0, <2>1, <3>1, AtTail
  <2>3. EverBound => doing' = Idle
    BY <2>1, <2>2 DEF StopInv, Listening
  <2> QED BY <1>2, <2>1, <2>2, <2>3, DoingSteps DEF StopInv, Listening
<1>6. CASE Listen
  <2>1. ~EverBound
    BY <1>6 DEF Listen, StopInv
  <2>2. ~open' => accepts' = accepts /\ ~open
    BY <1>6 DEF Listen
  <2> QED BY <2>1, <2>2 DEF StopInv
<1>7. CASE BroadcastNext
  <2>1. doing'.step # "open"
    <3>1. \/ doing' = Idle
          \/ \E c \in doing.left : \/ doing' = [doing EXCEPT !.left = @ \ {c}]
                                   \/ doing' = [step |-> "write", conn |-> c,
                                                left |-> doing.left \ {c}]
      BY <1>7 DEF BroadcastNext
    <3>2. ASSUME NEW c, doing' = [doing EXCEPT !.left = @ \ {c}]
          PROVE  doing'.step = "walk"
      BY <1>7, <3>2, WalkGoesOn DEF BroadcastNext, TypeInv, TypeOK
    <3>3. ASSUME NEW c, doing' = [step |-> "write", conn |-> c, left |-> doing.left \ {c}]
          PROVE  doing'.step = "write"
      BY <3>3
    <3> QED BY <3>1, <3>2, <3>3, DoingSteps
  <2> QED BY <1>7, <2>1, StopUntouched DEF BroadcastNext
<1>8. CASE WriteFails
  <2>1. doing'.step = "walk"
    BY <1>8 DEF WriteFails, TypeInv, TypeOK, Doings
  <2> QED BY <1>8, <2>1, StopUntouched DEF WriteFails
<1> QED BY <1>3, <1>4, <1>5, <1>6, <1>7, <1>8 DEF AcceptorStrand

LEMMA StopInvStep == TypeInv /\ StopInv /\ [Next]_vars => StopInv'
<1> SUFFICES ASSUME TypeInv, StopInv, [Next]_vars PROVE StopInv'
  OBVIOUS
<1>1. EverBound' => EverBound
  BY CallsGrow DEF EverBound
<1>2. CASE Rest \/ UNCHANGED vars
  <2>1. UNCHANGED <<autoBind, open, accepts, stopped, listenTimer, app, lastCall, doing, strand>>
    BY <1>2 DEF Rest, vars, acceptor, acceptorStrand, appVars
  <2> QED BY <1>1, <2>1, StopUntouched
<1> QED BY <1>1, <1>2, ApplicationStop, EnvironmentStop, StrandStop DEF Next

(* Neither an accept that completed or failed in time nor a timer that had *)
(* expired brings the accept loop back after stop.                         *)
THEOREM StopIsFinal == Spec => []StopEndsAccepting
<1>1. Init => StopInv
  <2>1. At(<< >>, ListenHandlers) = {}
    BY DEF At
  <2> QED BY <2>1, DoingSteps DEF Init, StopInv, Listening
<1>2. StopInv => StopEndsAccepting
  BY DEF StopInv, StopEndsAccepting, EverBound
<1> QED BY TypeInvInit, TypeInvStep, <1>1, StopInvStep, <1>2, PTL DEF Spec

-----------------------------------------------------------------------------
(***************************************************************************)
(* The accept loop of a server that was started once and not stopped is a  *)
(* single chain, and this is where it can be: nowhere before start, at an  *)
(* outstanding accept, in the queue of the strand, at one of the timers,   *)
(* in handleAccept or in onListenTimer.                                    *)
(***************************************************************************)
Places == {"none", "accept", "queue", "listenQueue", "acceptTimer", "listenTimer",
           "start", "open"}

AcceptHandlers == {h \in Handlers : h.what \in {"startAccept", "accepted", "failed", "acceptTimer"}}

Waits(queue, k) ==
  /\ At(queue, AcceptHandlers) # {} <=> k = "queue"
  /\ At(queue, ListenHandlers) # {} <=> k = "listenQueue"
  /\ Lone(queue, AcceptHandlers) /\ Lone(queue, ListenHandlers)

Outstanding(k) == IF k = "accept" THEN 1 ELSE 0

ChainAt(k) ==
  /\ accepts = Outstanding(k)
  /\ Waits(strand, k)
  /\ acceptTimer <=> k = "acceptTimer"
  /\ listenTimer <=> k = "listenTimer"
  /\ doing.step = "start" <=> k = "start"
  /\ doing.step = "open" <=> k = "open"
  /\ k # "none" => (open <=> k \notin {"listenQueue", "listenTimer", "open"})

ChainInv ==
  calls.stop = 0 =>
    /\ app = "idle" /\ ~stopped
    /\ calls.start = 0 => lastCall # "start" /\ ChainAt("none")
    /\ calls.start = 1 /\ lastCall = "start" =>
         \E k \in Places \ {"none"} : ChainAt(k)

LEMMA ChainHandlers ==
  /\ \A w \in {"startAccept", "failed", "acceptTimer"} : Handler(w, NoConn) \in AcceptHandlers
  /\ \A c \in Conns : Handler("accepted", c) \in AcceptHandlers
  /\ Handler("listen", NoConn) \in ListenHandlers
  /\ \A h \in Handlers : /\ h \in AcceptHandlers => h \notin ListenHandlers
                         /\ h.what \in {"broadcast", "broadcastSync"}
                              => h \notin AcceptHandlers /\ h \notin ListenHandlers
  /\ \A w \in {"broadcast", "broadcastSync"} : /\ Handler(w, NoConn) \in Handlers
                                               /\ Handler(w, NoConn).what = w
BY HandlerTypes DEF AcceptHandlers, ListenHandlers, Handler

LEMMA WaitsAppend ==
  ASSUME NEW queue \in Seq(Handlers), NEW h \in Handlers, NEW k, Waits(queue, k)
  PROVE  /\ h \notin AcceptHandlers /\ h \notin ListenHandlers => Waits(Append(queue, h), k)
         /\ h \in AcceptHandlers /\ k \notin {"queue", "listenQueue"}
              => Waits(Append(queue, h), "queue")
         /\ h \in ListenHandlers /\ k \notin {"queue", "listenQueue"}
              => Waits(Append(queue, h), "listenQueue")
<1>1. h \in AcceptHandlers => h \notin ListenHandlers
  BY ChainHandlers
<1>2. ASSUME NEW hs
      PROVE  /\ h \notin hs => At(Append(queue, h), hs) = At(queue, hs)
             /\ h \in hs => At(Append(queue, h), hs) # {}
             /\ At(queue, hs) = {} => Lone(Append(queue, h), hs)
             /\ h \notin hs /\ Lone(queue, hs) => Lone(Append(queue, h), hs)
  <2>1. /\ h \notin hs => At(Append(queue, h), hs) = At(queue, hs)
        /\ h \in hs => At(Append(queue, h), hs) # {}
        /\ At(queue, hs) = {} => Lone(Append(queue, h), hs)
    BY AtAppend
  <2> QED BY <2>1 DEF Lone
<1>3. CASE h \notin AcceptHandlers /\ h \notin ListenHandlers
  BY <1>2, <1>3 DEF Waits
<1>4. CASE h \in AcceptHandlers
  BY <1>1, <1>2, <1>4 DEF Waits
<1>5. CASE h \in ListenHandlers
  BY <1>1, <1>2, <1>5 DEF Waits
<1> QED BY <1>3, <1>4, <1>5

LEMMA WaitsTail ==
  ASSUME NEW queue \in Seq(Handlers), queue # << >>, NEW k, Waits(queue, k)
  PROVE  /\ Head(queue) \notin AcceptHandlers /\ Head(queue) \notin ListenHandlers
              => Waits(Tail(queue), k)
         /\ Head(queue) \in AcceptHandlers => k = "queue" /\ Waits(Tail(queue), "none")
         /\ Head(queue) \in ListenHandlers => k = "listenQueue" /\ Waits(Tail(queue), "none")
<1>1. Head(queue) \in Handlers
  BY QueueTypes
<1>2. Head(queue) \in AcceptHandlers => Head(queue) \notin ListenHandlers
  BY <1>1, ChainHandlers
<1>3. ASSUME NEW hs
      PROVE  /\ At(queue, hs) = {} => At(Tail(queue), hs) = {}
             /\ Lone(queue, hs) => Lone(Tail(queue), hs)
             /\ Lone(queue, hs) /\ Head(queue) \in hs => At(Tail(queue), hs) = {}
             /\ Head(queue) \in hs => At(queue, hs) # {}
             /\ Head(queue) \notin hs /\ At(queue, hs) # {} => At(Tail(queue), hs) # {}
  BY AtTail
<1>4. CASE Head(queue) \notin AcceptHandlers /\ Head(queue) \notin ListenHandlers
  BY <1>3, <1>4 DEF Waits
<1>5. CASE Head(queue) \in AcceptHandlers
  <2>1. At(queue, AcceptHandlers) # {} /\ At(Tail(queue), AcceptHandlers) = {}
    BY <1>3, <1>5 DEF Waits
  <2>2. k = "queue" /\ At(Tail(queue), ListenHandlers) = {}
    BY <1>3, <2>1 DEF Waits
  <2> QED BY <1>2, <1>3, <1>5, <2>1, <2>2 DEF Waits
<1>6. CASE Head(queue) \in ListenHandlers
  <2>1. At(queue, ListenHandlers) # {} /\ At(Tail(queue), ListenHandlers) = {}
    BY <1>3, <1>6 DEF Waits
  <2>2. k = "listenQueue" /\ At(Tail(queue), AcceptHandlers) = {}
    BY <1>3, <2>1 DEF Waits
  <2> QED BY <1>2, <1>3, <1>6, <2>1, <2>2 DEF Waits
<1> QED BY <1>4, <1>5, <1>6

(* A queue without the chain is the same for every place outside of it. *)
LEMMA WaitsElsewhere ==
  ASSUME NEW queue, NEW k, NEW m, Waits(queue, k),
         k \notin {"queue", "listenQueue"}, m \notin {"queue", "listenQueue"}
  PROVE  Waits(queue, m)
BY DEF Waits

(* A step that leaves the acceptor alone, and what it queues aside. *)
LEMMA ChainStays ==
  ASSUME NEW k \in Places, ChainAt(k), UNCHANGED <<open, accepts, acceptTimer, listenTimer>>,
         Waits(strand', k),
         doing'.step = "start" <=> doing.step = "start",
         doing'.step = "open" <=> doing.step = "open"
  PROVE  ChainAt(k)'
BY DEF ChainAt

LEMMA ChainEnvironment ==
  ASSUME TypeInv, ~stopped, NEW k \in Places, ChainAt(k),
         \/ SendDataToClients
         \/ Accepted \/ AcceptFails \/ AcceptTimerExpires \/ ListenTimerExpires
         \/ PeerReads \/ \E c \in Conns : SessionFails(c) \/ ConnStrand(c)
  PROVE  \E m \in Places : ChainAt(m)' /\ (k = "none" <=> m = "none")
<1> USE DEF acceptor, acceptorStrand, connVars, appVars
<1>0. /\ strand \in Seq(Handlers) /\ accepts \in Nat
      /\ Waits(strand, k) /\ accepts = Outstanding(k)
  BY DEF TypeInv, TypeOK, ChainAt
<1>1. CASE SendDataToClients
  <2>1. PICK w \in {"broadcast", "broadcastSync"} : strand' = Append(strand, Handler(w, NoConn))
    BY <1>1 DEF SendDataToClients
  <2>2. Waits(strand', k)
    BY <1>0, <2>1, ChainHandlers, WaitsAppend
  <2> QED BY <1>1, <2>2, ChainStays DEF SendDataToClients
<1>2. CASE Accepted \/ AcceptFails
  <2>1. /\ accepts > 0 /\ accepts' = accepts - 1
        /\ UNCHANGED <<open, acceptTimer, listenTimer, doing>>
        /\ \E h \in AcceptHandlers \cap Handlers : strand' = Append(strand, h)
    <3>1. CASE Accepted
      <4>1. made + 1 \in Conns
        BY <3>1, ServerAssumption DEF Accepted, Conns, TypeInv, TypeOK
      <4>2. Handler("accepted", made + 1) \in AcceptHandlers \cap Handlers
        BY <4>1, ChainHandlers, HandlerTypes
      <4> QED BY <3>1, <4>2 DEF Accepted
    <3>2. CASE AcceptFails
      <4>1. Handler("failed", NoConn) \in AcceptHandlers \cap Handlers
        BY ChainHandlers, HandlerTypes
      <4> QED BY <3>2, <4>1 DEF AcceptFails
    <3> QED BY <1>2, <3>1, <3>2
  <2>2. k = "accept"
    BY <1>0, <2>1 DEF Outstanding
  <2>3. accepts' = Outstanding("queue")
    BY <1>0, <2>1, <2>2 DEF Outstanding
  <2>4. Waits(strand', "queue")
    BY <1>0, <2>1, <2>2, WaitsAppend
  <2>5. ChainAt("queue")'
    BY <2>1, <2>2, <2>3, <2>4 DEF ChainAt
  <2> QED BY <2>2, <2>5 DEF Places
<1>3. CASE AcceptTimerExpires
  <2>1. /\ acceptTimer /\ ~acceptTimer' /\ UNCHANGED <<open, accepts, listenTimer, doing>>
        /\ strand' = Append(strand, Handler("acceptTimer", NoConn))
    BY <1>3 DEF AcceptTimerExpires
  <2>2. k = "acceptTimer"
    BY <2>1 DEF ChainAt
  <2>3. Waits(strand', "queue")
    BY <1>0, <2>1, <2>2, WaitsAppend, ChainHandlers, HandlerTypes
  <2>4. ChainAt("queue")'
    BY <2>1, <2>2, <2>3 DEF ChainAt, Outstanding
  <2> QED BY <2>2, <2>4 DEF Places
<1>4. CASE ListenTimerExpires
  <2>1. /\ listenTimer /\ ~listenTimer' /\ UNCHANGED <<open, accepts, acceptTimer, doing>>
        /\ strand' = Append(strand, Handler("listen", NoConn))
    BY <1>4 DEF ListenTimerExpires
  <2>2. k = "listenTimer"
    BY <2>1 DEF ChainAt
  <2>3. Waits(strand', "listenQueue")
    BY <1>0, <2>1, <2>2, WaitsAppend, ChainHandlers, HandlerTypes
  <2>4. ChainAt("listenQueue")'
    BY <2>1, <2>2, <2>3 DEF ChainAt, Outstanding
  <2> QED BY <2>2, <2>4 DEF Places
<1>5. CASE PeerReads
  <2>1. doing'.step = "walk" /\ doing.step = "write"
    BY <1>5 DEF PeerReads, TypeInv, TypeOK, Doings
  <2> QED BY <1>0, <1>5, <2>1, ChainStays DEF PeerReads
<1>6. ASSUME NEW c \in Conns, SessionFails(c) \/ ConnStrand(c)
      PROVE  \E m \in Places : ChainAt(m)' /\ (k = "none" <=> m = "none")
  <2>1. UNCHANGED <<open, accepts, acceptTimer, listenTimer, doing, strand>>
    BY <1>6 DEF SessionFails, ConnStrand, HandleConnectionError, RemoveConnection, HandleClose
  <2> QED BY <1>0, <2>1, ChainStays
<1> QED BY <1>1, <1>2, <1>3, <1>4, <1>5, <1>6

LEMMA ChainStrand ==
  ASSUME TypeInv, ~stopped, NEW k \in Places, ChainAt(k), AcceptorStrand
  PROVE  \E m \in Places : ChainAt(m)' /\ (k = "none" <=> m = "none")
<1> USE DEF acceptor, acceptorStrand, connVars, appVars
<1>0. /\ strand \in Seq(Handlers) /\ accepts \in Nat
      /\ Waits(strand, k) /\ accepts = Outstanding(k)
      /\ strand # << >> => Head(strand) \in Handlers
  BY QueueTypes DEF TypeInv, TypeOK, ChainAt
<1>1. strand # << >> /\ Head(strand).what \in {"startAccept", "acceptTimer", "accepted", "failed"}
        => /\ k = "queue"
           /\ Waits(Tail(strand), "none")
           /\ \A m \in Places \ {"queue", "listenQueue"} : Waits(Tail(strand), m)
  <2> SUFFICES ASSUME strand # << >>,
                      Head(strand).what \in {"startAccept", "acceptTimer", "accepted", "failed"}
               PROVE  /\ k = "queue" /\ Waits(Tail(strand), "none")
                      /\ \A m \in Places \ {"queue", "listenQueue"} : Waits(Tail(strand), m)
    OBVIOUS
  <2>1. Head(strand) \in AcceptHandlers
    BY <1>0 DEF AcceptHandlers
  <2>2. k = "queue" /\ Waits(Tail(strand), "none")
    BY <1>0, <2>1, WaitsTail
  <2> QED BY <2>2, WaitsElsewhere
<1>2. CASE StartAccept
  <2>1. /\ strand # << >> /\ Head(strand).what \in {"startAccept", "acceptTimer"}
        /\ open => accepts' = accepts + 1 /\ strand' = Tail(strand)
        /\ UNCHANGED <<open, acceptTimer, listenTimer, doing>>
    BY <1>2 DEF StartAccept, Runs, BeginAccept
  <2>2. k = "queue" /\ open /\ Waits(Tail(strand), "accept")
    <3>1. k = "queue" /\ Waits(Tail(strand), "accept")
      BY <1>1, <2>1 DEF Places
    <3> QED BY <3>1 DEF ChainAt
  <2>3. accepts' = Outstanding("accept")
    BY <1>0, <2>1, <2>2 DEF Outstanding
  <2>4. ChainAt("accept")'
    BY <2>1, <2>2, <2>3 DEF ChainAt
  <2> QED BY <2>2, <2>4 DEF Places
<1>3. CASE HandleAccept
  <2>1. /\ strand # << >> /\ Head(strand).what = "accepted" /\ strand' = Tail(strand)
        /\ doing.step = "idle" /\ doing'.step = "start"
        /\ UNCHANGED <<open, accepts, acceptTimer, listenTimer>>
    BY <1>3, DoingSteps DEF HandleAccept, Runs
  <2>2. k = "queue" /\ Waits(strand', "start")
    BY <1>1, <2>1 DEF Places
  <2>3. ChainAt("start")'
    BY <2>1, <2>2 DEF ChainAt, Outstanding
  <2> QED BY <2>2, <2>3 DEF Places
<1>4. CASE StartConnection
  <2>1. /\ doing.step = "start" /\ doing'.step = "idle"
        /\ open => accepts' = accepts + 1 /\ strand' = strand
        /\ UNCHANGED <<open, acceptTimer, listenTimer>>
    BY <1>4, DoingSteps DEF StartConnection, BeginAccept
  <2>2. k = "start" /\ open
    <3>1. k = "start"
      BY <2>1 DEF ChainAt
    <3> QED BY <3>1 DEF ChainAt
  <2>3. Waits(strand', "accept")
    BY <1>0, <2>1, <2>2, WaitsElsewhere
  <2>4. accepts' = Outstanding("accept")
    BY <1>0, <2>1, <2>2 DEF Outstanding
  <2>5. ChainAt("accept")'
    BY <2>1, <2>2, <2>3, <2>4 DEF ChainAt
  <2> QED BY <2>2, <2>5 DEF Places
<1>5. CASE HandleAcceptError
  <2>1. /\ strand # << >> /\ Head(strand).what = "failed" /\ strand' = Tail(strand)
        /\ open => acceptTimer'
        /\ UNCHANGED <<open, accepts, listenTimer, doing>>
    BY <1>5 DEF HandleAcceptError, Runs
  <2>2. k = "queue" /\ Waits(strand', "acceptTimer")
    BY <1>1, <2>1 DEF Places
  <2>3. acceptTimer'
    BY <2>1, <2>2 DEF ChainAt
  <2>4. ChainAt("acceptTimer")'
    BY <2>1, <2>2, <2>3 DEF ChainAt, Outstanding
  <2> QED BY <2>2, <2>4 DEF Places
<1>6. CASE OnListenTimer
  <2>1. /\ strand # << >> /\ Head(strand).what = "listen" /\ strand' = Tail(strand)
        /\ doing.step = "idle" /\ doing'.step = "open"
        /\ UNCHANGED <<open, accepts, acceptTimer, listenTimer>>
    BY <1>6, DoingSteps DEF OnListenTimer, Runs
  <2>2. Head(strand) \in ListenHandlers
    BY <1>0, <2>1 DEF ListenHandlers
  <2>3. k = "listenQueue" /\ Waits(strand', "none")
    BY <1>0, <2>1, <2>2, WaitsTail
  <2>4. Waits(strand', "open")
    BY <2>3, WaitsElsewhere
  <2>5. ChainAt("open")'
    BY <2>1, <2>3, <2>4 DEF ChainAt, Outstanding
  <2> QED BY <2>3, <2>5 DEF Places
<1>7. CASE Listen
  <2>1. /\ doing.step = "open" /\ doing'.step = "idle" /\ UNCHANGED <<acceptTimer, strand>>
        /\ ~open => \/ open' /\ accepts' = accepts + 1 /\ listenTimer' = listenTimer
                    \/ listenTimer' /\ open' = open /\ accepts' = accepts
    BY <1>7, DoingSteps DEF Listen
  <2>2. k = "open" /\ ~open
    <3>1. k = "open"
      BY <2>1 DEF ChainAt
    <3> QED BY <3>1 DEF ChainAt
  <2>3. Waits(strand', "accept") /\ Waits(strand', "listenTimer")
    BY <1>0, <2>1, <2>2, WaitsElsewhere
  <2>4. CASE open' /\ accepts' = accepts + 1 /\ listenTimer' = listenTimer
    <3>1. accepts' = Outstanding("accept")
      BY <1>0, <2>2, <2>4 DEF Outstanding
    <3>2. ~listenTimer' /\ ~acceptTimer'
      BY <2>1, <2>2, <2>4 DEF ChainAt
    <3>3. ChainAt("accept")'
      BY <2>1, <2>3, <2>4, <3>1, <3>2 DEF ChainAt
    <3> QED BY <2>2, <3>3 DEF Places
  <2>5. CASE listenTimer' /\ open' = open /\ accepts' = accepts
    <3>1. /\ ~acceptTimer' /\ ~open'
          /\ accepts' = Outstanding("listenTimer")
      BY <2>1, <2>2, <2>5 DEF ChainAt, Outstanding
    <3>2. ChainAt("listenTimer")'
      BY <2>1, <2>3, <2>5, <3>1 DEF ChainAt
    <3> QED BY <2>2, <3>2 DEF Places
  <2> QED BY <2>1, <2>2, <2>4, <2>5
<1>8. CASE BroadcastAsync \/ BroadcastBegins
  <2>1. /\ strand # << >> /\ Head(strand).what \in {"broadcast", "broadcastSync"}
        /\ strand' = Tail(strand)
        /\ UNCHANGED <<open, accepts, acceptTimer, listenTimer>>
        /\ doing = Idle /\ (doing' = Idle \/ doing'.step = "walk")
    <3>1. CASE BroadcastAsync
      BY <3>1 DEF BroadcastAsync, Runs
    <3>2. CASE BroadcastBegins
      <4>1. doing'.step = "walk"
        BY <3>2, DoingSteps DEF BroadcastBegins
      <4> QED BY <3>2, <4>1 DEF BroadcastBegins, Runs
    <3> QED BY <1>8, <3>1, <3>2
  <2>2. Waits(strand', k)
    BY <1>0, <2>1, ChainHandlers, WaitsTail
  <2> QED BY <2>1, <2>2, DoingSteps, ChainStays
<1>9. CASE BroadcastNext
  <2>1. doing'.step \in {"idle", "walk", "write"}
    <3>1. \/ doing' = Idle
          \/ \E c \in doing.left : \/ doing' = [doing EXCEPT !.left = @ \ {c}]
                                   \/ doing' = [step |-> "write", conn |-> c,
                                                left |-> doing.left \ {c}]
      BY <1>9 DEF BroadcastNext
    <3>2. ASSUME NEW c, doing' = [doing EXCEPT !.left = @ \ {c}]
          PROVE  doing'.step = "walk"
      BY <1>9, <3>2, WalkGoesOn DEF BroadcastNext, TypeInv, TypeOK
    <3>3. ASSUME NEW c, doing' = [step |-> "write", conn |-> c, left |-> doing.left \ {c}]
          PROVE  doing'.step = "write"
      BY <3>3
    <3> QED BY <3>1, <3>2, <3>3, DoingSteps
  <2>2. doing.step = "walk" /\ UNCHANGED <<open, accepts, acceptTimer, listenTimer, strand>>
    BY <1>9 DEF BroadcastNext
  <2> QED BY <1>0, <2>1, <2>2, ChainStays
<1>10. CASE WriteFails
  <2>1. /\ doing'.step = "walk" /\ doing.step = "write"
        /\ UNCHANGED <<open, accepts, acceptTimer, listenTimer, strand>>
    BY <1>10 DEF WriteFails, TypeInv, TypeOK, Doings
  <2> QED BY <1>0, <2>1, ChainStays
<1> QED BY <1>2, <1>3, <1>4, <1>5, <1>6, <1>7, <1>8, <1>9, <1>10 DEF AcceptorStrand

LEMMA ChainInvStep == TypeInv /\ ChainInv /\ [Next]_vars => ChainInv'
<1> SUFFICES ASSUME TypeInv, ChainInv, [Next]_vars, calls'.stop = 0 PROVE ChainInv'
  BY DEF ChainInv
<1> USE DEF acceptor, acceptorStrand, connVars, appVars
<1>1. /\ calls.stop = 0 /\ app = "idle" /\ ~stopped
      /\ calls.start \in Nat /\ calls.start <= calls'.start
  <2>1. /\ calls.stop <= calls'.stop /\ calls.stop \in Nat
        /\ calls.start \in Nat /\ calls.start <= calls'.start
    BY CallsGrow
  <2>2. calls.stop = 0
    BY <2>1
  <2> QED BY <2>1, <2>2 DEF ChainInv
<1>2. CASE StartListening \/ StartWithoutPort
  <2>1. /\ app' = app /\ stopped' = stopped
        /\ UNCHANGED <<accepts, acceptTimer, doing>>
    BY <1>2 DEF StartListening, StartWithoutPort
  <2>2. calls'.start = calls.start + 1
    <3>1. calls \in [{"start", "stop", "bind", "accept", "broadcast"} -> Nat]
      BY DEF TypeInv, TypeOK, Limit
    <3>2. Counted("start") \/ calls' = [calls EXCEPT !.start = @ + 1, !.bind = @ + 1]
      BY <1>2 DEF StartListening, StartWithoutPort
    <3> QED BY <3>1, <3>2 DEF Counted
  <2>3. calls'.start # 0 /\ (calls'.start = 1 => calls.start = 0)
    BY <1>1, <2>2
  <2>4. SUFFICES ASSUME calls.start = 0, lastCall' = "start"
                 PROVE  \E k \in Places \ {"none"} : ChainAt(k)'
    BY <1>1, <2>1, <2>3 DEF ChainInv
  <2>5. /\ ChainAt("none") /\ lastCall # "start" /\ strand \in Seq(Handlers)
        /\ Waits(strand, "none")
    BY <1>1, <2>4 DEF ChainInv, ChainAt, TypeInv, TypeOK
  <2>6. CASE StartListening
    <3>1. /\ strand' = Append(strand, Handler("startAccept", NoConn)) /\ open'
          /\ listenTimer' = listenTimer
      BY <2>6 DEF StartListening
    <3>2. Waits(strand', "queue")
      BY <2>5, <3>1, ChainHandlers, HandlerTypes, WaitsAppend
    <3>3. ChainAt("queue")'
      BY <2>1, <2>5, <3>1, <3>2 DEF ChainAt, Outstanding
    <3> QED BY <3>3 DEF Places
  <2>7. CASE StartWithoutPort
    <3>1. /\ strand' = strand /\ ~open'
          /\ lastCall' = lastCall \/ listenTimer'
      BY <2>7 DEF StartWithoutPort
    <3>2. Waits(strand', "listenTimer")
      BY <2>5, <3>1, WaitsElsewhere
    <3>3. listenTimer'
      BY <2>4, <2>5, <3>1
    <3>4. ChainAt("listenTimer")'
      BY <2>1, <2>5, <3>1, <3>2, <3>3 DEF ChainAt, Outstanding
    <3> QED BY <3>4 DEF Places
  <2> QED BY <1>2, <2>6, <2>7
<1>3. CASE StopCancelsAccept
  <2>1. calls'.stop = calls.stop + 1
    BY <1>3 DEF StopCancelsAccept, Counted, TypeInv, TypeOK, Limit
  <2> QED BY <1>1, <2>1
<1>4. CASE StopGoesOn
  BY <1>1, <1>4 DEF StopGoesOn, StopCloses, StopCancelsListen, StopSetsStopped,
                    RemoveAllConnections
<1>5. CASE \/ SendDataToClients
           \/ Accepted \/ AcceptFails \/ AcceptTimerExpires \/ ListenTimerExpires
           \/ PeerReads \/ \E c \in Conns : SessionFails(c) \/ ConnStrand(c)
           \/ AcceptorStrand
  <2>1. UNCHANGED <<app, lastCall, stopped>>
    BY <1>5 DEF SendDataToClients, Accepted, AcceptFails, AcceptTimerExpires,
       ListenTimerExpires, PeerReads, SessionFails, ConnStrand, HandleConnectionError,
       RemoveConnection, HandleClose, AcceptorStrand, StartAccept, HandleAccept,
       StartConnection, HandleAcceptError, OnListenTimer, Listen, BroadcastAsync,
       BroadcastBegins, BroadcastNext, WriteFails
  <2>2. calls'.start = calls.start
    <3>1. \/ UNCHANGED calls
          \/ \E what \in {"broadcast", "accept", "bind"} : Counted(what)
      BY <1>5 DEF SendDataToClients, Accepted, AcceptFails, AcceptTimerExpires,
         ListenTimerExpires, PeerReads, SessionFails, ConnStrand, HandleConnectionError,
         RemoveConnection, HandleClose, AcceptorStrand, StartAccept, HandleAccept,
         StartConnection, HandleAcceptError, OnListenTimer, Listen, BroadcastAsync,
         BroadcastBegins, BroadcastNext, WriteFails
    <3>2. calls \in [{"start", "stop", "bind", "accept", "broadcast"} -> Nat]
      BY DEF TypeInv, TypeOK, Limit
    <3> QED BY <3>1, <3>2 DEF Counted
  <2>3. ASSUME NEW k \in Places, ChainAt(k)
        PROVE  \E m \in Places : ChainAt(m)' /\ (k = "none" <=> m = "none")
    BY <1>1, <1>5, <2>3, ChainEnvironment, ChainStrand
  <2>4. calls.start = 0 => ChainAt("none")'
    <3>1. "none" \in Places
      BY DEF Places
    <3> QED BY <1>1, <2>3, <3>1 DEF ChainInv
  <2>5. calls.start = 1 /\ lastCall = "start" => \E m \in Places \ {"none"} : ChainAt(m)'
    <3>1. \A k \in Places \ {"none"} : ChainAt(k) => \E m \in Places \ {"none"} : ChainAt(m)'
      BY <2>3
    <3> QED BY <1>1, <3>1 DEF ChainInv
  <2> QED BY <1>1, <2>1, <2>2, <2>4, <2>5 DEF ChainInv
<1>6. CASE Rest \/ UNCHANGED vars
  <2>1. UNCHANGED vars
    BY <1>6 DEF Rest
  <2> QED BY <2>1 DEF ChainInv, ChainAt, vars
<1> QED BY <1>2, <1>3, <1>4, <1>5, <1>6 DEF Next

(* One place is one handler, timer or outstanding accept. *)
LEMMA QueueCount ==
  ASSUME NEW queue \in Seq(Handlers), NEW k, Waits(queue, k)
  PROVE  Cardinality({i \in DOMAIN queue : queue[i].what \in LoopHandlers})
           = IF k \in {"queue", "listenQueue"} THEN 1 ELSE 0
<1> DEFINE Q == {i \in DOMAIN queue : queue[i].what \in LoopHandlers}
<1>1. Q = At(queue, AcceptHandlers) \cup At(queue, ListenHandlers)
  <2>1. \A i \in DOMAIN queue : queue[i] \in Handlers
    BY LenProperties, ElementOfSeq
  <2>2. \A h \in Handlers : h.what \in LoopHandlers <=> h \in AcceptHandlers \/ h \in ListenHandlers
    BY DEF LoopHandlers, AcceptHandlers, ListenHandlers
  <2> QED BY <2>1, <2>2 DEF At
<1>2. CASE k \in {"queue", "listenQueue"}
  <2>1. \E i : Q = {i}
    BY <1>1, <1>2 DEF Waits, Lone
  <2>2. Cardinality(Q) = 1
    BY <2>1, FS_Singleton
  <2> QED BY <1>2, <2>2
<1>3. CASE k \notin {"queue", "listenQueue"}
  <2>1. Q = {}
    BY <1>1, <1>3 DEF Waits
  <2>2. Cardinality(Q) = 0
    BY <2>1, FS_EmptySet
  <2> QED BY <1>3, <2>2
<1> QED BY <1>2, <1>3

LEMMA OtherCount ==
  ASSUME NEW k \in Places, ChainAt(k)
  PROVE  Cardinality({t \in {"accept", "listen", "doing"} :
                        CASE t = "accept" -> acceptTimer
                          [] t = "listen" -> listenTimer
                          [] t = "doing"  -> doing.step \in {"start", "open"}})
           = IF k \in {"acceptTimer", "listenTimer", "start", "open"} THEN 1 ELSE 0
<1> DEFINE T == {t \in {"accept", "listen", "doing"} :
                   CASE t = "accept" -> acceptTimer
                     [] t = "listen" -> listenTimer
                     [] t = "doing"  -> doing.step \in {"start", "open"}}
<1>1. /\ "accept" \in T <=> k = "acceptTimer"
      /\ "listen" \in T <=> k = "listenTimer"
      /\ "doing" \in T <=> k \in {"start", "open"}
      /\ T \subseteq {"accept", "listen", "doing"}
  BY DEF ChainAt
<1> HIDE DEF T
<1>2. CASE k \in {"acceptTimer", "listenTimer", "start", "open"}
  <2>1. \E t : T = {t}
    <3>1. k = "acceptTimer" => T = {"accept"}
      BY <1>1
    <3>2. k = "listenTimer" => T = {"listen"}
      BY <1>1
    <3>3. k \in {"start", "open"} => T = {"doing"}
      BY <1>1
    <3> QED BY <1>2, <3>1, <3>2, <3>3
  <2>2. Cardinality(T) = 1
    BY <2>1, FS_Singleton
  <2> QED BY <1>2, <2>2 DEF T
<1>3. CASE k \notin {"acceptTimer", "listenTimer", "start", "open"}
  <2>1. T = {}
    BY <1>1, <1>3
  <2>2. Cardinality(T) = 0
    BY <2>1, FS_EmptySet
  <2> QED BY <1>3, <2>2 DEF T
<1> QED BY <1>2, <1>3

(* No failed bind and no failed accept ends the accept loop of a server    *)
(* that was started once and not stopped, and nothing starts a second one. *)
THEOREM OneChainOfAccepts == Spec => []AcceptTended
<1>1. Init => ChainInv
  <2>1. Waits(<< >>, "none")
    BY DEF Waits, At, Lone
  <2> QED BY <2>1, DoingSteps DEF Init, ChainInv, ChainAt, Outstanding, Limit
<1>2. TypeInv /\ ChainInv => AcceptTended
  <2> SUFFICES ASSUME TypeInv, ChainInv,
                      calls.start = 1, lastCall = "start", calls.stop = 0
               PROVE  Tending = 1
    BY DEF AcceptTended
  <2>1. PICK k \in Places \ {"none"} : ChainAt(k)
    BY DEF ChainInv
  <2>2. Waits(strand, k) /\ accepts = Outstanding(k) /\ strand \in Seq(Handlers)
    BY <2>1 DEF ChainAt, TypeInv, TypeOK
  <2> DEFINE q == Cardinality({i \in DOMAIN strand : strand[i].what \in LoopHandlers})
             t == Cardinality({i \in {"accept", "listen", "doing"} :
                        CASE i = "accept" -> acceptTimer
                          [] i = "listen" -> listenTimer
                          [] i = "doing"  -> doing.step \in {"start", "open"}})
  <2>3. q = IF k \in {"queue", "listenQueue"} THEN 1 ELSE 0
    BY <2>2, QueueCount
  <2>4. t = IF k \in {"acceptTimer", "listenTimer", "start", "open"} THEN 1 ELSE 0
    BY <2>1, OtherCount
  <2>5. Tending = accepts + q + t
    BY DEF Tending
  <2> HIDE DEF q, t
  <2> QED BY <2>1, <2>2, <2>3, <2>4, <2>5 DEF Places, Outstanding
<1> QED BY TypeInvInit, TypeInvStep, <1>1, ChainInvStep, <1>2, PTL DEF Spec
=============================================================================
