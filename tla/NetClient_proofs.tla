---------------------------- MODULE NetClient_proofs ----------------------------
(* Proofs about NetClient for every value of its bounds: types, that a      *)
(* session is always in the pool or about to be closed, that the pool keeps *)
(* no connection that is over, and that there is one attempt to connect at  *)
(* a time.                                                                  *)
EXTENDS NetClient, SequenceTheorems, FiniteSetTheorems, TLAPS

-----------------------------------------------------------------------------
(* The queue of handlers. *)

(* A handler that is queued stays queued when another one is posted. *)
LEMMA PostKeeps ==
  ASSUME NEW q \in Seq(Handlers), NEW h \in Handlers, NEW e,
         \E i \in DOMAIN q : q[i] = e
  PROVE  \E i \in DOMAIN Append(q, h) : Append(q, h)[i] = e
<1>1. PICK i \in DOMAIN q : q[i] = e OBVIOUS
<1>2. i \in DOMAIN Append(q, h) /\ Append(q, h)[i] = e BY <1>1
<1> QED BY <1>2

(* What is posted is queued. *)
LEMMA PostAdds ==
  ASSUME NEW q \in Seq(Handlers), NEW h \in Handlers
  PROVE  \E i \in DOMAIN Append(q, h) : Append(q, h)[i] = h
<1>1. Len(q) + 1 \in DOMAIN Append(q, h) /\ Append(q, h)[Len(q) + 1] = h OBVIOUS
<1> QED BY <1>1

(* Only the first handler goes when the io thread takes one. *)
LEMMA TakeKeeps ==
  ASSUME NEW q \in Seq(Handlers), q # << >>, NEW e, e # Head(q),
         \E i \in DOMAIN q : q[i] = e
  PROVE  /\ Tail(q) \in Seq(Handlers)
         /\ \E i \in DOMAIN Tail(q) : Tail(q)[i] = e
<1>1. PICK i \in DOMAIN q : q[i] = e OBVIOUS
<1>2. i # 1 /\ i \in 1..Len(q) BY <1>1
<1>3. i - 1 \in DOMAIN Tail(q) /\ Tail(q)[i - 1] = e BY <1>1, <1>2
<1> QED BY <1>3

(* A handler in either of two queues is in the one made of both. *)
LEMMA JoinKeeps ==
  ASSUME NEW q \in Seq(Handlers), NEW r \in Seq(Handlers), NEW e,
         (\E i \in DOMAIN q : q[i] = e) \/ (\E i \in DOMAIN r : r[i] = e)
  PROVE  \E i \in DOMAIN (q \o r) : (q \o r)[i] = e
<1>1. CASE \E i \in DOMAIN q : q[i] = e
  <2>1. PICK i \in DOMAIN q : q[i] = e BY <1>1
  <2>2. i \in DOMAIN (q \o r) /\ (q \o r)[i] = e BY <2>1
  <2> QED BY <2>2
<1>2. CASE \E i \in DOMAIN r : r[i] = e
  <2>1. PICK i \in DOMAIN r : r[i] = e BY <1>2
  <2>2. Len(q) + i \in DOMAIN (q \o r) /\ (q \o r)[Len(q) + i] = e BY <2>1
  <2> QED BY <2>2
<1> QED BY <1>1, <1>2

(* The closes posted for a set of connections are handlers, one for each.  *)
LEMMA Closes ==
  ASSUME NEW S \in SUBSET Conns, NEW order \in Orders(S)
  PROVE  LET posted == [i \in DOMAIN order |-> Handler("close", order[i])]
         IN  /\ posted \in Seq(Handlers)
             /\ \A c \in S : \E i \in DOMAIN posted : posted[i] = Handler("close", c)
<1>1. IsFiniteSet(S) /\ Cardinality(S) \in Nat
  <2>1. IsFiniteSet(Conns) BY FS_Interval, ClientAssumption DEF Conns
  <2> QED BY <2>1, FS_Subset, FS_CardinalityType
<1>2. /\ DOMAIN order = 1..Cardinality(S)
      /\ \A i \in 1..Cardinality(S) : order[i] \in S
      /\ S = {order[i] : i \in DOMAIN order}
  BY DEF Orders
<1> DEFINE posted == [i \in DOMAIN order |-> Handler("close", order[i])]
<1>3. \A i \in 1..Cardinality(S) : Handler("close", order[i]) \in Handlers
  BY <1>2 DEF Handler, Handlers
<1>4. posted \in [1..Cardinality(S) -> Handlers] BY <1>2, <1>3
<1>5. posted \in Seq(Handlers) BY <1>1, <1>4, SeqDef
<1>6. \A c \in S : \E i \in DOMAIN posted : posted[i] = Handler("close", c) BY <1>2
<1> QED BY <1>5, <1>6

-----------------------------------------------------------------------------
(* Types. *)

LEMMA CountedType ==
  ASSUME TypeOK, NEW what \in {"start", "stop", "fault"},
         MayStill(what), Counted(what)
  PROVE  calls' \in Bounds
<1>1. calls \in Bounds /\ calls[what] < Limit[what] /\ calls' = [calls EXCEPT ![what] = @ + 1]
  BY DEF TypeOK, MayStill, Counted
<1>2. CASE what = "start" BY <1>1, <1>2, ClientAssumption DEF Bounds, Limit
<1>3. CASE what = "stop" BY <1>1, <1>3, ClientAssumption DEF Bounds, Limit
<1>4. CASE what = "fault" BY <1>1, <1>4, ClientAssumption DEF Bounds, Limit
<1> QED BY <1>2, <1>3, <1>4

(* The handler that runs first names the connection its kind needs.        *)
LEMMA FirstHandler ==
  ASSUME TypeOK, ready # << >>
  PROVE  /\ Head(ready) \in Handlers
         /\ Tail(ready) \in Seq(Handlers)
         /\ Head(ready).what \in {"connected", "refused", "error", "close"}
              => Head(ready).conn \in Conns
<1>1. Head(ready) \in Handlers /\ Tail(ready) \in Seq(Handlers) BY DEF TypeOK
<1>2. Head(ready).what \in {"connected", "refused", "error", "close"} => Head(ready).conn \in Conns
  BY <1>1 DEF Handlers
<1> QED BY <1>1, <1>2

LEMMA HandlerType ==
  /\ \A w \in {"start", "timer", "connError", "removeAll"} : Handler(w, NoConn) \in Handlers
  /\ \A w \in {"connected", "refused", "error", "close"} :
       \A c \in Conns : Handler(w, c) \in Handlers
BY DEF Handler, Handlers

LEMMA PostType ==
  ASSUME NEW q \in Seq(Handlers), NEW h \in Handlers
  PROVE  Append(q, h) \in Seq(Handlers)
OBVIOUS

LEMMA InitType == Init => TypeOK
<1> SUFFICES ASSUME Init PROVE TypeOK OBVIOUS
<1>1. 0 \in 0..MaxConns BY ClientAssumption
<1>2. calls \in Bounds BY ClientAssumption DEF Init, Bounds
<1>3. ready \in Seq(Handlers) BY DEF Init
<1> QED BY <1>1, <1>2, <1>3 DEF Init, TypeOK

LEMMA AppType ==
  ASSUME TypeOK, Start \/ StopCancel \/ StopPost
  PROVE  TypeOK'
<1>1. CASE Start
  <2>1. calls' \in Bounds BY <1>1, CountedType DEF Start
  <2>2. ready' \in Seq(Handlers) BY <1>1, HandlerType, PostType DEF Start, TypeOK
  <2> QED BY <1>1, <2>1, <2>2 DEF Start, TypeOK, clientVars, connVars
<1>2. CASE StopCancel
  <2>1. calls' \in Bounds BY <1>2, CountedType DEF StopCancel
  <2> QED BY <1>2, <2>1 DEF StopCancel, TypeOK, connVars
<1>3. CASE StopPost
  <2>1. ready' \in Seq(Handlers) BY <1>3, HandlerType, PostType DEF StopPost, TypeOK
  <2> QED BY <1>3, <2>1 DEF StopPost, TypeOK, clientVars, connVars
<1> QED BY <1>1, <1>2, <1>3

LEMMA NetworkType ==
  ASSUME TypeOK, NEW c \in Conns, ConnectEnds(c) \/ SessionFails(c)
  PROVE  TypeOK'
<1>1. CASE Connects(c)
  <2>1. ready' \in Seq(Handlers) BY <1>1, HandlerType, PostType DEF Connects, TypeOK
  <2>2. calls' \in Bounds BY <1>1, CountedType DEF Connects, TypeOK
  <2>3. loops' \subseteq Conns BY <1>1 DEF Connects, TypeOK
  <2> QED BY <1>1, <2>1, <2>2, <2>3 DEF Connects, TypeOK, clientVars, appVars
<1>2. CASE IsRefused(c)
  <2>1. ready' \in Seq(Handlers) BY <1>2, HandlerType, PostType DEF IsRefused, TypeOK
  <2>2. calls' \in Bounds BY <1>2, CountedType DEF IsRefused
  <2> QED BY <1>2, <2>1, <2>2 DEF IsRefused, TypeOK, clientVars, appVars
<1>3. CASE SessionFails(c)
  <2>1. ready' \in Seq(Handlers) BY <1>3, HandlerType, PostType DEF SessionFails, TypeOK
  <2>2. calls' \in Bounds BY <1>3, CountedType DEF SessionFails
  <2> QED BY <1>3, <2>1, <2>2 DEF SessionFails, TypeOK, clientVars, connVars, appVars
<1> QED BY <1>1, <1>2, <1>3 DEF ConnectEnds

LEMMA IoType ==
  ASSUME TypeOK, IoThread
  PROVE  TypeOK'
<1>0. ready # << >> /\ Tail(ready) \in Seq(Handlers)
  <2>1. ready # << >>
    BY DEF IoThread, StartConnectAsync, AlreadyConnected, CreateFails, HandleConnected,
           HandleRefused, HandleConnectionError, HandleClose, RemoveAllConnections, Runs
  <2> QED BY <2>1, FirstHandler
<1>1. CASE StartConnectAsync
  <2>1. made + 1 \in Conns /\ made + 1 \in 0..MaxConns
    BY <1>1, ClientAssumption DEF StartConnectAsync, TypeOK, Conns
  <2> QED BY <1>0, <1>1, <2>1 DEF StartConnectAsync, TypeOK, appVars
<1>2. CASE AlreadyConnected
  BY <1>0, <1>2 DEF AlreadyConnected, TypeOK, clientVars, connVars, appVars
<1>3. CASE CreateFails
  <2>1. ready' \in Seq(Handlers) BY <1>0, <1>3, HandlerType, PostType DEF CreateFails
  <2>2. calls' \in Bounds BY <1>3, CountedType DEF CreateFails
  <2> QED BY <1>3, <2>1, <2>2 DEF CreateFails, TypeOK, connVars, appVars
<1>4. CASE HandleConnected
  <2> DEFINE c == Head(ready).conn
  <2>1. c \in Conns BY <1>0, <1>4, FirstHandler DEF HandleConnected, Runs
  <2>2. ready' \in Seq(Handlers) /\ armed' \in BOOLEAN
    <3>1. CASE c \in loops
      BY <1>0, <1>4, <2>1, <3>1, HandlerType, PostType DEF HandleConnected, Reconnect
    <3>2. CASE c \notin loops
      BY <1>0, <1>4, <3>2 DEF HandleConnected, TypeOK
    <3> QED BY <3>1, <3>2
  <2> QED BY <1>4, <2>1, <2>2 DEF HandleConnected, TypeOK, appVars
<1>5. CASE HandleRefused
  BY <1>0, <1>5 DEF HandleRefused, Reconnect, TypeOK, connVars, appVars
<1>6. CASE HandleConnectionError
  <2> DEFINE c == Head(ready).conn
  <2>1. c \in Conns BY <1>0, <1>6, FirstHandler DEF HandleConnectionError, Runs
  <2>2. CASE c \in sessions
    <3>1. ready' \in Seq(Handlers)
      BY <1>0, <1>6, <2>1, <2>2, HandlerType, PostType DEF HandleConnectionError
    <3> QED BY <1>6, <2>1, <2>2, <3>1 DEF HandleConnectionError, DoClose, Reconnect, TypeOK, appVars
  <2>3. CASE c \notin sessions
    BY <1>0, <1>6, <2>3 DEF HandleConnectionError, TypeOK, appVars
  <2> QED BY <2>2, <2>3
<1>7. CASE HandleClose
  <2>1. Head(ready).conn \in Conns BY <1>0, <1>7, FirstHandler DEF HandleClose, Runs
  <2> QED BY <1>0, <1>7, <2>1 DEF HandleClose, DoClose, TypeOK, clientVars, appVars
<1>8. CASE RemoveAllConnections
  <2>1. PICK order \in Orders(pool) :
          ready' = Tail(ready) \o [i \in DOMAIN order |-> Handler("close", order[i])]
    BY <1>8 DEF RemoveAllConnections
  <2>2. [i \in DOMAIN order |-> Handler("close", order[i])] \in Seq(Handlers)
    BY Closes DEF TypeOK
  <2>3. ready' \in Seq(Handlers) BY <1>0, <2>1, <2>2, ConcatProperties
  <2> QED BY <1>8, <2>3 DEF RemoveAllConnections, TypeOK, clientVars, connVars, appVars
<1> QED BY <1>1, <1>2, <1>3, <1>4, <1>5, <1>6, <1>7, <1>8 DEF IoThread

LEMMA StepType ==
  ASSUME TypeOK, [Next]_vars
  PROVE  TypeOK'
<1>1. CASE UNCHANGED vars
  BY <1>1 DEF vars, clientVars, connVars, appVars, TypeOK
<1>2. CASE Next
  <2>1. CASE Start \/ StopCancel \/ StopPost BY <2>1, AppType
  <2>2. CASE TimerExpires
    BY <2>2, HandlerType, PostType DEF TimerExpires, TypeOK, connVars, appVars
  <2>3. CASE \E c \in Conns : ConnectEnds(c) \/ SessionFails(c) BY <2>3, NetworkType
  <2>4. CASE IoThread BY <2>4, IoType
  <2>5. CASE Rest BY <1>1, <2>5 DEF Rest
  <2> QED BY <1>2, <2>1, <2>2, <2>3, <2>4, <2>5 DEF Next
<1> QED BY <1>1, <1>2

(* The state of the client, its connections and the io_service keeps its   *)
(* type, whatever the bounds: the io thread never acts on a connection a   *)
(* handler does not name.                                                  *)
THEOREM TypeCorrect == Spec => []TypeOK
<1>1. Init => TypeOK BY InitType
<1>2. TypeOK /\ [Next]_vars => TypeOK' BY StepType
<1> QED BY <1>1, <1>2, PTL DEF Spec

-----------------------------------------------------------------------------
(* The pool. *)

(* A session is still pooled or closing after a handler was posted, if it  *)
(* was before and nothing else changed.                                    *)
LEMMA PostPooled ==
  ASSUME TypeOK, SessionsPooled, NEW h \in Handlers,
         ready' = Append(ready, h), pool' = pool, sessions' = sessions
  PROVE  SessionsPooled'
<1> SUFFICES ASSUME NEW c \in sessions PROVE c \in pool \/ Closing(c)'
  BY DEF SessionsPooled
<1>1. CASE c \in pool BY <1>1
<1>2. CASE Closing(c)
  <2>1. \E i \in DOMAIN Append(ready, h) : Append(ready, h)[i] = Handler("close", c)
    BY <1>2, PostKeeps DEF TypeOK, Closing, Queued
  <2> QED BY <2>1 DEF Closing, Queued
<1> QED BY <1>1, <1>2 DEF SessionsPooled

(* A close that is queued stays queued when the io thread runs another     *)
(* handler and posts what it posts.                                        *)
LEMMA RunKeepsClosing ==
  ASSUME TypeOK, ready # << >>, NEW posted \in Seq(Handlers), NEW c \in Conns,
         ready' = Tail(ready) \o posted,
         Closing(c), Head(ready) # Handler("close", c)
  PROVE  Closing(c)'
<1>1. /\ Tail(ready) \in Seq(Handlers)
      /\ \E i \in DOMAIN Tail(ready) : Tail(ready)[i] = Handler("close", c)
  BY TakeKeeps DEF TypeOK, Closing, Queued
<1>2. \E i \in DOMAIN (Tail(ready) \o posted) : (Tail(ready) \o posted)[i] = Handler("close", c)
  BY <1>1, JoinKeeps
<1> QED BY <1>2 DEF Closing, Queued

(* Posting one handler, or none, is posting a queue of them. *)
LEMMA PostsOne ==
  ASSUME NEW q \in Seq(Handlers), NEW h \in Handlers
  PROVE  /\ <<h>> \in Seq(Handlers) /\ Append(q, h) = q \o <<h>>
         /\ << >> \in Seq(Handlers) /\ q = q \o << >>
OBVIOUS

LEMMA IoPooled ==
  ASSUME TypeOK, SessionsPooled, IoThread
  PROVE  SessionsPooled'
<1>0. ready # << >> /\ Tail(ready) \in Seq(Handlers)
  <2>1. ready # << >>
    BY DEF IoThread, StartConnectAsync, AlreadyConnected, CreateFails, HandleConnected,
           HandleRefused, HandleConnectionError, HandleClose, RemoveAllConnections, Runs
  <2> QED BY <2>1, FirstHandler
<1>1. CASE StartConnectAsync \/ AlreadyConnected \/ CreateFails \/ HandleRefused
  <2>1. pool' = pool /\ sessions' = sessions
    BY <1>1 DEF StartConnectAsync, AlreadyConnected, CreateFails, HandleRefused, connVars
  <2>2. PICK posted \in Seq(Handlers) : ready' = Tail(ready) \o posted
    <3>1. Handler("connError", NoConn) \in Handlers BY HandlerType
    <3>2. CASE CreateFails BY <1>0, <3>1, <3>2, PostsOne DEF CreateFails
    <3>3. CASE StartConnectAsync \/ AlreadyConnected \/ HandleRefused
      BY <1>0, <3>1, <3>3, PostsOne DEF StartConnectAsync, AlreadyConnected, HandleRefused
    <3> QED BY <1>1, <3>2, <3>3
  <2>3. Head(ready).what # "close"
    BY <1>1 DEF StartConnectAsync, AlreadyConnected, CreateFails, HandleRefused, Runs
  <2> SUFFICES ASSUME NEW c \in sessions, c \notin pool PROVE Closing(c)'
    BY <2>1 DEF SessionsPooled
  <2>4. c \in Conns /\ Closing(c) BY DEF TypeOK, SessionsPooled
  <2>5. Head(ready) # Handler("close", c) BY <2>3 DEF Handler
  <2> QED BY <1>0, <2>2, <2>4, <2>5, RunKeepsClosing
<1>2. CASE HandleConnected
  <2> DEFINE d == Head(ready).conn
  <2>1. d \in Conns /\ Head(ready).what = "connected"
    BY <1>0, <1>2, FirstHandler DEF HandleConnected, Runs
  <2>2. pool' = pool \cup {d} /\ sessions' = sessions \cup {d} BY <1>2 DEF HandleConnected
  <2>3. PICK posted \in Seq(Handlers) : ready' = Tail(ready) \o posted
    <3>1. Handler("close", d) \in Handlers BY <2>1, HandlerType
    <3>2. CASE d \in loops BY <1>0, <1>2, <3>1, <3>2, PostsOne DEF HandleConnected
    <3>3. CASE d \notin loops BY <1>0, <1>2, <3>1, <3>3, PostsOne DEF HandleConnected
    <3> QED BY <3>2, <3>3
  <2> SUFFICES ASSUME NEW c \in sessions, c \notin pool PROVE Closing(c)'
    BY <2>2 DEF SessionsPooled
  <2>4. c \in Conns /\ Closing(c) BY DEF TypeOK, SessionsPooled
  <2>5. Head(ready) # Handler("close", c) BY <2>1 DEF Handler
  <2> QED BY <1>0, <2>3, <2>4, <2>5, RunKeepsClosing
<1>3. CASE HandleConnectionError
  <2> DEFINE d == Head(ready).conn
  <2>1. d \in Conns /\ Head(ready).what = "error"
    BY <1>0, <1>3, FirstHandler DEF HandleConnectionError, Runs
  <2>2. sessions' = sessions \ {d} /\ pool \ {d} \subseteq pool'
    <3>1. CASE d \in sessions BY <1>3, <3>1 DEF HandleConnectionError, DoClose
    <3>2. CASE d \notin sessions BY <1>3, <3>2 DEF HandleConnectionError
    <3> QED BY <3>1, <3>2
  <2>3. PICK posted \in Seq(Handlers) : ready' = Tail(ready) \o posted
    <3>1. Handler("close", d) \in Handlers BY <2>1, HandlerType
    <3>2. CASE d \in sessions BY <1>0, <1>3, <3>1, <3>2, PostsOne DEF HandleConnectionError
    <3>3. CASE d \notin sessions BY <1>0, <1>3, <3>1, <3>3, PostsOne DEF HandleConnectionError
    <3> QED BY <3>2, <3>3
  <2> SUFFICES ASSUME NEW c \in sessions, c # d, c \notin pool PROVE Closing(c)'
    BY <2>2 DEF SessionsPooled
  <2>4. c \in Conns /\ Closing(c) BY DEF TypeOK, SessionsPooled
  <2>5. Head(ready) # Handler("close", c) BY <2>1 DEF Handler
  <2> QED BY <1>0, <2>3, <2>4, <2>5, RunKeepsClosing
<1>4. CASE HandleClose
  <2> DEFINE d == Head(ready).conn
  <2>1. sessions' = sessions \ {d} /\ pool' = pool /\ ready' = Tail(ready)
    BY <1>4 DEF HandleClose, DoClose
  <2>2. PICK posted \in Seq(Handlers) : ready' = Tail(ready) \o posted
    <3>1. Handler("connError", NoConn) \in Handlers BY HandlerType
    <3> QED BY <1>0, <2>1, <3>1, PostsOne
  <2> SUFFICES ASSUME NEW c \in sessions, c # d, c \notin pool PROVE Closing(c)'
    BY <2>1 DEF SessionsPooled
  <2>3. c \in Conns /\ Closing(c) BY DEF TypeOK, SessionsPooled
  <2>4. Head(ready) # Handler("close", c) BY DEF Handler
  <2> QED BY <1>0, <2>2, <2>3, <2>4, RunKeepsClosing
<1>5. CASE RemoveAllConnections
  <2>1. PICK order \in Orders(pool) :
          ready' = Tail(ready) \o [i \in DOMAIN order |-> Handler("close", order[i])]
    BY <1>5 DEF RemoveAllConnections
  <2> DEFINE posted == [i \in DOMAIN order |-> Handler("close", order[i])]
  <2>2. /\ posted \in Seq(Handlers)
        /\ \A c \in pool : \E i \in DOMAIN posted : posted[i] = Handler("close", c)
    BY Closes DEF TypeOK
  <2>3. sessions' = sessions /\ Head(ready).what = "removeAll"
    BY <1>5 DEF RemoveAllConnections, connVars, Runs
  <2> SUFFICES ASSUME NEW c \in sessions PROVE Closing(c)'
    BY <2>3 DEF SessionsPooled
  <2> HIDE DEF posted
  <2>4. CASE c \in pool
    <3>1. \E i \in DOMAIN (Tail(ready) \o posted) : (Tail(ready) \o posted)[i] = Handler("close", c)
      BY <1>0, <2>2, <2>4, JoinKeeps
    <3> QED BY <2>1, <3>1 DEF Closing, Queued, posted
  <2>5. CASE c \notin pool
    <3>1. c \in Conns /\ Closing(c) BY <2>5 DEF TypeOK, SessionsPooled
    <3>2. Head(ready) # Handler("close", c) BY <2>3 DEF Handler
    <3>3. ready' = Tail(ready) \o posted BY <2>1 DEF posted
    <3> QED BY <1>0, <2>2, <3>1, <3>2, <3>3, RunKeepsClosing
  <2> QED BY <2>4, <2>5
<1> QED BY <1>1, <1>2, <1>3, <1>4, <1>5 DEF IoThread

LEMMA StepPooled ==
  ASSUME TypeOK, SessionsPooled, [Next]_vars
  PROVE  SessionsPooled'
<1>1. CASE UNCHANGED vars
  BY <1>1 DEF vars, connVars, SessionsPooled, Closing, Queued
<1>2. CASE Start BY <1>2, HandlerType, PostPooled DEF Start, connVars
<1>3. CASE StopCancel
  BY <1>3 DEF StopCancel, connVars, SessionsPooled, Closing, Queued
<1>4. CASE StopPost BY <1>4, HandlerType, PostPooled DEF StopPost, connVars
<1>5. CASE TimerExpires BY <1>5, HandlerType, PostPooled DEF TimerExpires, connVars
<1>6. ASSUME NEW c \in Conns, ConnectEnds(c) \/ SessionFails(c) PROVE SessionsPooled'
  <2>1. CASE Connects(c) BY <2>1, HandlerType, PostPooled DEF Connects
  <2>2. CASE IsRefused(c) BY <2>2, HandlerType, PostPooled DEF IsRefused
  <2>3. CASE SessionFails(c) BY <2>3, HandlerType, PostPooled DEF SessionFails, connVars
  <2> QED BY <1>6, <2>1, <2>2, <2>3 DEF ConnectEnds
<1>7. CASE IoThread BY <1>7, IoPooled
<1>8. CASE Rest BY <1>1, <1>8 DEF Rest
<1> QED BY <1>1, <1>2, <1>3, <1>4, <1>5, <1>6, <1>7, <1>8 DEF Next

(* Every session is in the pool or about to be closed, whatever the bounds *)
(* and however start, stop and failures interleave: removeAllConnections   *)
(* misses none.                                                            *)
THEOREM PoolKept == Spec => []SessionsPooled
<1>1. Init => TypeOK /\ SessionsPooled
  BY InitType DEF Init, SessionsPooled
<1>2. TypeOK /\ SessionsPooled /\ [Next]_vars => TypeOK' /\ SessionsPooled'
  BY StepType, StepPooled
<1> QED BY <1>1, <1>2, PTL DEF Spec

-----------------------------------------------------------------------------
(* The queue after a step.  d handlers, none or one, have been taken and   *)
(* the handlers P were posted behind the others.                           *)
IsNew(i, d) == \A j \in DOMAIN ready : j < i + d

Posts(d, P) ==
  /\ d \in {0, 1}
  /\ \A i \in DOMAIN ready : i \in Nat /\ i >= 1
  /\ \A i \in DOMAIN ready' :
       /\ i \in Nat /\ i >= 1
       /\ \/ i + d \in DOMAIN ready /\ ready'[i] = ready[i + d]
          \/ IsNew(i, d) /\ ready'[i] \in P
  /\ \A i \in DOMAIN ready : i > d => i - d \in DOMAIN ready' /\ ready'[i - d] = ready[i]
  /\ \A h \in P : \E i \in DOMAIN ready' : IsNew(i, d) /\ ready'[i] = h
  /\ \A i, k \in DOMAIN ready' :
       IsNew(i, d) /\ IsNew(k, d) /\ ready'[i].what # "close" => i = k

LEMMA Positions ==
  ASSUME NEW S, NEW q \in Seq(S)
  PROVE  /\ Len(q) \in Nat
         /\ \A i : i \in DOMAIN q <=> i \in Nat /\ 1 <= i /\ i <= Len(q)
OBVIOUS

LEMMA Joined ==
  ASSUME NEW S, NEW q \in Seq(S), NEW r \in Seq(S)
  PROVE  /\ q \o r \in Seq(S) /\ Len(q \o r) = Len(q) + Len(r)
         /\ \A i \in Nat : 1 <= i /\ i <= Len(q) => (q \o r)[i] = q[i]
         /\ \A i \in Nat : 1 <= i /\ i <= Len(r) => (q \o r)[Len(q) + i] = r[i]
<1>1. q \o r \in Seq(S) /\ Len(q \o r) = Len(q) + Len(r)
  OBVIOUS
<1>2. ASSUME NEW i \in Nat, 1 <= i, i <= Len(q) PROVE (q \o r)[i] = q[i]
  BY <1>2
<1>3. ASSUME NEW i \in Nat, 1 <= i, i <= Len(r) PROVE (q \o r)[Len(q) + i] = r[i]
  BY <1>3
<1> QED BY <1>1, <1>2, <1>3

LEMMA Left ==
  ASSUME NEW S, NEW q \in Seq(S), q # << >>
  PROVE  /\ Tail(q) \in Seq(S) /\ Len(Tail(q)) = Len(q) - 1
         /\ \A i \in Nat : 1 <= i /\ i <= Len(Tail(q)) => Tail(q)[i] = q[i + 1]
OBVIOUS

(* What is taken and posted, from the queue that is left and the one that  *)
(* is posted.                                                              *)
LEMMA PostsIs ==
  ASSUME TypeOK, NEW d, NEW q, NEW posted \in Seq(Handlers), NEW P,
         \/ d = 0 /\ q = ready
         \/ d = 1 /\ q = Tail(ready) /\ ready # << >>,
         ready' = q \o posted,
         P = {posted[i] : i \in DOMAIN posted},
         \A i, k \in DOMAIN posted : posted[i].what # "close" => i = k
  PROVE  Posts(d, P)
<1>0. ready \in Seq(Handlers)
  BY DEF TypeOK
<1>1. PICK m, n, p : /\ m \in Nat /\ n \in Nat /\ p \in Nat
                     /\ m = Len(ready) /\ n = Len(q) /\ p = Len(posted)
                     /\ m = n + d /\ q \in Seq(Handlers)
                     /\ \A i \in Nat : 1 <= i /\ i <= n => q[i] = ready[i + d]
  <2>1. CASE d = 0
    <3>1. q = ready
      BY <2>1
    <3>2. Len(ready) \in Nat /\ Len(posted) \in Nat
      BY <1>0, Positions
    <3>3. \A i \in Nat : i + d = i
      BY <2>1
    <3>4. Len(ready) = Len(q) + d
      BY <3>1, <3>2, <3>3
    <3>5. \A i \in Nat : 1 <= i /\ i <= Len(q) => q[i] = ready[i + d]
      BY <3>1, <3>3
    <3> QED BY <1>0, <3>1, <3>2, <3>4, <3>5
  <2>2. CASE d = 1
    <3>0. q = Tail(ready) /\ ready # << >>
      BY <2>2
    <3>1. /\ q \in Seq(Handlers) /\ Len(q) = Len(ready) - 1
          /\ \A i \in Nat : 1 <= i /\ i <= Len(q) => q[i] = ready[i + d]
      BY <1>0, <2>2, <3>0, Left
    <3>2. Len(ready) \in Nat /\ Len(q) \in Nat /\ Len(posted) \in Nat
      BY <1>0, <3>1, Positions
    <3>3. Len(ready) = Len(q) + d
      BY <2>2, <3>1, <3>2
    <3> QED BY <3>1, <3>2, <3>3
  <2> QED BY <2>1, <2>2
<1>2. /\ \A i : i \in DOMAIN ready <=> i \in Nat /\ 1 <= i /\ i <= m
      /\ \A i : i \in DOMAIN posted <=> i \in Nat /\ 1 <= i /\ i <= p
  BY <1>0, <1>1, Positions
<1>3. /\ \A i : i \in DOMAIN ready' <=> i \in Nat /\ 1 <= i /\ i <= n + p
      /\ \A i \in Nat : 1 <= i /\ i <= n => ready'[i] = ready[i + d]
      /\ \A i \in Nat : 1 <= i /\ i <= p => ready'[n + i] = posted[i]
  <2>1. /\ q \o posted \in Seq(Handlers) /\ Len(q \o posted) = n + p
        /\ \A i \in Nat : 1 <= i /\ i <= n => (q \o posted)[i] = q[i]
        /\ \A i \in Nat : 1 <= i /\ i <= p => (q \o posted)[n + i] = posted[i]
    <3>1. /\ q \o posted \in Seq(Handlers) /\ Len(q \o posted) = Len(q) + Len(posted)
          /\ \A i \in Nat : 1 <= i /\ i <= Len(q) => (q \o posted)[i] = q[i]
          /\ \A i \in Nat : 1 <= i /\ i <= Len(posted) =>
               (q \o posted)[Len(q) + i] = posted[i]
      <4>1. q \in Seq(Handlers) /\ posted \in Seq(Handlers)
        BY <1>1
      <4> QED BY <4>1, Joined
    <3> QED BY <1>1, <3>1, Zenon
  <2>2. \A i : i \in DOMAIN (q \o posted)
                  <=> i \in Nat /\ 1 <= i /\ i <= Len(q \o posted)
    BY <2>1, Positions
  <2> QED BY <1>1, <2>1, <2>2
<1>4. \A i \in Nat : i >= 1 => (IsNew(i, d) <=> i > n)
  <2> SUFFICES ASSUME NEW i \in Nat, i >= 1 PROVE IsNew(i, d) <=> i > n
    OBVIOUS
  <2>0. d \in Nat
    OBVIOUS
  <2>1. ASSUME i > n PROVE IsNew(i, d)
    <3>1. \A j \in Nat : j <= m => j < i + d
      BY <1>1, <2>0, <2>1
    <3> QED BY <1>2, <3>1 DEF IsNew
  <2>2. ASSUME i <= n PROVE ~IsNew(i, d)
    <3>1. m >= 1 /\ ~(m < i + d)
      BY <1>1, <2>0, <2>2
    <3>2. m \in DOMAIN ready
      BY <1>1, <1>2, <3>1
    <3> QED BY <3>1, <3>2 DEF IsNew
  <2> QED BY <1>1, <2>1, <2>2
<1>5. \A i \in DOMAIN ready : i \in Nat /\ i >= 1
  BY <1>2
<1>6. ASSUME NEW i \in DOMAIN ready'
      PROVE  /\ i \in Nat /\ i >= 1
             /\ \/ i + d \in DOMAIN ready /\ ready'[i] = ready[i + d]
                \/ IsNew(i, d) /\ ready'[i] \in P
  <2>1. i \in Nat /\ i >= 1 /\ i <= n + p
    BY <1>3
  <2>2. CASE i <= n
    <3>1. i + d \in DOMAIN ready
      BY <1>1, <1>2, <2>1, <2>2
    <3> QED BY <1>3, <2>1, <2>2, <3>1
  <2>3. CASE i > n
    <3>1. i - n \in Nat /\ 1 <= i - n /\ i - n <= p /\ n + (i - n) = i
      BY <1>1, <2>1, <2>3
    <3>2. i - n \in DOMAIN posted /\ ready'[i] = posted[i - n]
      BY <1>2, <1>3, <3>1
    <3> QED BY <1>4, <2>1, <2>3, <3>2
  <2> QED BY <1>1, <2>1, <2>2, <2>3
<1>7. ASSUME NEW i \in DOMAIN ready, i > d
      PROVE  i - d \in DOMAIN ready' /\ ready'[i - d] = ready[i]
  <2>1. i \in Nat /\ i <= m
    BY <1>2
  <2>2. i - d \in Nat /\ 1 <= i - d /\ i - d <= n /\ i - d <= n + p /\ (i - d) + d = i
    BY <1>1, <1>7, <2>1
  <2> QED BY <1>3, <2>2
<1>8. ASSUME NEW h \in P PROVE \E i \in DOMAIN ready' : IsNew(i, d) /\ ready'[i] = h
  <2>1. PICK k \in DOMAIN posted : h = posted[k]
    OBVIOUS
  <2>2. k \in Nat /\ 1 <= k /\ k <= p
    BY <1>2
  <2>3. n + k \in Nat /\ 1 <= n + k /\ n + k <= n + p /\ n + k > n
    <3>1. n \in Nat /\ p \in Nat
      BY <1>1
    <3> QED BY <2>2, <3>1
  <2> QED BY <1>3, <1>4, <2>1, <2>2, <2>3
<1>9. ASSUME NEW i \in DOMAIN ready', NEW k \in DOMAIN ready',
             IsNew(i, d), IsNew(k, d), ready'[i].what # "close"
      PROVE  i = k
  <2>1. /\ i \in Nat /\ i > n /\ i <= n + p
        /\ k \in Nat /\ k > n /\ k <= n + p
    BY <1>3, <1>4, <1>9
  <2>2. /\ i - n \in Nat /\ 1 <= i - n /\ i - n <= p /\ n + (i - n) = i
        /\ k - n \in Nat /\ 1 <= k - n /\ k - n <= p
    <3>1. n \in Nat /\ p \in Nat
      BY <1>1
    <3>2. \A x \in Nat : x > n /\ x <= n + p =>
            x - n \in Nat /\ 1 <= x - n /\ x - n <= p /\ n + (x - n) = x
      BY <3>1
    <3> QED BY <2>1, <3>2
  <2>3. /\ i - n \in DOMAIN posted /\ ready'[i] = posted[i - n]
        /\ k - n \in DOMAIN posted
    BY <1>2, <1>3, <2>2
  <2>4. i - n = k - n
    BY <1>9, <2>3
  <2> QED BY <1>1, <2>1, <2>4
<1> QED BY <1>5, <1>6, <1>7, <1>8, <1>9 DEF Posts

LEMMA OneMore ==
  ASSUME NEW q \in Seq(Handlers), NEW h \in Handlers
  PROVE  /\ <<h>> \in Seq(Handlers) /\ Append(q, h) = q \o <<h>>
         /\ DOMAIN <<h>> = {1} /\ <<h>>[1] = h
<1>1. /\ <<h>> \in Seq(Handlers) /\ DOMAIN <<h>> = {1} /\ <<h>>[1] = h
  OBVIOUS
<1>2. Append(q, h) = q \o <<h>>
  BY AppendIsConcat
<1> QED BY <1>1, <1>2

LEMMA Appended ==
  ASSUME TypeOK, NEW h \in Handlers, ready' = Append(ready, h)
  PROVE  Posts(0, {h})
<1>0. ready \in Seq(Handlers)
  BY DEF TypeOK
<1>1. /\ <<h>> \in Seq(Handlers) /\ ready' = ready \o <<h>>
      /\ DOMAIN <<h>> = {1} /\ <<h>>[1] = h
  BY <1>0, OneMore
<1>2. {<<h>>[i] : i \in DOMAIN <<h>>} = {h}
  BY <1>1
<1>3. \A i, k \in DOMAIN <<h>> : i = k
  BY <1>1
<1> DEFINE posted == <<h>>
<1> HIDE DEF posted
<1>4. Posts(0, {h})
  BY <1>1, <1>2, <1>3, PostsIs DEF posted
<1> QED BY <1>4

LEMMA Taken ==
  ASSUME TypeOK, ready # << >>, ready' = Tail(ready)
  PROVE  Posts(1, {})
<1>1. /\ << >> \in Seq(Handlers) /\ ready' = Tail(ready) \o << >> /\ DOMAIN << >> = {}
  BY DEF TypeOK
<1>2. Posts(1, {<< >>[i] : i \in DOMAIN << >>})
  BY <1>1, PostsIs
<1>3. {<< >>[i] : i \in DOMAIN << >>} = {}
  BY <1>1
<1> QED BY <1>2, <1>3

LEMMA TakenAppended ==
  ASSUME TypeOK, ready # << >>, NEW h \in Handlers, ready' = Append(Tail(ready), h)
  PROVE  Posts(1, {h})
<1>0. Tail(ready) \in Seq(Handlers)
  BY HeadTailProperties DEF TypeOK
<1>1. /\ <<h>> \in Seq(Handlers) /\ ready' = Tail(ready) \o <<h>>
      /\ DOMAIN <<h>> = {1} /\ <<h>>[1] = h
  BY <1>0, OneMore
<1>2. {<<h>>[i] : i \in DOMAIN <<h>>} = {h}
  BY <1>1
<1>3. \A i, k \in DOMAIN <<h>> : i = k
  BY <1>1
<1>4. Posts(1, {<<h>>[i] : i \in DOMAIN <<h>>})
  BY <1>1, <1>3, PostsIs
<1> QED BY <1>2, <1>4

LEMMA TakenClosed ==
  ASSUME TypeOK, RemoveAllConnections
  PROVE  Posts(1, {Handler("close", c) : c \in pool})
<1>1. PICK order \in Orders(pool) :
        ready' = Tail(ready) \o [i \in DOMAIN order |-> Handler("close", order[i])]
  BY DEF RemoveAllConnections
<1> DEFINE posted == [i \in DOMAIN order |-> Handler("close", order[i])]
<1>2. posted \in Seq(Handlers)
  BY Closes DEF TypeOK
<1>3. ready # << >>
  BY DEF RemoveAllConnections, Runs
<1>4. pool = {order[i] : i \in DOMAIN order}
  BY DEF Orders
<1>5. {posted[i] : i \in DOMAIN posted} = {Handler("close", c) : c \in pool}
  BY <1>4
<1>6. \A i \in DOMAIN posted : posted[i].what = "close"
  BY DEF Handler
<1> HIDE DEF posted
<1>7. Posts(1, {posted[i] : i \in DOMAIN posted})
  BY <1>1, <1>2, <1>3, <1>6, PostsIs DEF posted
<1> QED BY <1>5, <1>7

-----------------------------------------------------------------------------
(* The pool keeps no connection that is over.  A connection goes through   *)
(* its life once: nothing names it before its connect ends, its session    *)
(* begins by the one handler that is queued for it then, and a close is    *)
(* queued only for one that has left the pool, or is a loop.               *)
IsFresh(c) == socket[c] \in {"none", "connecting"}

Fresh == \A c \in Conns : IsFresh(c) =>
           /\ c \notin sessions /\ c \notin pool /\ c \notin loops
           /\ \A i \in DOMAIN ready : ready[i].conn # c

Unmade == \A c \in Conns : c > made => socket[c] = "none"

Once == \A i \in DOMAIN ready : ready[i].what = "connected" =>
          /\ ready[i].conn \notin sessions /\ ready[i].conn \notin pool
          /\ \A j \in DOMAIN ready : ready[j].conn = ready[i].conn => i = j

CloseUnpooled == \A i \in DOMAIN ready : ready[i].what = "close" =>
                   ready[i].conn \notin pool \/ ready[i].conn \in loops

PoolInv == TypeOK /\ Fresh /\ Unmade /\ Once /\ CloseUnpooled /\ OnlySessionsPooled

(* Every handler after a step is one that was queued and not taken, or one *)
(* that was posted.                                                        *)
LEMMA QueuedAfter ==
  ASSUME NEW d, NEW P, Posts(d, P), NEW i \in DOMAIN ready'
  PROVE  \/ /\ i + d \in DOMAIN ready /\ ready'[i] = ready[i + d]
            /\ i + d > d
         \/ ready'[i] \in P /\ IsNew(i, d)
<1>1. i \in Nat /\ i >= 1 /\ d \in {0, 1}
  BY DEF Posts
<1>2. i + d > d
  BY <1>1
<1> QED BY <1>2 DEF Posts

LEMMA FreshStep ==
  ASSUME Fresh, NEW d, NEW P, Posts(d, P),
         \A c \in Conns : IsFresh(c)' =>
           /\ IsFresh(c)
           /\ c \in sessions' => c \in sessions
           /\ c \in pool' => c \in pool
           /\ c \in loops' => c \in loops
           /\ \A h \in P : h.conn # c
  PROVE  Fresh'
<1> SUFFICES ASSUME NEW c \in Conns, IsFresh(c)'
             PROVE  /\ c \notin sessions' /\ c \notin pool' /\ c \notin loops'
                    /\ \A i \in DOMAIN ready' : ready'[i].conn # c
  BY DEF Fresh
<1>1. IsFresh(c)
  OBVIOUS
<1>2. c \notin sessions' /\ c \notin pool' /\ c \notin loops'
  BY <1>1 DEF Fresh
<1>3. ASSUME NEW i \in DOMAIN ready' PROVE ready'[i].conn # c
  <2>1. CASE i + d \in DOMAIN ready /\ ready'[i] = ready[i + d]
    BY <1>1, <2>1 DEF Fresh
  <2>2. CASE ready'[i] \in P
    BY <2>2
  <2> QED BY <2>1, <2>2, QueuedAfter
<1> QED BY <1>2, <1>3

LEMMA OnceStep ==
  ASSUME Once, NEW d, NEW P, Posts(d, P),
         \A i \in DOMAIN ready : i > d /\ ready[i].what = "connected" =>
           /\ ready[i].conn \notin sessions' /\ ready[i].conn \notin pool'
           /\ \A h \in P : h.conn # ready[i].conn,
         \A h \in P : h.what = "connected" =>
           /\ h.conn \notin sessions' /\ h.conn \notin pool'
           /\ \A i \in DOMAIN ready : ready[i].conn # h.conn
  PROVE  Once'
<1> SUFFICES ASSUME NEW i \in DOMAIN ready', ready'[i].what = "connected"
             PROVE  /\ ready'[i].conn \notin sessions' /\ ready'[i].conn \notin pool'
                    /\ \A j \in DOMAIN ready' : ready'[j].conn = ready'[i].conn => i = j
  BY DEF Once
<1>0. i \in Nat /\ d \in {0, 1}
  BY DEF Posts
<1>1. CASE i + d \in DOMAIN ready /\ ready'[i] = ready[i + d] /\ i + d > d
  <2>1. ready'[i].conn \notin sessions' /\ ready'[i].conn \notin pool'
    BY <1>1
  <2>2. ASSUME NEW j \in DOMAIN ready', ready'[j].conn = ready'[i].conn PROVE i = j
    <3>1. CASE j + d \in DOMAIN ready /\ ready'[j] = ready[j + d]
      <4>1. i + d = j + d
        BY <1>1, <2>2, <3>1 DEF Once
      <4>2. j \in Nat
        BY DEF Posts
      <4> QED BY <1>0, <4>1, <4>2
    <3>2. CASE ready'[j] \in P
      BY <1>1, <2>2, <3>2
    <3> QED BY <3>1, <3>2, QueuedAfter
  <2> QED BY <2>1, <2>2
<1>2. CASE ready'[i] \in P /\ IsNew(i, d)
  <2>1. ready'[i].conn \notin sessions' /\ ready'[i].conn \notin pool'
    BY <1>2
  <2>2. ASSUME NEW j \in DOMAIN ready', ready'[j].conn = ready'[i].conn PROVE i = j
    <3>1. CASE j + d \in DOMAIN ready /\ ready'[j] = ready[j + d]
      BY <1>2, <2>2, <3>1
    <3>2. CASE IsNew(j, d)
      BY <1>2, <3>2 DEF Posts
    <3> QED BY <3>1, <3>2, QueuedAfter
  <2> QED BY <2>1, <2>2
<1> QED BY <1>1, <1>2, QueuedAfter

LEMMA CloseUnpooledStep ==
  ASSUME NEW d, NEW P, Posts(d, P),
         \A i \in DOMAIN ready : i > d /\ ready[i].what = "close" =>
           ready[i].conn \notin pool' \/ ready[i].conn \in loops',
         \A h \in P : h.what = "close" => h.conn \notin pool' \/ h.conn \in loops'
  PROVE  CloseUnpooled'
<1> SUFFICES ASSUME NEW i \in DOMAIN ready', ready'[i].what = "close"
             PROVE  ready'[i].conn \notin pool' \/ ready'[i].conn \in loops'
  BY DEF CloseUnpooled
<1>1. CASE i + d \in DOMAIN ready /\ ready'[i] = ready[i + d] /\ i + d > d
  BY <1>1
<1>2. CASE ready'[i] \in P
  BY <1>2
<1> QED BY <1>1, <1>2, QueuedAfter

(* A handler that neither begins nor ends a session. *)
LEMMA PoolUnchanged ==
  ASSUME PoolInv, NEW d, NEW P, Posts(d, P), TypeOK',
         UNCHANGED <<sessions, pool, loops>>, made' >= made,
         \A c \in Conns : IsFresh(c)' => IsFresh(c),
         \A c \in Conns : c > made' => socket'[c] = "none",
         \A h \in P : h.what \notin {"connected", "close"} /\ h.conn = NoConn
  PROVE  PoolInv'
<1>1. \A c \in Conns : \A h \in P : h.conn # c
  BY DEF Conns, NoConn
<1>2. Fresh'
  BY <1>1, FreshStep DEF PoolInv
<1>3. ASSUME NEW i \in DOMAIN ready, ready[i].what = "connected"
      PROVE  /\ ready[i].conn \notin sessions' /\ ready[i].conn \notin pool'
             /\ \A h \in P : h.conn # ready[i].conn
  <2>1. ready[i] \in Handlers
    BY DEF PoolInv, TypeOK
  <2>2. ready[i].conn \in Conns
    BY <1>3, <2>1 DEF Handlers
  <2> QED BY <1>1, <1>3, <2>2 DEF PoolInv, Once
<1>4. Once'
  BY <1>3, OnceStep DEF PoolInv
<1>5. CloseUnpooled'
  BY CloseUnpooledStep DEF PoolInv, CloseUnpooled
<1>6. OnlySessionsPooled' /\ Unmade'
  BY DEF PoolInv, OnlySessionsPooled, Unmade
<1> QED BY <1>2, <1>4, <1>5, <1>6 DEF PoolInv

LEMMA HandlerIs == \A w, c : Handler(w, c).what = w /\ Handler(w, c).conn = c
BY DEF Handler

LEMMA AppPool ==
  ASSUME PoolInv, Start \/ StopCancel \/ StopPost \/ TimerExpires, TypeOK'
  PROVE  PoolInv'
<1>0. TypeOK /\ made \in Nat /\ \A c \in Conns : c > made => socket[c] = "none"
  BY DEF PoolInv, TypeOK, Unmade
<1>1. CASE StopCancel
  BY <1>1 DEF StopCancel, connVars, PoolInv, Fresh, IsFresh, Unmade, Once, CloseUnpooled,
              OnlySessionsPooled
<1>2. ASSUME NEW w \in {"start", "timer", "removeAll"}, UNCHANGED <<pool, connVars>>,
             ready' = Append(ready, Handler(w, NoConn))
      PROVE  PoolInv'
  <2> DEFINE h == Handler(w, NoConn)
  <2>1. h \in Handlers /\ h.what = w /\ h.conn = NoConn
    BY HandlerType, HandlerIs
  <2> HIDE DEF h
  <2>2. Posts(0, {h})
    BY <1>0, <1>2, <2>1, Appended DEF h
  <2>3. UNCHANGED <<pool, sessions, loops, made, socket>>
    BY <1>2 DEF connVars
  <2>4. \A g \in {h} : g.what \notin {"connected", "close"} /\ g.conn = NoConn
    BY <2>1
  <2> QED BY <1>0, <2>2, <2>3, <2>4, PoolUnchanged DEF IsFresh
<1>3. CASE Start
  BY <1>2, <1>3 DEF Start
<1>4. CASE StopPost
  BY <1>2, <1>4 DEF StopPost
<1>5. CASE TimerExpires
  BY <1>2, <1>5 DEF TimerExpires
<1> QED BY <1>1, <1>3, <1>4, <1>5

LEMMA NetworkPool ==
  ASSUME PoolInv, NEW c \in Conns, ConnectEnds(c) \/ SessionFails(c), TypeOK'
  PROVE  PoolInv'
<1>0. TypeOK /\ Fresh /\ Unmade /\ Once /\ CloseUnpooled /\ OnlySessionsPooled
  BY DEF PoolInv
<1>1. CASE ConnectEnds(c)
  <2>1. PICK w \in {"connected", "refused"} : ready' = Append(ready, Handler(w, c))
    BY <1>1 DEF ConnectEnds, Connects, IsRefused
  <2>2. /\ socket[c] = "connecting" /\ socket'[c] \in {"open", "closed"}
        /\ \A b \in Conns \ {c} : socket'[b] = socket[b]
        /\ loops \subseteq loops' /\ loops' \subseteq loops \cup {c}
        /\ UNCHANGED <<pool, made, sessions>>
    BY <1>0, <1>1 DEF ConnectEnds, Connects, IsRefused, TypeOK
  <2> DEFINE h == Handler(w, c)
  <2>3. h \in Handlers /\ h.what = w /\ h.conn = c
    BY HandlerType, HandlerIs
  <2> HIDE DEF h
  <2>4. Posts(0, {h})
    BY <1>0, <2>1, <2>3, Appended DEF h
  <2>5. /\ c \notin sessions /\ c \notin pool
        /\ \A i \in DOMAIN ready : ready[i].conn # c
    BY <1>0, <2>2 DEF Fresh, IsFresh
  <2>6. Fresh'
    <3>1. ASSUME NEW b \in Conns, IsFresh(b)'
          PROVE  IsFresh(b) /\ b # c /\ (b \in loops' => b \in loops)
      BY <2>2, <3>1 DEF IsFresh
    <3> QED BY <1>0, <2>2, <2>3, <2>4, <3>1, FreshStep
  <2>7. Once'
    BY <1>0, <2>2, <2>3, <2>4, <2>5, OnceStep DEF Once
  <2>8. CloseUnpooled'
    <3>1. h.what # "close"
      BY <2>3
    <3> QED BY <1>0, <2>2, <2>4, <3>1, CloseUnpooledStep DEF CloseUnpooled
  <2>9. Unmade' /\ OnlySessionsPooled'
    BY <1>0, <2>2 DEF Unmade, OnlySessionsPooled
  <2> QED BY <2>6, <2>7, <2>8, <2>9 DEF PoolInv
<1>2. CASE SessionFails(c)
  <2>1. /\ c \in sessions /\ ready' = Append(ready, Handler("error", c))
        /\ UNCHANGED <<pool, made, sessions, loops, socket>>
    BY <1>2 DEF SessionFails, connVars
  <2> DEFINE h == Handler("error", c)
  <2>3. h \in Handlers /\ h.what = "error" /\ h.conn = c
    BY HandlerType, HandlerIs
  <2> HIDE DEF h
  <2>4. Posts(0, {h})
    BY <1>0, <2>1, <2>3, Appended DEF h
  <2>5. ~IsFresh(c)
    BY <1>0, <2>1 DEF Fresh
  <2>6. Fresh'
    <3>1. ASSUME NEW b \in Conns, IsFresh(b)' PROVE IsFresh(b) /\ b # c
      BY <2>1, <2>5, <3>1 DEF IsFresh
    <3> QED BY <1>0, <2>1, <2>3, <2>4, <3>1, FreshStep
  <2>7. Once'
    BY <1>0, <2>1, <2>3, <2>4, OnceStep DEF Once
  <2>8. CloseUnpooled'
    <3>1. h.what # "close"
      BY <2>3
    <3> QED BY <1>0, <2>1, <2>4, <3>1, CloseUnpooledStep DEF CloseUnpooled
  <2>9. Unmade' /\ OnlySessionsPooled'
    BY <1>0, <2>1 DEF Unmade, OnlySessionsPooled
  <2> QED BY <2>6, <2>7, <2>8, <2>9 DEF PoolInv
<1> QED BY <1>1, <1>2

(* The handler that runs is the first of the queue. *)
LEMMA FirstIs ==
  ASSUME TypeOK, ready # << >>
  PROVE  1 \in DOMAIN ready /\ ready[1] = Head(ready)
BY DEF TypeOK

LEMMA HandleConnectedPool ==
  ASSUME PoolInv, HandleConnected, TypeOK'
  PROVE  PoolInv'
<1>0. TypeOK /\ Fresh /\ Unmade /\ Once /\ CloseUnpooled /\ OnlySessionsPooled
  BY DEF PoolInv
<1>1. ready # << >> /\ Head(ready).what = "connected"
  BY DEF HandleConnected, Runs
<1>2. PICK c \in Conns : c = Head(ready).conn
  BY <1>0, <1>1, FirstHandler
<1>3. /\ pool' = pool \cup {c} /\ sessions' = sessions \cup {c}
      /\ UNCHANGED <<made, socket, loops>>
  BY <1>2 DEF HandleConnected
<1>4. PICK P : Posts(1, P) /\ \A h \in P : h.what = "close" /\ h.conn = c /\ c \in loops
  <2>1. CASE c \in loops
    <3>1. Handler("close", c) \in Handlers /\ ready' = Append(Tail(ready), Handler("close", c))
      BY <1>2, <2>1, HandlerType DEF HandleConnected
    <3>2. Posts(1, {Handler("close", c)})
      BY <1>0, <1>1, <3>1, TakenAppended
    <3>3. \A h \in {Handler("close", c)} : h.what = "close" /\ h.conn = c /\ c \in loops
      BY <2>1, HandlerIs
    <3> QED BY <3>2, <3>3
  <2>2. CASE c \notin loops
    <3>1. ready' = Tail(ready)
      BY <1>2, <2>2 DEF HandleConnected
    <3> QED BY <1>0, <1>1, <3>1, Taken
  <2> QED BY <2>1, <2>2
<1>5. 1 \in DOMAIN ready /\ ready[1].what = "connected" /\ ready[1].conn = c
  BY <1>0, <1>1, <1>2, FirstIs
<1>6. /\ c \notin sessions /\ c \notin pool
      /\ \A i \in DOMAIN ready : i > 1 => ready[i].conn # c
  <2>1. \A i \in DOMAIN ready : i > 1 => i # 1
    BY <1>4 DEF Posts
  <2> QED BY <1>0, <1>5, <2>1 DEF Once
<1>7. ~IsFresh(c)
  BY <1>0, <1>5 DEF Fresh
<1>8. Fresh'
  <2>1. ASSUME NEW b \in Conns, IsFresh(b)' PROVE IsFresh(b) /\ b # c
    BY <1>3, <1>7, <2>1 DEF IsFresh
  <2> QED BY <1>0, <1>3, <1>4, <2>1, FreshStep
<1>9. Once'
  <2>1. ASSUME NEW i \in DOMAIN ready, i > 1, ready[i].what = "connected"
        PROVE  /\ ready[i].conn \notin sessions' /\ ready[i].conn \notin pool'
               /\ \A h \in P : h.conn # ready[i].conn
    BY <1>0, <1>3, <1>4, <1>6, <2>1 DEF Once
  <2>2. \A h \in P : h.what # "connected"
    BY <1>4
  <2> QED BY <1>0, <1>4, <2>1, <2>2, OnceStep
<1>10. CloseUnpooled'
  <2>1. ASSUME NEW i \in DOMAIN ready, i > 1, ready[i].what = "close"
        PROVE  ready[i].conn \notin pool' \/ ready[i].conn \in loops'
    BY <1>0, <1>3, <1>6, <2>1 DEF CloseUnpooled
  <2>2. \A h \in P : h.conn \in loops'
    BY <1>3, <1>4
  <2> QED BY <1>4, <2>1, <2>2, CloseUnpooledStep
<1>11. Unmade' /\ OnlySessionsPooled'
  BY <1>0, <1>3 DEF Unmade, OnlySessionsPooled
<1> QED BY <1>8, <1>9, <1>10, <1>11 DEF PoolInv

LEMMA HandleErrorPool ==
  ASSUME PoolInv, HandleConnectionError, TypeOK'
  PROVE  PoolInv'
<1>0. TypeOK /\ Fresh /\ Unmade /\ Once /\ CloseUnpooled /\ OnlySessionsPooled
  BY DEF PoolInv
<1>1. ready # << >> /\ Head(ready).what = "error"
  BY DEF HandleConnectionError, Runs
<1>2. PICK c \in Conns : c = Head(ready).conn
  BY <1>0, <1>1, FirstHandler
<1>3. CASE c \in sessions
  <2>1. /\ pool' = pool \ {c} /\ sessions' = sessions \ {c}
        /\ socket'[c] = "closed" /\ \A b \in Conns \ {c} : socket'[b] = socket[b]
        /\ UNCHANGED <<made, loops>>
        /\ ready' = Append(Tail(ready), Handler("close", c))
    BY <1>0, <1>2, <1>3 DEF HandleConnectionError, DoClose, TypeOK
  <2> DEFINE h == Handler("close", c)
  <2>2. h \in Handlers /\ h.what = "close" /\ h.conn = c
    BY HandlerType, HandlerIs
  <2> HIDE DEF h
  <2>3. Posts(1, {h})
    BY <1>0, <1>1, <2>1, <2>2, TakenAppended DEF h
  <2>4. ~IsFresh(c)
    BY <1>0, <1>3 DEF Fresh
  <2>5. Fresh'
    <3>1. ASSUME NEW b \in Conns, IsFresh(b)' PROVE IsFresh(b) /\ b # c
      BY <2>1, <3>1 DEF IsFresh
    <3> QED BY <1>0, <2>1, <2>2, <2>3, <3>1, FreshStep
  <2>6. Once'
    <3>1. ASSUME NEW i \in DOMAIN ready, ready[i].what = "connected"
          PROVE  /\ ready[i].conn \notin sessions' /\ ready[i].conn \notin pool'
                 /\ \A g \in {h} : g.conn # ready[i].conn
      BY <1>0, <1>3, <2>1, <2>2, <3>1 DEF Once
    <3> QED BY <1>0, <2>2, <2>3, <3>1, OnceStep
  <2>7. CloseUnpooled'
    BY <1>0, <2>1, <2>2, <2>3, CloseUnpooledStep DEF CloseUnpooled
  <2>8. Unmade' /\ OnlySessionsPooled'
    <3>1. OnlySessionsPooled'
      BY <1>0, <2>1 DEF OnlySessionsPooled
    <3>2. ASSUME NEW b \in Conns, b > made PROVE socket'[b] = "none"
      <4>1. socket[b] = "none" /\ b # c
        BY <1>0, <2>4, <3>2 DEF Unmade, IsFresh
      <4> QED BY <2>1, <4>1
    <3> QED BY <2>1, <3>1, <3>2 DEF Unmade
  <2> QED BY <2>5, <2>6, <2>7, <2>8 DEF PoolInv
<1>4. CASE c \notin sessions
  <2>1. UNCHANGED <<pool, sessions, socket, made, loops>> /\ ready' = Tail(ready)
    BY <1>2, <1>4 DEF HandleConnectionError
  <2>2. Posts(1, {})
    BY <1>0, <1>1, <2>1, Taken
  <2>3. made' >= made
    BY <1>0, <2>1 DEF TypeOK
  <2>4. \A b \in Conns : b > made' => socket'[b] = "none"
    BY <1>0, <2>1 DEF Unmade
  <2>5. \A b \in Conns : IsFresh(b)' => IsFresh(b)
    BY <2>1 DEF IsFresh
  <2>6. UNCHANGED <<sessions, pool, loops>>
    BY <2>1
  <2> QED BY <2>2, <2>3, <2>4, <2>5, <2>6, PoolUnchanged
<1> QED BY <1>3, <1>4

LEMMA HandleClosePool ==
  ASSUME PoolInv, HandleClose, TypeOK'
  PROVE  PoolInv'
<1>0. TypeOK /\ Fresh /\ Unmade /\ Once /\ CloseUnpooled /\ OnlySessionsPooled
  BY DEF PoolInv
<1>1. ready # << >> /\ Head(ready).what = "close"
  BY DEF HandleClose, Runs
<1>2. PICK c \in Conns : c = Head(ready).conn
  BY <1>0, <1>1, FirstHandler
<1>3. /\ sessions' = sessions \ {c}
      /\ socket'[c] = "closed" /\ \A b \in Conns \ {c} : socket'[b] = socket[b]
      /\ UNCHANGED <<pool, made, loops>> /\ ready' = Tail(ready)
  BY <1>0, <1>2 DEF HandleClose, DoClose, TypeOK, clientVars
<1>4. Posts(1, {})
  BY <1>0, <1>1, <1>3, Taken
<1>5. 1 \in DOMAIN ready /\ ready[1].what = "close" /\ ready[1].conn = c
  BY <1>0, <1>1, <1>2, FirstIs
<1>6. ~IsFresh(c) /\ (c \notin pool \/ c \in loops)
  BY <1>0, <1>5 DEF Fresh, CloseUnpooled
<1>7. Fresh'
  <2>1. ASSUME NEW b \in Conns, IsFresh(b)' PROVE IsFresh(b) /\ b # c
    BY <1>3, <2>1 DEF IsFresh
  <2> QED BY <1>0, <1>3, <1>4, <2>1, FreshStep
<1>8. Once'
  BY <1>0, <1>3, <1>4, OnceStep DEF Once
<1>9. CloseUnpooled'
  BY <1>0, <1>3, <1>4, CloseUnpooledStep DEF CloseUnpooled
<1>10. OnlySessionsPooled'
  BY <1>0, <1>3, <1>6 DEF OnlySessionsPooled
<1>11. Unmade'
  <2>1. ASSUME NEW b \in Conns, b > made PROVE socket'[b] = "none"
    <3>1. socket[b] = "none" /\ b # c
      BY <1>0, <1>6, <2>1 DEF Unmade, IsFresh
    <3> QED BY <1>3, <3>1
  <2> QED BY <1>3, <2>1 DEF Unmade
<1> QED BY <1>7, <1>8, <1>9, <1>10, <1>11 DEF PoolInv

LEMMA RemoveAllPool ==
  ASSUME PoolInv, RemoveAllConnections, TypeOK'
  PROVE  PoolInv'
<1>0. TypeOK /\ Fresh /\ Unmade /\ Once /\ CloseUnpooled /\ OnlySessionsPooled
  BY DEF PoolInv
<1>1. pool' = {} /\ UNCHANGED <<made, socket, sessions, loops>>
  BY DEF RemoveAllConnections, connVars
<1> DEFINE P == {Handler("close", c) : c \in pool}
<1>2. Posts(1, P)
  BY <1>0, TakenClosed
<1>3. \A h \in P : h.what = "close" /\ h.conn \in pool
  BY HandlerIs
<1> HIDE DEF P
<1>4. Fresh'
  <2>1. ASSUME NEW b \in Conns, IsFresh(b)' PROVE IsFresh(b) /\ b \notin pool
    BY <1>0, <1>1, <2>1 DEF IsFresh, Fresh
  <2> QED BY <1>0, <1>1, <1>2, <1>3, <2>1, FreshStep
<1>5. Once'
  <2>1. ASSUME NEW i \in DOMAIN ready, ready[i].what = "connected"
        PROVE  /\ ready[i].conn \notin sessions' /\ ready[i].conn \notin pool'
               /\ \A h \in P : h.conn # ready[i].conn
    BY <1>0, <1>1, <1>3, <2>1 DEF Once
  <2>2. \A h \in P : h.what # "connected"
    BY <1>3
  <2> QED BY <1>0, <1>2, <2>1, <2>2, OnceStep
<1>6. CloseUnpooled'
  BY <1>1, <1>2, CloseUnpooledStep
<1>7. OnlySessionsPooled' /\ Unmade'
  BY <1>0, <1>1 DEF OnlySessionsPooled, Unmade
<1> QED BY <1>4, <1>5, <1>6, <1>7 DEF PoolInv

LEMMA OtherPool ==
  ASSUME PoolInv, StartConnectAsync \/ AlreadyConnected \/ CreateFails \/ HandleRefused, TypeOK'
  PROVE  PoolInv'
<1>0. TypeOK /\ Unmade /\ ready # << >> /\ made \in Nat
  BY DEF PoolInv, TypeOK, StartConnectAsync, AlreadyConnected, CreateFails, HandleRefused, Runs
<1>1. UNCHANGED <<sessions, pool, loops>>
  BY DEF StartConnectAsync, AlreadyConnected, CreateFails, HandleRefused, connVars
<1>2. PICK P : /\ Posts(1, P)
               /\ \A h \in P : h.what \notin {"connected", "close"} /\ h.conn = NoConn
  <2>1. CASE CreateFails
    <3>1. /\ Handler("connError", NoConn) \in Handlers
          /\ ready' = Append(Tail(ready), Handler("connError", NoConn))
      BY <2>1, HandlerType DEF CreateFails
    <3>2. Posts(1, {Handler("connError", NoConn)})
      BY <1>0, <3>1, TakenAppended
    <3>3. \A h \in {Handler("connError", NoConn)} :
            h.what \notin {"connected", "close"} /\ h.conn = NoConn
      BY HandlerIs
    <3> QED BY <3>2, <3>3
  <2>2. CASE ready' = Tail(ready)
    BY <1>0, <2>2, Taken
  <2> QED BY <2>1, <2>2 DEF StartConnectAsync, AlreadyConnected, HandleRefused
<1>3. /\ made' >= made /\ \A c \in Conns : IsFresh(c)' => IsFresh(c)
      /\ \A c \in Conns : c > made' => socket'[c] = "none"
  <2>1. CASE StartConnectAsync
    <3>1. /\ made' = made + 1 /\ made + 1 \in Conns
          /\ socket' = [socket EXCEPT ![made + 1] = "connecting"]
      BY <1>0, <2>1, ClientAssumption DEF StartConnectAsync, Conns
    <3>2. made' >= made /\ \A c \in Conns : c > made' => c # made + 1 /\ c > made
      BY <1>0, <3>1 DEF Conns
    <3>3. socket[made + 1] = "none"
      <4>1. made + 1 > made
        BY <1>0
      <4> QED BY <1>0, <3>1, <4>1 DEF Unmade
    <3>4. \A c \in Conns : c # made + 1 => socket'[c] = socket[c]
      BY <1>0, <3>1 DEF TypeOK
    <3>5. \A c \in Conns : IsFresh(c)' => IsFresh(c)
      BY <3>3, <3>4 DEF IsFresh
    <3>6. \A c \in Conns : c > made' => socket'[c] = "none"
      BY <1>0, <3>2, <3>4 DEF Unmade
    <3> QED BY <3>2, <3>5, <3>6
  <2>2. CASE UNCHANGED <<made, socket>>
    BY <1>0, <2>2 DEF IsFresh, Unmade
  <2> QED BY <2>1, <2>2 DEF AlreadyConnected, CreateFails, HandleRefused, connVars
<1> QED BY <1>1, <1>2, <1>3, PoolUnchanged

LEMMA StepPool == PoolInv /\ [Next]_vars => PoolInv'
<1> SUFFICES ASSUME PoolInv, [Next]_vars PROVE PoolInv'
  OBVIOUS
<1>0. TypeOK'
  BY StepType DEF PoolInv
<1>1. CASE Start \/ StopCancel \/ StopPost \/ TimerExpires
  BY <1>0, <1>1, AppPool
<1>2. ASSUME NEW c \in Conns, ConnectEnds(c) \/ SessionFails(c) PROVE PoolInv'
  BY <1>0, <1>2, NetworkPool
<1>3. CASE StartConnectAsync \/ AlreadyConnected \/ CreateFails \/ HandleRefused
  BY <1>0, <1>3, OtherPool
<1>4. CASE HandleConnected
  BY <1>0, <1>4, HandleConnectedPool
<1>5. CASE HandleConnectionError
  BY <1>0, <1>5, HandleErrorPool
<1>6. CASE HandleClose
  BY <1>0, <1>6, HandleClosePool
<1>7. CASE RemoveAllConnections
  BY <1>0, <1>7, RemoveAllPool
<1>8. CASE UNCHANGED vars
  BY <1>0, <1>8 DEF vars, clientVars, connVars, PoolInv, Fresh, IsFresh, Unmade, Once,
                    CloseUnpooled, OnlySessionsPooled
<1> QED BY <1>1, <1>2, <1>3, <1>4, <1>5, <1>6, <1>7, <1>8 DEF Next, IoThread, Rest

LEMMA InitPool == Init => PoolInv
<1> SUFFICES ASSUME Init PROVE PoolInv
  OBVIOUS
<1>1. ready = << >> /\ DOMAIN ready = {}
  BY DEF Init
<1> QED BY <1>1, InitType DEF Init, PoolInv, Fresh, Unmade, Once, CloseUnpooled,
                              OnlySessionsPooled

LEMMA PoolInductive == Spec => []PoolInv
BY InitPool, StepPool, PTL DEF Spec

(* The pool never keeps a connection whose session is over, but a loop of  *)
(* the client to itself: the close that HandleConnectionError and          *)
(* removeAllConnections post finds the connection out of the pool, however *)
(* late it runs.                                                           *)
THEOREM OnlySessionsKept == Spec => []OnlySessionsPooled
BY PoolInductive, PTL DEF PoolInv

-----------------------------------------------------------------------------
(* The attempt to be connected.  A client that was started once and not    *)
(* stopped passes it on: from the queue to a connect, back to the queue,   *)
(* to a session, to the timer, to the queue.                               *)
Kinds == {"start", "timer", "connError", "connected", "refused"}

NoQueued == \A i \in DOMAIN ready : ready[i].what \notin Kinds
OneQueued == \E i \in DOMAIN ready :
               /\ ready[i].what \in Kinds
               /\ \A j \in DOMAIN ready : ready[j].what \in Kinds => j = i
NoConnecting == \A c \in Conns : socket[c] # "connecting"
OneConnecting == \E c \in Conns : /\ socket[c] = "connecting"
                                  /\ \A b \in Conns : socket[b] = "connecting" => b = c
NoSession == \A c \in sessions : Closing(c)
OneSession == \E c \in sessions : /\ ~Closing(c)
                                  /\ \A b \in sessions : ~Closing(b) => b = c

Single == \/ OneQueued /\ ~armed /\ NoConnecting /\ NoSession
          \/ NoQueued /\ armed /\ NoConnecting /\ NoSession
          \/ NoQueued /\ ~armed /\ OneConnecting /\ NoSession
          \/ NoQueued /\ ~armed /\ NoConnecting /\ OneSession

(* The close of a session that still counts as one - a loop's - runs       *)
(* before anything that would find it connected.                           *)
InOrder == \A i, j \in DOMAIN ready :
             /\ ready[j].what = "close" /\ ready[j].conn \in sessions
             /\ \/ ready[i].what \in Kinds
                \/ ready[i].what = "error" /\ ready[i].conn = ready[j].conn
             => j < i

NoStop == app = "idle" /\ \A i \in DOMAIN ready : ready[i].what # "removeAll"
NotBegun == ready = << >> /\ ~armed /\ sessions = {} /\ NoConnecting
Going == NoStop /\ Single /\ InOrder

AttemptInv == calls.stop = 0 => /\ calls.start = 0 => NoStop /\ NotBegun
                                /\ calls.start = 1 => Going

LEMMA NoneIsQueued ==
  ASSUME NEW d, NEW P, Posts(d, P), \A h \in P : h.what \notin Kinds,
         \A i \in DOMAIN ready : i > d => ready[i].what \notin Kinds
  PROVE  NoQueued'
<1> SUFFICES ASSUME NEW i \in DOMAIN ready' PROVE ready'[i].what \notin Kinds
  BY DEF NoQueued
<1> QED BY QueuedAfter

LEMMA OneIsQueued ==
  ASSUME NEW d, NEW h, Posts(d, {h}), h.what \in Kinds,
         \A i \in DOMAIN ready : i > d => ready[i].what \notin Kinds
  PROVE  OneQueued'
<1>1. PICK i \in DOMAIN ready' : IsNew(i, d) /\ ready'[i] = h
  BY DEF Posts
<1>2. h.what # "close"
  BY DEF Kinds
<1>3. ASSUME NEW j \in DOMAIN ready', ready'[j].what \in Kinds PROVE j = i
  <2>1. IsNew(j, d)
    BY <1>3, QueuedAfter
  <2> QED BY <1>1, <1>2, <2>1 DEF Posts
<1> QED BY <1>1, <1>3 DEF OneQueued

LEMMA OneStaysQueued ==
  ASSUME NEW d, NEW P, Posts(d, P), \A h \in P : h.what \notin Kinds,
         OneQueued, d = 1 => ready[1].what \notin Kinds
  PROVE  OneQueued'
<1>1. PICK i \in DOMAIN ready : /\ ready[i].what \in Kinds
                                /\ \A j \in DOMAIN ready : ready[j].what \in Kinds => j = i
  BY DEF OneQueued
<1>2. i \in Nat /\ i >= 1 /\ d \in {0, 1}
  BY DEF Posts
<1>3. d = 1 => i # 1
  BY <1>1
<1>4. i > d
  BY <1>2, <1>3
<1>5. i - d \in DOMAIN ready' /\ ready'[i - d] = ready[i]
  BY <1>4 DEF Posts
<1>6. ASSUME NEW j \in DOMAIN ready', ready'[j].what \in Kinds PROVE j = i - d
  <2>1. j \in Nat /\ j + d \in DOMAIN ready /\ ready'[j] = ready[j + d]
    BY <1>6, QueuedAfter DEF Posts
  <2>2. j + d = i
    BY <1>1, <1>6, <2>1
  <2> QED BY <1>2, <2>1, <2>2
<1> QED BY <1>1, <1>5, <1>6 DEF OneQueued

LEMMA ClosingIs ==
  ASSUME TypeOK, NEW c
  PROVE  Closing(c) <=> \E i \in DOMAIN ready : ready[i].what = "close" /\ ready[i].conn = c
<1>1. ASSUME NEW i \in DOMAIN ready
      PROVE  ready[i] = Handler("close", c) <=> ready[i].what = "close" /\ ready[i].conn = c
  <2>1. ready[i] \in Handlers
    BY DEF TypeOK
  <2> QED BY <2>1 DEF Handlers, Handler
<1> QED BY <1>1 DEF Closing, Queued

LEMMA ClosingNext ==
  ASSUME TypeOK', NEW c
  PROVE  Closing(c)' <=> \E i \in DOMAIN ready' : ready'[i].what = "close" /\ ready'[i].conn = c
<1>1. ASSUME NEW i \in DOMAIN ready'
      PROVE  ready'[i] = Handler("close", c) <=> ready'[i].what = "close" /\ ready'[i].conn = c
  <2>1. ready'[i] \in Handlers
    BY DEF TypeOK
  <2> QED BY <2>1 DEF Handlers, Handler
<1> QED BY <1>1 DEF Closing, Queued

(* A close stays queued while another handler runs, and is posted by none  *)
(* that posts no close.                                                    *)
LEMMA ClosingKept ==
  ASSUME TypeOK, TypeOK', NEW d, NEW P, Posts(d, P), NEW c, Closing(c),
         ~(d = 1 /\ ready[1].what = "close" /\ ready[1].conn = c)
  PROVE  Closing(c)'
<1>1. PICK i \in DOMAIN ready : ready[i].what = "close" /\ ready[i].conn = c
  BY ClosingIs
<1>2. i \in Nat /\ i >= 1 /\ d \in {0, 1}
  BY DEF Posts
<1>3. d = 1 => i # 1
  BY <1>1
<1>4. i > d
  BY <1>2, <1>3
<1>5. i - d \in DOMAIN ready' /\ ready'[i - d] = ready[i]
  BY <1>4 DEF Posts
<1> QED BY <1>1, <1>5, ClosingNext

LEMMA NotClosing ==
  ASSUME TypeOK', NEW d, NEW P, Posts(d, P), NEW c,
         \A i \in DOMAIN ready : i > d => ~(ready[i].what = "close" /\ ready[i].conn = c),
         \A h \in P : ~(h.what = "close" /\ h.conn = c)
  PROVE  ~Closing(c)'
<1> SUFFICES ASSUME NEW i \in DOMAIN ready', ready'[i].what = "close", ready'[i].conn = c
             PROVE  FALSE
  BY ClosingNext
<1> QED BY QueuedAfter

LEMMA ClosingPosted ==
  ASSUME TypeOK', NEW d, NEW P, Posts(d, P), NEW h \in P, h.what = "close"
  PROVE  Closing(h.conn)'
<1>1. PICK i \in DOMAIN ready' : ready'[i] = h
  BY DEF Posts
<1>2. PICK c : c = h.conn
  OBVIOUS
<1>3. Closing(c)'
  BY <1>1, <1>2, ClosingNext
<1> QED BY <1>2, <1>3

LEMMA NoSessionKept ==
  ASSUME TypeOK, TypeOK', NEW d, NEW P, Posts(d, P), NoSession, sessions' \subseteq sessions,
         d = 1 /\ ready[1].what = "close" => ready[1].conn \notin sessions'
  PROVE  NoSession'
<1> SUFFICES ASSUME NEW c \in sessions' PROVE Closing(c)'
  BY DEF NoSession
<1>1. Closing(c)
  BY DEF NoSession
<1> QED BY <1>1, ClosingKept

LEMMA OneSessionKept ==
  ASSUME TypeOK, TypeOK', NEW d, NEW P, Posts(d, P), OneSession, sessions' \subseteq sessions,
         \A h \in P : h.what # "close",
         \A c \in sessions : ~Closing(c) => c \in sessions',
         d = 1 /\ ready[1].what = "close" => ready[1].conn \notin sessions'
  PROVE  OneSession'
<1>1. PICK c \in sessions : ~Closing(c) /\ \A b \in sessions : ~Closing(b) => b = c
  BY DEF OneSession
<1>2. \A i \in DOMAIN ready : ~(ready[i].what = "close" /\ ready[i].conn = c)
  BY <1>1, ClosingIs
<1>3. c \in sessions' /\ ~Closing(c)'
  BY <1>1, <1>2, NotClosing
<1>4. ASSUME NEW b \in sessions', ~Closing(b)' PROVE b = c
  <2>1. ~Closing(b)
    BY <1>4, ClosingKept
  <2> QED BY <1>1, <2>1
<1> QED BY <1>3, <1>4 DEF OneSession

(* A step that neither takes the attempt nor passes it on leaves it.       *)
LEMMA Neutral ==
  ASSUME TypeOK, TypeOK', Single, NEW d, NEW P, Posts(d, P),
         \A h \in P : h.what \notin Kinds /\ h.what # "close",
         d = 1 => ready[1].what \notin Kinds,
         armed' = armed, sessions' \subseteq sessions,
         \A c \in Conns : socket'[c] = "connecting" <=> socket[c] = "connecting",
         \A c \in sessions : ~Closing(c) => c \in sessions',
         d = 1 /\ ready[1].what = "close" => ready[1].conn \notin sessions'
  PROVE  Single'
<1>1. NoQueued => NoQueued'
  BY NoneIsQueued DEF NoQueued
<1>2. OneQueued => OneQueued'
  BY OneStaysQueued
<1>3. NoConnecting => NoConnecting'
  BY DEF NoConnecting
<1>4. OneConnecting => OneConnecting'
  BY DEF OneConnecting
<1>5. NoSession => NoSession'
  BY NoSessionKept
<1>6. OneSession => OneSession'
  BY OneSessionKept
<1> QED BY <1>1, <1>2, <1>3, <1>4, <1>5, <1>6 DEF Single

LEMMA OrderKept ==
  ASSUME InOrder, NEW d, NEW P, Posts(d, P),
         \A h \in P : h.what = "close" => h.conn \notin sessions',
         \A j \in DOMAIN ready : /\ j > d /\ ready[j].what = "close"
                                 /\ ready[j].conn \in sessions'
                                 => ready[j].conn \in sessions
  PROVE  InOrder'
<1> SUFFICES ASSUME NEW i \in DOMAIN ready', NEW j \in DOMAIN ready',
                    ready'[j].what = "close", ready'[j].conn \in sessions',
                    \/ ready'[i].what \in Kinds
                    \/ ready'[i].what = "error" /\ ready'[i].conn = ready'[j].conn
             PROVE  j < i
  BY DEF InOrder
<1>1. d \in {0, 1} /\ i \in Nat /\ j \in Nat
  BY DEF Posts
<1>2. j + d \in DOMAIN ready /\ ready'[j] = ready[j + d] /\ j + d > d
  BY QueuedAfter
<1>3. ready[j + d].conn \in sessions
  BY <1>2
<1>4. CASE i + d \in DOMAIN ready /\ ready'[i] = ready[i + d]
  <2>1. j + d < i + d
    BY <1>2, <1>3, <1>4 DEF InOrder
  <2> QED BY <1>1, <2>1
<1>5. CASE IsNew(i, d)
  <2>1. j + d < i + d
    BY <1>2, <1>5 DEF IsNew
  <2> QED BY <1>1, <2>1
<1> QED BY <1>4, <1>5, QueuedAfter

LEMMA NoStopKept ==
  ASSUME NoStop, NEW d, NEW P, Posts(d, P), app' = app,
         \A h \in P : h.what # "removeAll"
  PROVE  NoStop'
<1>1. ASSUME NEW i \in DOMAIN ready' PROVE ready'[i].what # "removeAll"
  BY QueuedAfter DEF NoStop
<1> QED BY <1>1 DEF NoStop

(* Where the attempt is, from what is known to hold it. *)
LEMMA HeadHasIt ==
  ASSUME TypeOK, Single, ready # << >>, Head(ready).what \in Kinds
  PROVE  /\ ~armed /\ NoConnecting /\ NoSession
         /\ \A i \in DOMAIN ready : i > 1 => ready[i].what \notin Kinds
<1>1. 1 \in DOMAIN ready /\ ready[1].what \in Kinds /\ \A i \in DOMAIN ready : i \in Nat
  BY FirstIs DEF TypeOK
<1>2. OneQueued /\ ~armed /\ NoConnecting /\ NoSession
  BY <1>1 DEF Single, NoQueued
<1>3. ASSUME NEW i \in DOMAIN ready, i > 1 PROVE ready[i].what \notin Kinds
  <2>1. i # 1
    BY <1>1, <1>3
  <2> QED BY <1>1, <1>2, <2>1 DEF OneQueued
<1> QED BY <1>2, <1>3

LEMMA StartGoing ==
  ASSUME PoolInv, TypeOK', NoStop, NotBegun, Start PROVE Going'
<1> DEFINE h == Handler("start", NoConn)
<1>1. h \in Handlers /\ h.what = "start"
  BY HandlerType, HandlerIs
<1>2. /\ ready' = Append(ready, h) /\ app' = app
      /\ UNCHANGED <<armed, sessions, socket>>
  BY DEF Start, clientVars, connVars
<1> HIDE DEF h
<1>3. Posts(0, {h})
  BY <1>1, <1>2, Appended DEF PoolInv
<1>4. ready = << >> /\ DOMAIN ready = {}
  BY DEF NotBegun
<1>5. OneQueued'
  BY <1>1, <1>3, <1>4, OneIsQueued DEF Kinds
<1>6. ~armed' /\ NoConnecting' /\ NoSession'
  BY <1>2 DEF NotBegun, NoConnecting, NoSession
<1>7. Single'
  BY <1>5, <1>6 DEF Single
<1>8. InOrder'
  BY <1>2, <1>6 DEF InOrder, NotBegun
<1>9. NoStop'
  BY <1>1, <1>2, <1>3, NoStopKept
<1> QED BY <1>7, <1>8, <1>9 DEF Going

LEMMA TimerGoing ==
  ASSUME PoolInv, TypeOK', Going, TimerExpires PROVE Going'
<1> DEFINE h == Handler("timer", NoConn)
<1>0. NoStop /\ Single /\ InOrder /\ TypeOK
  BY DEF Going, PoolInv
<1>1. h \in Handlers /\ h.what = "timer"
  BY HandlerType, HandlerIs
<1>2. /\ ready' = Append(ready, h) /\ app' = app /\ armed /\ ~armed'
      /\ UNCHANGED <<sessions, socket>>
  BY DEF TimerExpires, connVars, appVars
<1> HIDE DEF h
<1>3. Posts(0, {h})
  BY <1>0, <1>1, <1>2, Appended
<1>4. NoQueued /\ NoConnecting /\ NoSession
  BY <1>0, <1>2 DEF Single
<1>5. OneQueued'
  BY <1>1, <1>3, <1>4, OneIsQueued DEF Kinds, NoQueued
<1>6. NoSession'
  BY <1>0, <1>2, <1>3, <1>4, NoSessionKept
<1>7. Single'
  BY <1>2, <1>4, <1>5, <1>6 DEF Single, NoConnecting
<1>8. InOrder'
  BY <1>0, <1>1, <1>2, <1>3, OrderKept
<1>9. NoStop'
  BY <1>0, <1>1, <1>2, <1>3, NoStopKept
<1> QED BY <1>7, <1>8, <1>9 DEF Going

LEMMA ConnectEndsGoing ==
  ASSUME PoolInv, TypeOK', Going, NEW c \in Conns, ConnectEnds(c) PROVE Going'
<1>0. NoStop /\ Single /\ InOrder /\ TypeOK
  BY DEF Going, PoolInv
<1>1. PICK w \in {"connected", "refused"} : ready' = Append(ready, Handler(w, c))
  BY DEF ConnectEnds, Connects, IsRefused
<1>2. /\ app' = app /\ UNCHANGED <<armed, sessions>>
      /\ socket[c] = "connecting" /\ socket'[c] # "connecting"
      /\ \A b \in Conns \ {c} : socket'[b] = socket[b]
  BY <1>0 DEF ConnectEnds, Connects, IsRefused, clientVars, appVars, TypeOK
<1> DEFINE h == Handler(w, c)
<1>3. h \in Handlers /\ h.what = w
  BY HandlerType, HandlerIs
<1> HIDE DEF h
<1>4. Posts(0, {h})
  BY <1>0, <1>1, <1>3, Appended DEF h
<1>5. NoQueued /\ ~armed /\ OneConnecting /\ NoSession
  BY <1>0, <1>2 DEF Single, NoConnecting
<1>6. OneQueued'
  BY <1>3, <1>4, <1>5, OneIsQueued DEF Kinds, NoQueued
<1>7. NoConnecting'
  <2>1. ASSUME NEW b \in Conns, b # c PROVE socket[b] # "connecting"
    BY <1>2, <1>5, <2>1 DEF OneConnecting
  <2> QED BY <1>2, <2>1 DEF NoConnecting
<1>8. NoSession'
  BY <1>0, <1>2, <1>4, <1>5, NoSessionKept
<1>9. Single'
  BY <1>2, <1>5, <1>6, <1>7, <1>8 DEF Single
<1>10. InOrder'
  BY <1>0, <1>2, <1>3, <1>4, OrderKept
<1>11. NoStop'
  BY <1>0, <1>2, <1>3, <1>4, NoStopKept
<1> QED BY <1>9, <1>10, <1>11 DEF Going

LEMMA SessionFailsGoing ==
  ASSUME PoolInv, TypeOK', Going, NEW c \in Conns, SessionFails(c) PROVE Going'
<1> DEFINE h == Handler("error", c)
<1>0. NoStop /\ Single /\ InOrder /\ TypeOK
  BY DEF Going, PoolInv
<1>1. h \in Handlers /\ h.what = "error"
  BY HandlerType, HandlerIs
<1>2. /\ ready' = Append(ready, h) /\ app' = app
      /\ UNCHANGED <<armed, sessions, socket>>
  BY DEF SessionFails, clientVars, connVars, appVars
<1> HIDE DEF h
<1>3. Posts(0, {h})
  BY <1>0, <1>1, <1>2, Appended
<1>4. \A g \in {h} : g.what \notin Kinds /\ g.what # "close" /\ g.what # "removeAll"
  BY <1>1 DEF Kinds
<1>5. Single'
  BY <1>0, <1>2, <1>3, <1>4, Neutral
<1>6. InOrder'
  BY <1>0, <1>2, <1>3, <1>4, OrderKept
<1>7. NoStop'
  BY <1>0, <1>2, <1>3, <1>4, NoStopKept
<1> QED BY <1>5, <1>6, <1>7 DEF Going

LEMMA StartConnectAsyncGoing ==
  ASSUME PoolInv, TypeOK', Going, StartConnectAsync PROVE Going'
<1>0. NoStop /\ Single /\ InOrder /\ TypeOK /\ Unmade
  BY DEF Going, PoolInv
<1>1. /\ ready # << >> /\ Head(ready).what \in Kinds /\ ready' = Tail(ready)
      /\ app' = app /\ UNCHANGED <<armed, sessions>>
      /\ made < MaxConns /\ socket' = [socket EXCEPT ![made + 1] = "connecting"]
  BY DEF StartConnectAsync, Runs, Kinds, appVars
<1>2. /\ ~armed /\ NoConnecting /\ NoSession
      /\ \A i \in DOMAIN ready : i > 1 => ready[i].what \notin Kinds
  BY <1>0, <1>1, HeadHasIt
<1>3. Posts(1, {})
  BY <1>0, <1>1, Taken
<1>4. NoQueued'
  BY <1>2, <1>3, NoneIsQueued
<1>5. OneConnecting'
  <2>1. made + 1 \in Conns
    BY <1>0, <1>1, ClientAssumption DEF TypeOK, Conns
  <2>2. /\ socket'[made + 1] = "connecting"
        /\ \A b \in Conns : b # made + 1 => socket'[b] = socket[b]
    BY <1>0, <1>1, <2>1 DEF TypeOK
  <2> QED BY <1>2, <2>1, <2>2 DEF OneConnecting, NoConnecting
<1>6. ready[1].what # "close"
  BY <1>0, <1>1, FirstIs DEF Kinds
<1>7. NoSession'
  BY <1>0, <1>1, <1>2, <1>3, <1>6, NoSessionKept
<1>8. Single'
  BY <1>1, <1>2, <1>4, <1>5, <1>7 DEF Single
<1>9. InOrder'
  BY <1>0, <1>1, <1>3, OrderKept
<1>10. NoStop'
  BY <1>0, <1>1, <1>3, NoStopKept
<1> QED BY <1>8, <1>9, <1>10 DEF Going

(* Nothing that holds the attempt finds the client connected. *)
LEMMA NotConnectedYet ==
  ASSUME PoolInv, Going, AlreadyConnected PROVE FALSE
<1>0. Single /\ InOrder /\ TypeOK
  BY DEF Going, PoolInv
<1>1. ready # << >> /\ Head(ready).what \in Kinds /\ current \in sessions
  BY DEF AlreadyConnected, Runs, Kinds
<1>2. NoSession /\ 1 \in DOMAIN ready /\ ready[1].what \in Kinds
  BY <1>0, <1>1, HeadHasIt, FirstIs
<1>3. Closing(current)
  BY <1>1, <1>2 DEF NoSession
<1>4. PICK j \in DOMAIN ready : ready[j].what = "close" /\ ready[j].conn = current
  BY <1>0, <1>3, ClosingIs
<1>5. j < 1
  BY <1>0, <1>1, <1>2, <1>4 DEF InOrder
<1>6. j \in 1..Len(ready)
  BY <1>0 DEF TypeOK
<1> QED BY <1>5, <1>6

LEMMA CreateFailsGoing ==
  ASSUME PoolInv, TypeOK', Going, CreateFails PROVE Going'
<1> DEFINE h == Handler("connError", NoConn)
<1>0. NoStop /\ Single /\ InOrder /\ TypeOK
  BY DEF Going, PoolInv
<1>1. h \in Handlers /\ h.what = "connError"
  BY HandlerType, HandlerIs
<1>2. /\ ready # << >> /\ Head(ready).what \in Kinds /\ ready' = Append(Tail(ready), h)
      /\ app' = app /\ UNCHANGED <<armed, sessions, socket>>
  BY DEF CreateFails, Runs, Kinds, appVars, connVars
<1> HIDE DEF h
<1>3. /\ ~armed /\ NoConnecting /\ NoSession
      /\ \A i \in DOMAIN ready : i > 1 => ready[i].what \notin Kinds
  BY <1>0, <1>2, HeadHasIt
<1>4. Posts(1, {h})
  BY <1>0, <1>1, <1>2, TakenAppended
<1>5. OneQueued'
  BY <1>1, <1>3, <1>4, OneIsQueued DEF Kinds
<1>6. ready[1].what # "close"
  BY <1>0, <1>2, FirstIs DEF Kinds
<1>7. NoSession'
  BY <1>0, <1>2, <1>3, <1>4, <1>6, NoSessionKept
<1>8. Single'
  BY <1>2, <1>3, <1>5, <1>7 DEF Single, NoConnecting
<1>9. InOrder'
  BY <1>0, <1>1, <1>2, <1>4, OrderKept
<1>10. NoStop'
  BY <1>0, <1>1, <1>2, <1>4, NoStopKept
<1> QED BY <1>8, <1>9, <1>10 DEF Going

LEMMA HandleRefusedGoing ==
  ASSUME PoolInv, TypeOK', Going, HandleRefused PROVE Going'
<1>0. NoStop /\ Single /\ InOrder /\ TypeOK
  BY DEF Going, PoolInv
<1>1. /\ ready # << >> /\ Head(ready).what \in Kinds /\ ready' = Tail(ready)
      /\ app' = app /\ armed' = TRUE /\ UNCHANGED <<sessions, socket>>
  BY DEF HandleRefused, Runs, Kinds, Reconnect, appVars, connVars
<1>2. /\ NoConnecting /\ NoSession
      /\ \A i \in DOMAIN ready : i > 1 => ready[i].what \notin Kinds
  BY <1>0, <1>1, HeadHasIt
<1>3. Posts(1, {})
  BY <1>0, <1>1, Taken
<1>4. NoQueued'
  BY <1>2, <1>3, NoneIsQueued
<1>5. ready[1].what # "close"
  BY <1>0, <1>1, FirstIs DEF Kinds
<1>6. NoSession'
  BY <1>0, <1>1, <1>2, <1>3, <1>5, NoSessionKept
<1>7. Single'
  BY <1>1, <1>2, <1>4, <1>6 DEF Single, NoConnecting
<1>8. InOrder'
  BY <1>0, <1>1, <1>3, OrderKept
<1>9. NoStop'
  BY <1>0, <1>1, <1>3, NoStopKept
<1> QED BY <1>7, <1>8, <1>9 DEF Going

(* A connect that is made becomes a session, or with a loop the timer is   *)
(* armed and the session is closed first.                                  *)
LEMMA HandleConnectedGoing ==
  ASSUME PoolInv, TypeOK', Going, HandleConnected PROVE Going'
<1>0. NoStop /\ Single /\ InOrder /\ TypeOK /\ Once
  BY DEF Going, PoolInv
<1>1. ready # << >> /\ Head(ready).what = "connected"
  BY DEF HandleConnected, Runs
<1>2. PICK c \in Conns : c = Head(ready).conn
  BY <1>0, <1>1, FirstHandler
<1>3. sessions' = sessions \cup {c} /\ app' = app /\ UNCHANGED socket
  BY <1>2 DEF HandleConnected, appVars
<1>4. /\ ~armed /\ NoConnecting /\ NoSession
      /\ \A i \in DOMAIN ready : i > 1 => ready[i].what \notin Kinds
  BY <1>0, <1>1, HeadHasIt DEF Kinds
<1>5. 1 \in DOMAIN ready /\ ready[1].what = "connected" /\ ready[1].conn = c
  BY <1>0, <1>1, <1>2, FirstIs
<1>6. \A i \in DOMAIN ready : i > 1 => ready[i].conn # c
  <2>1. \A i \in DOMAIN ready : i > 1 => i # 1
    BY <1>0 DEF TypeOK
  <2> QED BY <1>0, <1>5, <2>1 DEF Once
<1>7. NoConnecting'
  BY <1>3, <1>4 DEF NoConnecting
<1>8. ASSUME NEW P, Posts(1, P), NEW b \in sessions PROVE Closing(b)'
  <2>1. Closing(b)
    BY <1>4 DEF NoSession
  <2> QED BY <1>0, <1>5, <1>8, <2>1, ClosingKept
<1>9. CASE c \in loops
  <2> DEFINE h == Handler("close", c)
  <2>1. h \in Handlers /\ h.what = "close" /\ h.conn = c
    BY HandlerType, HandlerIs
  <2>2. ready' = Append(Tail(ready), h) /\ armed' = TRUE
    BY <1>2, <1>9 DEF HandleConnected, Reconnect
  <2> HIDE DEF h
  <2>3. Posts(1, {h})
    BY <1>0, <1>1, <2>1, <2>2, TakenAppended
  <2>4. NoQueued'
    BY <1>4, <2>1, <2>3, NoneIsQueued DEF Kinds
  <2>5. NoSession'
    <3>1. Closing(c)'
      BY <2>1, <2>3, ClosingPosted
    <3> QED BY <1>3, <1>8, <2>3, <3>1 DEF NoSession
  <2>6. Single'
    BY <1>7, <2>2, <2>4, <2>5 DEF Single
  <2>7. InOrder'
    <3> SUFFICES ASSUME NEW i \in DOMAIN ready', NEW j \in DOMAIN ready',
                        ready'[j].what = "close", ready'[j].conn \in sessions',
                        \/ ready'[i].what \in Kinds
                        \/ ready'[i].what = "error" /\ ready'[i].conn = ready'[j].conn
                 PROVE  j < i
      BY DEF InOrder
    <3>1. ready'[i].what = "error" /\ ready'[i].conn = ready'[j].conn
      BY <2>4 DEF NoQueued
    <3>2. i + 1 \in DOMAIN ready /\ ready'[i] = ready[i + 1] /\ i + 1 > 1
      BY <2>1, <2>3, <3>1, QueuedAfter
    <3>3. ready'[j].conn # c
      BY <1>6, <3>1, <3>2
    <3>4. j + 1 \in DOMAIN ready /\ ready'[j] = ready[j + 1]
      BY <2>1, <2>3, <3>3, QueuedAfter
    <3>5. ready[j + 1].conn \in sessions
      BY <1>3, <3>3, <3>4
    <3>6. j + 1 < i + 1
      BY <1>0, <3>1, <3>2, <3>4, <3>5 DEF InOrder
    <3>7. i \in Nat /\ j \in Nat
      BY <2>3 DEF Posts
    <3> QED BY <3>6, <3>7
  <2>8. NoStop'
    BY <1>0, <1>3, <2>1, <2>3, NoStopKept
  <2> QED BY <2>6, <2>7, <2>8 DEF Going
<1>10. CASE c \notin loops
  <2>1. ready' = Tail(ready) /\ ~armed'
    BY <1>2, <1>4, <1>10 DEF HandleConnected
  <2>2. Posts(1, {})
    BY <1>0, <1>1, <2>1, Taken
  <2>3. NoQueued'
    BY <1>4, <2>2, NoneIsQueued
  <2>4. ~Closing(c)'
    BY <1>6, <2>2, NotClosing
  <2>5. OneSession'
    BY <1>3, <1>8, <2>2, <2>4 DEF OneSession
  <2>6. Single'
    BY <1>7, <2>1, <2>3, <2>5 DEF Single
  <2>7. InOrder'
    BY <1>0, <1>3, <1>6, <2>2, OrderKept
  <2>8. NoStop'
    BY <1>0, <1>3, <2>2, NoStopKept
  <2> QED BY <2>6, <2>7, <2>8 DEF Going
<1> QED BY <1>9, <1>10

(* The first error of a session arms the timer; the session was not being  *)
(* closed already.                                                         *)
LEMMA HandleErrorGoing ==
  ASSUME PoolInv, TypeOK', Going, HandleConnectionError PROVE Going'
<1>0. NoStop /\ Single /\ InOrder /\ TypeOK /\ Fresh
  BY DEF Going, PoolInv
<1>1. ready # << >> /\ Head(ready).what = "error"
  BY DEF HandleConnectionError, Runs
<1>2. PICK c \in Conns : c = Head(ready).conn
  BY <1>0, <1>1, FirstHandler
<1>3. 1 \in DOMAIN ready /\ ready[1].what = "error" /\ ready[1].conn = c
  BY <1>0, <1>1, <1>2, FirstIs
<1>4. CASE c \in sessions
  <2> DEFINE h == Handler("close", c)
  <2>1. h \in Handlers /\ h.what = "close" /\ h.conn = c
    BY HandlerType, HandlerIs
  <2>2. /\ sessions' = sessions \ {c} /\ armed' = TRUE /\ app' = app
        /\ socket'[c] = "closed" /\ \A b \in Conns \ {c} : socket'[b] = socket[b]
        /\ ready' = Append(Tail(ready), h)
    BY <1>0, <1>2, <1>4 DEF HandleConnectionError, DoClose, Reconnect, appVars, TypeOK
  <2> HIDE DEF h
  <2>3. Posts(1, {h})
    BY <1>0, <1>1, <2>1, <2>2, TakenAppended
  <2>4. ~Closing(c)
    <3> SUFFICES ASSUME NEW j \in DOMAIN ready, ready[j].what = "close", ready[j].conn = c
                 PROVE  FALSE
      BY <1>0, ClosingIs
    <3>1. j < 1
      BY <1>0, <1>3, <1>4 DEF InOrder
    <3>2. j \in 1..Len(ready)
      BY <1>0 DEF TypeOK
    <3> QED BY <3>1, <3>2
  <2>5. NoQueued /\ NoConnecting /\ OneSession
    BY <1>0, <1>4, <2>4 DEF Single, NoSession
  <2>6. NoQueued'
    BY <2>1, <2>3, <2>5, NoneIsQueued DEF NoQueued, Kinds
  <2>7. NoConnecting'
    BY <2>2, <2>5 DEF NoConnecting
  <2>8. NoSession'
    <3> SUFFICES ASSUME NEW b \in sessions, b # c PROVE Closing(b)'
      BY <2>2 DEF NoSession
    <3>1. Closing(b)
      BY <1>4, <2>4, <2>5 DEF OneSession
    <3> QED BY <1>0, <1>3, <2>3, <3>1, ClosingKept
  <2>9. Single'
    BY <2>2, <2>6, <2>7, <2>8 DEF Single
  <2>10. InOrder'
    BY <1>0, <2>1, <2>2, <2>3, OrderKept
  <2>11. NoStop'
    BY <1>0, <2>1, <2>2, <2>3, NoStopKept
  <2> QED BY <2>9, <2>10, <2>11 DEF Going
<1>5. CASE c \notin sessions
  <2>1. UNCHANGED <<sessions, socket, armed, app>> /\ ready' = Tail(ready)
    BY <1>2, <1>5 DEF HandleConnectionError, appVars
  <2>2. Posts(1, {})
    BY <1>0, <1>1, <2>1, Taken
  <2>3. ready[1].what \notin Kinds /\ ready[1].what # "close"
    BY <1>3 DEF Kinds
  <2>4. Single'
    BY <1>0, <2>1, <2>2, <2>3, Neutral
  <2>5. InOrder'
    BY <1>0, <2>1, <2>2, OrderKept
  <2>6. NoStop'
    BY <1>0, <2>1, <2>2, NoStopKept
  <2> QED BY <2>4, <2>5, <2>6 DEF Going
<1> QED BY <1>4, <1>5

LEMMA HandleCloseGoing ==
  ASSUME PoolInv, TypeOK', Going, HandleClose PROVE Going'
<1>0. NoStop /\ Single /\ InOrder /\ TypeOK /\ Fresh
  BY DEF Going, PoolInv
<1>1. ready # << >> /\ Head(ready).what = "close"
  BY DEF HandleClose, Runs
<1>2. PICK c \in Conns : c = Head(ready).conn
  BY <1>0, <1>1, FirstHandler
<1>3. /\ sessions' = sessions \ {c} /\ UNCHANGED <<armed, app>>
      /\ socket'[c] = "closed" /\ \A b \in Conns \ {c} : socket'[b] = socket[b]
      /\ ready' = Tail(ready)
  BY <1>0, <1>2 DEF HandleClose, DoClose, TypeOK, clientVars, appVars
<1>4. 1 \in DOMAIN ready /\ ready[1].what = "close" /\ ready[1].conn = c
  BY <1>0, <1>1, <1>2, FirstIs
<1>5. Posts(1, {})
  BY <1>0, <1>1, <1>3, Taken
<1>6. Closing(c) /\ ready[1].what \notin Kinds
  BY <1>0, <1>4, ClosingIs DEF Kinds
<1>7. \A b \in Conns : socket'[b] = "connecting" <=> socket[b] = "connecting"
  <2>1. socket[c] # "connecting"
    BY <1>0, <1>4 DEF Fresh, IsFresh
  <2> QED BY <1>3, <2>1
<1>8. \A b \in sessions : ~Closing(b) => b \in sessions'
  BY <1>3, <1>6
<1>9. Single'
  <2>1. sessions' \subseteq sessions /\ c \notin sessions'
    BY <1>3
  <2> QED BY <1>0, <1>3, <1>4, <1>5, <1>6, <1>7, <1>8, <2>1, Neutral
<1>10. InOrder'
  BY <1>0, <1>3, <1>5, OrderKept
<1>11. NoStop'
  BY <1>0, <1>3, <1>5, NoStopKept
<1> QED BY <1>9, <1>10, <1>11 DEF Going

LEMMA NoRemoveAll ==
  ASSUME TypeOK, NoStop, RemoveAllConnections PROVE FALSE
<1>1. ready # << >> /\ Head(ready).what = "removeAll"
  BY DEF RemoveAllConnections, Runs
<1> QED BY <1>1, FirstIs DEF NoStop

LEMMA GoingStep ==
  ASSUME PoolInv, TypeOK', Going, Next, ~Start, ~StopCancel PROVE Going'
<1>0. TypeOK /\ NoStop
  BY DEF PoolInv, Going
<1>1. CASE StopPost
  BY <1>0, <1>1 DEF NoStop, StopPost
<1>2. CASE TimerExpires
  BY <1>2, TimerGoing
<1>3. ASSUME NEW c \in Conns, ConnectEnds(c) \/ SessionFails(c) PROVE Going'
  BY <1>3, ConnectEndsGoing, SessionFailsGoing
<1>4. CASE StartConnectAsync
  BY <1>4, StartConnectAsyncGoing
<1>5. CASE AlreadyConnected
  BY <1>5, NotConnectedYet
<1>6. CASE CreateFails
  BY <1>6, CreateFailsGoing
<1>7. CASE HandleConnected
  BY <1>7, HandleConnectedGoing
<1>8. CASE HandleRefused
  BY <1>8, HandleRefusedGoing
<1>9. CASE HandleConnectionError
  BY <1>9, HandleErrorGoing
<1>10. CASE HandleClose
  BY <1>10, HandleCloseGoing
<1>11. CASE RemoveAllConnections
  BY <1>0, <1>11, NoRemoveAll
<1>12. CASE Rest
  <2>1. UNCHANGED vars
    BY <1>12 DEF Rest
  <2> QED BY <2>1 DEF vars, clientVars, connVars, appVars, Going, NoStop, Single, InOrder,
                      NoQueued, OneQueued, NoConnecting, OneConnecting, NoSession, OneSession,
                      Closing, Queued
<1> QED BY <1>1, <1>2, <1>3, <1>4, <1>5, <1>6, <1>7, <1>8, <1>9, <1>10, <1>11, <1>12
        DEF Next, IoThread

(* Before anyone calls the client nothing happens. *)
LEMMA NotBegunStep ==
  ASSUME PoolInv, NoStop, NotBegun, Next, ~Start, ~StopCancel PROVE NoStop' /\ NotBegun'
<1>1. Rest
  <2>1. ~IoThread
    BY DEF NotBegun, IoThread, StartConnectAsync, AlreadyConnected, CreateFails, HandleConnected,
           HandleRefused, HandleConnectionError, HandleClose, RemoveAllConnections, Runs
  <2>2. ~StopPost /\ ~TimerExpires
    BY DEF NoStop, NotBegun, StopPost, TimerExpires
  <2>3. \A c \in Conns : ~ConnectEnds(c) /\ ~SessionFails(c)
    BY DEF NotBegun, NoConnecting, ConnectEnds, Connects, IsRefused, SessionFails
  <2> QED BY <2>1, <2>2, <2>3 DEF Next
<1> QED BY <1>1 DEF Rest, vars, clientVars, connVars, appVars, NoStop, NotBegun, NoConnecting

(* The calls of start and stop are counted, and only they. *)
LEMMA CallsCounted ==
  ASSUME TypeOK, Next
  PROVE  /\ Start => calls'.start = calls.start + 1 /\ calls'.stop = calls.stop
         /\ StopCancel => calls'.stop = calls.stop + 1
         /\ ~Start /\ ~StopCancel => calls'.start = calls.start /\ calls'.stop = calls.stop
<1>1. calls \in [start : 0..MaxStarts, stop : 0..MaxStops, fault : 0..MaxFaults]
  BY DEF TypeOK, Bounds
<1>2. CASE Start
  <2>1. calls' = [calls EXCEPT !["start"] = @ + 1]
    BY <1>2 DEF Start, Counted
  <2>2. ~StopCancel
    BY <1>2 DEF Start, StopCancel
  <2> QED BY <1>1, <1>2, <2>1, <2>2
<1>3. CASE StopCancel
  <2>1. calls' = [calls EXCEPT !["stop"] = @ + 1]
    BY <1>3 DEF StopCancel, Counted
  <2>2. ~Start
    BY <1>3 DEF Start, StopCancel
  <2> QED BY <1>1, <1>3, <2>1, <2>2
<1>4. CASE calls' = calls
  <2>1. ~Start
    <3> SUFFICES ASSUME Start PROVE FALSE
      OBVIOUS
    <3>1. calls' = [calls EXCEPT !["start"] = @ + 1]
      BY DEF Start, Counted
    <3>2. calls'.start = calls.start + 1 /\ calls.start \in Nat
      BY <1>1, <3>1
    <3> QED BY <1>4, <3>2
  <2>2. ~StopCancel
    <3> SUFFICES ASSUME StopCancel PROVE FALSE
      OBVIOUS
    <3>1. calls' = [calls EXCEPT !["stop"] = @ + 1]
      BY DEF StopCancel, Counted
    <3>2. calls'.stop = calls.stop + 1 /\ calls.stop \in Nat
      BY <1>1, <3>1
    <3> QED BY <1>4, <3>2
  <2> QED BY <1>4, <2>1, <2>2
<1>5. CASE calls' = [calls EXCEPT !["fault"] = @ + 1]
  <2>1. calls'.start = calls.start /\ calls'.stop = calls.stop
    BY <1>1, <1>5
  <2>2. CASE Start
    BY <1>2, <2>2
  <2>3. CASE StopCancel
    BY <1>3, <2>3
  <2> QED BY <2>1, <2>2, <2>3
<1>6. \/ Start \/ StopCancel \/ calls' = calls
      \/ calls' = [calls EXCEPT !["fault"] = @ + 1]
  <2>1. ASSUME NEW c \in Conns, ConnectEnds(c) \/ SessionFails(c)
        PROVE  calls' = calls \/ calls' = [calls EXCEPT !["fault"] = @ + 1]
    BY <2>1 DEF ConnectEnds, Connects, IsRefused, SessionFails, Counted
  <2>2. CASE IoThread
    BY <2>2 DEF IoThread, StartConnectAsync, AlreadyConnected, CreateFails, HandleConnected,
                HandleRefused, HandleConnectionError, HandleClose, RemoveAllConnections, Counted
  <2>3. CASE StopPost \/ TimerExpires \/ Rest
    BY <2>3 DEF StopPost, TimerExpires, Rest, vars
  <2> QED BY <2>1, <2>2, <2>3 DEF Next
<1> QED BY <1>2, <1>3, <1>4, <1>5, <1>6

LEMMA AttemptStep == PoolInv /\ AttemptInv /\ [Next]_vars => AttemptInv'
<1> SUFFICES ASSUME PoolInv, AttemptInv, [Next]_vars PROVE AttemptInv'
  OBVIOUS
<1>0. TypeOK /\ TypeOK' /\ calls.start \in Nat /\ calls.stop \in Nat
  <2>1. TypeOK
    BY DEF PoolInv
  <2> QED BY <2>1, StepType DEF TypeOK, Bounds
<1>1. CASE UNCHANGED vars
  BY <1>1 DEF vars, clientVars, connVars, appVars, AttemptInv, Going, NoStop, NotBegun, Single,
              InOrder, NoQueued, OneQueued, NoConnecting, OneConnecting, NoSession, OneSession,
              Closing, Queued
<1>2. CASE Next /\ Start
  <2>1. calls'.start = calls.start + 1 /\ calls'.stop = calls.stop
    BY <1>0, <1>2, CallsCounted
  <2>2. calls'.stop = 0 /\ calls'.start = 1 => Going'
    <3> SUFFICES ASSUME calls'.stop = 0, calls'.start = 1 PROVE Going'
      OBVIOUS
    <3>1. calls.start = 0 /\ calls.stop = 0
      BY <1>0, <2>1
    <3>2. NoStop /\ NotBegun
      BY <3>1 DEF AttemptInv
    <3> QED BY <1>0, <1>2, <3>2, StartGoing
  <2>3. calls'.start # 0
    BY <1>0, <2>1
  <2> QED BY <2>2, <2>3 DEF AttemptInv
<1>3. CASE Next /\ StopCancel
  <2>1. calls'.stop # 0
    BY <1>0, <1>3, CallsCounted
  <2> QED BY <2>1 DEF AttemptInv
<1>4. CASE Next /\ ~Start /\ ~StopCancel
  <2>1. calls'.start = calls.start /\ calls'.stop = calls.stop
    BY <1>0, <1>4, CallsCounted
  <2>2. calls.stop = 0 /\ calls.start = 0 => NoStop' /\ NotBegun'
    BY <1>4, NotBegunStep DEF AttemptInv
  <2>3. calls.stop = 0 /\ calls.start = 1 => Going'
    BY <1>0, <1>4, GoingStep DEF AttemptInv
  <2> QED BY <2>1, <2>2, <2>3 DEF AttemptInv
<1> QED BY <1>1, <1>2, <1>3, <1>4

LEMMA InitAttempt == Init => AttemptInv
<1> SUFFICES ASSUME Init PROVE AttemptInv
  OBVIOUS
<1>1. calls.start = 0 /\ ready = << >> /\ DOMAIN ready = {}
  BY DEF Init
<1> QED BY <1>1 DEF Init, AttemptInv, NoStop, NotBegun, NoConnecting

(* The one place of the attempt is the only element of Attempts.           *)
LEMMA OneIsOne == ASSUME Single PROVE Cardinality(Attempts) = 1
<1> DEFINE Q == {j \in DOMAIN ready :
                   ready[j].what \in {"start", "timer", "connError", "connected", "refused"}}
           T == {u \in {0} : armed}
           C == {b \in Conns : socket[b] = "connecting"}
           S == {b \in sessions : ~Closing(b)}
<1>1. Attempts = {<<"queued", i>> : i \in Q} \cup {<<"timer", 0>> : u \in T}
                   \cup {<<"connecting", c>> : c \in C} \cup {<<"session", c>> : c \in S}
  BY DEF Attempts
<1>2. /\ NoQueued => Q = {}
      /\ OneQueued => \E i : Q = {i}
      /\ ~armed => T = {}
      /\ armed => T = {0}
      /\ NoConnecting => C = {}
      /\ OneConnecting => \E c : C = {c}
      /\ NoSession => S = {}
      /\ OneSession => \E c : S = {c}
  <2>1. (NoQueued => Q = {}) /\ (OneQueued => \E i : Q = {i})
    BY DEF NoQueued, OneQueued, Kinds
  <2>2. (~armed => T = {}) /\ (armed => T = {0})
    OBVIOUS
  <2>3. (NoConnecting => C = {}) /\ (OneConnecting => \E c : C = {c})
    BY DEF NoConnecting, OneConnecting
  <2>4. (NoSession => S = {}) /\ (OneSession => \E c : S = {c})
    BY DEF NoSession, OneSession
  <2> QED BY <2>1, <2>2, <2>3, <2>4
<1> HIDE DEF Q, T, C, S
<1>3. \E a : Attempts = {a}
  <2>1. CASE OneQueued /\ ~armed /\ NoConnecting /\ NoSession
    <3>1. PICK i : Q = {i} /\ T = {} /\ C = {} /\ S = {}
      BY <1>2, <2>1
    <3>2. Attempts = {<<"queued", i>>}
      BY <1>1, <3>1
    <3> QED BY <3>2
  <2>2. CASE NoQueued /\ armed /\ NoConnecting /\ NoSession
    <3>1. Q = {} /\ T = {0} /\ C = {} /\ S = {}
      BY <1>2, <2>2
    <3>2. Attempts = {<<"timer", 0>>}
      BY <1>1, <3>1
    <3> QED BY <3>2
  <2>3. CASE NoQueued /\ ~armed /\ OneConnecting /\ NoSession
    <3>1. PICK c : Q = {} /\ T = {} /\ C = {c} /\ S = {}
      BY <1>2, <2>3
    <3>2. Attempts = {<<"connecting", c>>}
      BY <1>1, <3>1
    <3> QED BY <3>2
  <2>4. CASE NoQueued /\ ~armed /\ NoConnecting /\ OneSession
    <3>1. PICK c : Q = {} /\ T = {} /\ C = {} /\ S = {c}
      BY <1>2, <2>4
    <3>2. Attempts = {<<"session", c>>}
      BY <1>1, <3>1
    <3> QED BY <3>2
  <2> QED BY <2>1, <2>2, <2>3, <2>4 DEF Single
<1> QED BY <1>3, FS_Singleton

(* A client that was started once and not stopped is connected, connecting *)
(* or about to try again, in exactly one way, whatever fails and however   *)
(* often.                                                                  *)
THEOREM AttemptKept == Spec => []OneAttempt
<1>1. Init => PoolInv /\ AttemptInv
  BY InitPool, InitAttempt
<1>2. PoolInv /\ AttemptInv /\ [Next]_vars => PoolInv' /\ AttemptInv'
  BY StepPool, AttemptStep
<1>3. AttemptInv => OneAttempt
  BY OneIsOne DEF AttemptInv, Going, OneAttempt
<1> QED BY <1>1, <1>2, <1>3, PTL DEF Spec
=============================================================================
