--------------------------------- MODULE Rpc ---------------------------------
(***************************************************************************)
(* The sample's RPC client and server (src/src/sample/BaseClient.cpp,      *)
(* BaseServer.cpp, server.cpp, client.cpp) with the connection between     *)
(* them, which is lost and made again, and a server that may lose its      *)
(* memory with it.                                                         *)
(*                                                                         *)
(* One thread runs the client's io_service and requests are posted to it   *)
(* (src/src/sample/client_main.cpp:47, 95); a handler of it is one step,   *)
(* except that a connect blocks it.  Several threads run the server's two  *)
(* io_services (main.cpp:26): what its strand does is in order, responses  *)
(* are made in any order.                                                  *)
(***************************************************************************)
EXTENDS Integers, Sequences, FiniteSets, SequencesExt

CONSTANTS
  TestRequests,   \* the requests of function "test"
  StatRequests,   \* the requests of function "stat"
  MaxBreaks,      \* bound: lost connections
  MaxFailures     \* bound: exceptions in handlers, failed compressions

Requests == TestRequests \cup StatRequests

ASSUME RpcAssumption ==
  /\ TestRequests \cap StatRequests = {}
  /\ 0 \notin Requests
  /\ {MaxBreaks, MaxFailures} \subseteq Nat

NoError == 0    \* stands for "send error" among the outcomes of a request

VARIABLES
  autoReConnect, \* m_autoReConnect
  requestSeq,    \* m_requestSeq
  cbs,           \* m_CBs: a callback is known by its request
  outcome,       \* what the callback of each request was called with
  asked,         \* the requests the application has posted
  ready,         \* the handlers that are ready on the client's io_service
  session,       \* which connection m_connection is
  connected,     \* isConnected() of the client
  connecting,    \* the io thread is in a synchronous start
  link,          \* the connection's two ends reach each other
  up, down,      \* the messages under way to the server, to the client
  dispatch,      \* what is posted to the server's strand
  statTasks,     \* _send_stat posted to m_ioservice
  respTasks,     \* _send_stat, _send_test posted to m_io
  calls          \* how often each bounded thing has happened

client == <<autoReConnect, requestSeq, cbs, outcome>>
conn == <<session, connected, connecting, link>>
server == <<dispatch, statTasks, respTasks>>
vars == <<client, asked, ready, conn, up, down, server, calls>>

Messages == [seq : Nat, of : Requests]
Tasks == [seq : Nat, of : Requests, conn : Nat]
Handlers == [what : {"request"}, of : Requests]
              \cup [what : {"response"}, msg : [seq : Nat, of : Requests, zip : BOOLEAN]]
              \cup [what : {"error"}, conn : Nat]

TypeOK ==
  /\ autoReConnect \in BOOLEAN
  /\ requestSeq \in Nat
  /\ cbs \subseteq Messages
  /\ outcome \in [Requests -> Seq(Requests \cup {NoError})]
  /\ asked \subseteq Requests
  /\ ready \in Seq(Handlers)
  /\ session \in Nat
  /\ connected \in BOOLEAN /\ connecting \in BOOLEAN /\ link \in BOOLEAN
  /\ up \in Seq(Messages)
  /\ down \in Seq([seq : Nat, of : Requests, zip : BOOLEAN])
  /\ dispatch \in Seq(Tasks)
  /\ statTasks \subseteq Tasks /\ respTasks \subseteq Tasks
  /\ calls \in [{"break", "failure"} -> Nat]

(* The first synchronous start has connected. *)
Init ==
  /\ autoReConnect \in BOOLEAN
  /\ requestSeq = 0
  /\ cbs = {}
  /\ outcome = [r \in Requests |-> << >>]
  /\ asked = {}
  /\ ready = << >>
  /\ session = 1
  /\ connected = TRUE /\ connecting = FALSE /\ link = TRUE
  /\ up = << >> /\ down = << >>
  /\ dispatch = << >>
  /\ statTasks = {} /\ respTasks = {}
  /\ calls = [what \in {"break", "failure"} |-> 0]

Limit == [break |-> MaxBreaks, failure |-> MaxFailures]
MayStill(what) == calls[what] < Limit[what]
Counted(what) == calls' = [calls EXCEPT ![what] = @ + 1]

-----------------------------------------------------------------------------
(* The client. *)

Runs(what) == ~connecting /\ ready # << >> /\ Head(ready).what = what

PostRequest(r) ==
  /\ r \notin asked
  /\ asked' = asked \cup {r}
  /\ ready' = Append(ready, [what |-> "request", of |-> r])
  /\ UNCHANGED <<client, conn, up, down, server, calls>>

GenSeqSame == requestSeq    \* mutant: the number is not incremented

GenSeqDown == requestSeq - 1    \* mutant: the number is decremented

GenSeq == requestSeq + 1

RequestErrorFallsThrough ==    \* mutant: the return after "send error" is missing
  /\ Runs("request")
  /\ LET r == Head(ready).of
         m == [seq |-> GenSeq, of |-> r]
     IN  /\ requestSeq' = GenSeq
         /\ cbs' = {e \in cbs : e.seq # m.seq} \cup {m}
         /\ IF connected
            THEN /\ up' = IF link THEN Append(up, m) ELSE up
                 /\ UNCHANGED outcome
            ELSE /\ outcome' = [outcome EXCEPT ![r] = Append(@, NoError)]
                 /\ UNCHANGED up
  /\ ready' = Tail(ready)
  /\ UNCHANGED <<autoReConnect, asked, conn, down, server, calls>>

(* request sends before it registers the callback; no answer can be        *)
(* handled in between.  A request whose content could not be compressed is *)
(* sent all the same, and the server copies it.                            *)
Request ==
  /\ Runs("request")
  /\ LET r == Head(ready).of
         m == [seq |-> GenSeq, of |-> r]
     IN  /\ requestSeq' = GenSeq
         /\ IF connected
            THEN /\ up' = IF link THEN Append(up, m) ELSE up
                 /\ cbs' = {e \in cbs : e.seq # m.seq} \cup {m}
                 /\ UNCHANGED outcome
            ELSE /\ outcome' = [outcome EXCEPT ![r] = Append(@, NoError)]
                 /\ UNCHANGED <<up, cbs>>
  /\ ready' = Tail(ready)
  /\ UNCHANGED <<autoReConnect, asked, conn, down, server, calls>>

ClientReceives ==
  /\ down # << >>
  /\ ready' = Append(ready, [what |-> "response", msg |-> Head(down)])
  /\ down' = Tail(down)
  /\ UNCHANGED <<client, asked, conn, up, server, calls>>

(* onPackageReceived: only a compressed response reaches its callback.     *)
OnPackageReceived ==
  /\ Runs("response")
  /\ LET m == Head(ready).msg
         found == {e \in cbs : e.seq = m.seq}
     IN  IF m.zip
         THEN /\ outcome' = [r \in Requests |->
                   IF \E e \in found : e.of = r THEN Append(outcome[r], m.of)
                   ELSE outcome[r]]
              /\ cbs' = cbs \ found
         ELSE UNCHANGED <<outcome, cbs>>
  /\ ready' = Tail(ready)
  /\ UNCHANGED <<autoReConnect, requestSeq, asked, conn, up, down, server, calls>>

OnErrorBeforeClose ==    \* mutant: the error is reported before the connection is closed
  /\ Runs("error")
  /\ connected' = (connected /\ Head(ready).conn # session)
  /\ ready' = Tail(ready)
  /\ UNCHANGED <<client, asked, session, connecting, link, up, down, server, calls>>

(* handleConnectionError with BaseClient::onConnectionError, whose start   *)
(* does not return before a connection is made: a refused connect comes    *)
(* back to onConnectionError and starts again.                             *)
OnConnectionError ==
  /\ Runs("error")
  /\ IF connected /\ Head(ready).conn = session
     THEN connected' = FALSE /\ connecting' = autoReConnect
     ELSE UNCHANGED <<connected, connecting>>
  /\ ready' = Tail(ready)
  /\ UNCHANGED <<client, asked, session, link, up, down, server, calls>>

(* A refused connect calls onConnectionError, which connects again, without *)
(* a pause and one call deeper: the whole recursion is this step.           *)
StartConnectSync ==
  /\ connecting
  /\ connecting' = FALSE /\ connected' = TRUE /\ link' = TRUE
  /\ session' = session + 1
  /\ UNCHANGED <<client, asked, ready, up, down, server, calls>>

-----------------------------------------------------------------------------
(* The connection is lost with what is under way, and the server possibly  *)
(* with it; what the client has read already is handled before the error.  *)
Break ==
  /\ link
  /\ MayStill("break") /\ Counted("break")
  /\ link' = FALSE
  /\ up' = << >> /\ down' = << >>
  /\ ready' = Append(ready, [what |-> "error", conn |-> session])
  /\ \/ UNCHANGED server
     \/ dispatch' = << >> /\ statTasks' = {} /\ respTasks' = {}
  /\ UNCHANGED <<client, asked, session, connected, connecting>>

-----------------------------------------------------------------------------
(* The server. *)

ServerReceives ==
  /\ up # << >>
  /\ LET m == Head(up)
     IN  dispatch' = Append(dispatch, [seq |-> m.seq, of |-> m.of, conn |-> session])
  /\ up' = Tail(up)
  /\ UNCHANGED <<client, asked, ready, conn, down, statTasks, respTasks, calls>>

OnRequestTwice ==    \* mutant: Server::stat returns true after it has posted the response itself
  /\ dispatch # << >>
  /\ LET t == Head(dispatch)
     IN  \/ /\ statTasks' = IF t.of \in StatRequests THEN statTasks \cup {t} ELSE statTasks
            /\ respTasks' = respTasks \cup {t}
            /\ UNCHANGED calls
         \/ /\ MayStill("failure") /\ Counted("failure")
            /\ UNCHANGED <<statTasks, respTasks>>
  /\ dispatch' = Tail(dispatch)
  /\ UNCHANGED <<client, asked, ready, conn, up, down>>

(* onRequest: _stat leaves the response to Server::stat, _test makes it;   *)
(* an exception of either is swallowed.                                    *)
OnRequest ==
  /\ dispatch # << >>
  /\ LET t == Head(dispatch)
     IN  \/ /\ t.of \in StatRequests
            /\ statTasks' = statTasks \cup {t}
            /\ UNCHANGED <<respTasks, calls>>
         \/ /\ t.of \in TestRequests
            /\ respTasks' = respTasks \cup {t}
            /\ UNCHANGED <<statTasks, calls>>
         \/ /\ MayStill("failure") /\ Counted("failure")
            /\ UNCHANGED <<statTasks, respTasks>>
  /\ dispatch' = Tail(dispatch)
  /\ UNCHANGED <<client, asked, ready, conn, up, down>>

(* sendResp; the connection the request came by may be gone. *)
SendResp(t) ==
  /\ \E zip \in BOOLEAN :
       /\ IF zip THEN UNCHANGED calls ELSE MayStill("failure") /\ Counted("failure")
       /\ down' = IF link /\ t.conn = session
                  THEN Append(down, [seq |-> t.seq, of |-> t.of, zip |-> zip])
                  ELSE down
  /\ \/ t \in statTasks /\ statTasks' = statTasks \ {t} /\ UNCHANGED respTasks
     \/ t \in respTasks /\ respTasks' = respTasks \ {t} /\ UNCHANGED statTasks
  /\ UNCHANGED <<client, asked, ready, conn, up, dispatch>>

-----------------------------------------------------------------------------
ClientThread == Request \/ OnPackageReceived \/ OnConnectionError \/ StartConnectSync
ServerPools == \E t \in statTasks \cup respTasks : SendResp(t)

(* Everything under way has ended. *)
Rest == /\ ready = << >> /\ ~connecting /\ up = << >> /\ down = << >>
        /\ dispatch = << >> /\ statTasks \cup respTasks = {}
        /\ UNCHANGED vars

Next == \/ \E r \in Requests : PostRequest(r)
        \/ ClientThread \/ ClientReceives
        \/ Break
        \/ ServerReceives \/ OnRequest \/ ServerPools
        \/ Rest

Spec == Init /\ [][Next]_vars

(* Threads run what is ready, messages arrive, and the server can be       *)
(* reached again after a connection was lost.                              *)
FairSpec ==
  /\ Spec
  /\ WF_vars(ClientThread) /\ WF_vars(ClientReceives)
  /\ WF_vars(ServerReceives) /\ WF_vars(OnRequest) /\ WF_vars(ServerPools)

-----------------------------------------------------------------------------
(* Properties. *)

(* Where request r is between the call of request and its answer: on the   *)
(* wire, at the server, or read by the client.                             *)
Places(r) ==
  {<<"up", i>> : i \in {j \in DOMAIN up : up[j].of = r}}
  \cup {<<"dispatch", i>> : i \in {j \in DOMAIN dispatch : dispatch[j].of = r}}
  \cup {<<"stat", t.conn>> : t \in {u \in statTasks : u.of = r}}
  \cup {<<"resp", t.conn>> : t \in {u \in respTasks : u.of = r}}
  \cup {<<"down", i>> : i \in {j \in DOMAIN down : down[j].of = r}}
  \cup {<<"ready", i>> : i \in {j \in DOMAIN ready :
          ready[j].what = "response" /\ ready[j].msg.of = r}}

(* A request is in one place at a time and its answer made once: no server *)
(* function answers twice, by its return value and by itself, and none of  *)
(* it is left when the callback has been called.                           *)
OnePlace ==
  \A r \in Requests : Cardinality(Places(r)) <= IF outcome[r] = << >> THEN 1 ELSE 0

(* The table holds exactly callbacks that have not been called, each under *)
(* a number of its own.                                                    *)
TableAgrees ==
  /\ \A e \in cbs : outcome[e.of] = << >>
  /\ \A e, f \in cbs : e.of = f.of <=> e.seq = f.seq
  /\ \A r \in Requests : Places(r) # {} => \E e \in cbs : e.of = r

(* Liveness: a client with m_autoReConnect has a session again after every *)
(* loss.                                                                   *)
ReconnectsAtOnce == (autoReConnect /\ ~connected) ~> connected

(* A request that is at none of the places from which its answer can still *)
(* reach the callback is lost.                                             *)
CanBeAnswered(r) ==
  \/ \E i \in DOMAIN up : up[i].of = r
  \/ \E t \in Range(dispatch) \cup statTasks \cup respTasks :
       t.of = r /\ link /\ t.conn = session
  \/ \E i \in DOMAIN down : down[i].of = r /\ down[i].zip
  \/ \E i \in DOMAIN ready : ready[i].what = "response" /\ ready[i].msg.of = r
                             /\ ready[i].msg.zip

StateOf(r) ==
  CASE outcome[r] = <<r>>       -> "answered"
    [] outcome[r] = <<NoError>> -> "refused"
    [] outcome[r] = << >>       ->
         IF CanBeAnswered(r) THEN "sent"
         ELSE IF \E e \in cbs : e.of = r THEN "lost" ELSE "new"
    [] OTHER                    -> "wrong"

Service == INSTANCE RpcService WITH
  state <- [r \in Requests |-> StateOf(r)],
  faulty <- calls # [what \in {"break", "failure"} |-> 0]

(* The client and the server together keep what RpcService promises: every *)
(* callback is called at most once and with its own answer, and without a  *)
(* lost connection, an exception or a failed compression it is called.     *)
ImplementsService == Service!Spec
=============================================================================
