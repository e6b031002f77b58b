------------------------------ MODULE ProxyConnect ------------------------------
(***************************************************************************)
(* A connect that blocks: ProxyHelper::passProxy and what CommonSocket and *)
(* SSLSocket make of its result (src/src/net/ProxyHelper.cpp,              *)
(* src/src/net/NetSocket.cpp), against a proxy that answers in pieces of   *)
(* any length, refuses, falls silent or closes.                            *)
(*                                                                         *)
(* A reply is a sequence of the parts that the code tells apart: the first *)
(* byte or line, the byte that grants or refuses, and the rest.  A request *)
(* is written as a whole by its write_some: it is shorter than the empty   *)
(* buffer of a new socket.                                                 *)
(***************************************************************************)
EXTENDS Naturals, Sequences

CONSTANT MaxFaults    \* bound: connects, writes and TLS handshakes that fail

ASSUME ProxyAssumption == MaxFaults \in Nat

VARIABLES
  type,       \* ProxyInfo::type
  needCheck,  \* ProxyInfo::need_check
  ssl,        \* the socket is an SSLSocket
  stage,      \* the request the helper is at
  pc,         \* and the call it makes
  error,      \* the caller's error_code holds an error
  status,     \* PROXY_CONNECT_STATUS, once passProxy has returned
  asked,      \* proxy: the request to be answered, or none
  reply,      \* proxy: what is still to be sent of an answer
  wire,       \* what was sent to the client and not read
  closed,     \* the other end, proxy or endpoint, has closed the connection
  granted,    \* the endpoint is connected
  oldProxy,   \* the proxy answers in the form HTTP/1.0
  begun,      \* the proxy has sent something
  torn,       \* reads took less than the reply, or more
  faults

settings == <<type, needCheck, ssl, oldProxy>>
client == <<stage, pc, error, status>>
proxy == <<asked, reply, wire, closed, granted, begun>>
vars == <<settings, client, proxy, torn, faults>>

Stages == {"http", "socks4", "method", "auth", "connect"}
Statuses == {"none", "OK", "TIMEOUT", "PROXY_ERROR", "ENDPOINT_ERROR"}

(* The answers to a request: SOCKS4_RES and SOCKS5_RES1, SOCKS5_AUTH_RES   *)
(* and SOCKS5_RES2 begin with a version; "rest" is the end of the reply.   *)
Version(s) == CASE s = "socks4" -> "v0" [] s = "auth" -> "v1" [] OTHER -> "v5"
Yes(s) == IF s = "http" THEN <<IF oldProxy THEN "ok10" ELSE "ok11", "rest">>
          ELSE IF s \in {"method", "auth"} THEN <<Version(s), "yes">>
          ELSE <<Version(s), "yes", "rest">>
No(s) == IF s = "http" THEN <<"refused", "rest">>
         ELSE IF s \in {"method", "auth"} THEN <<Version(s), "no">>
         ELSE <<Version(s), "no", "rest">>
Parts == {"v0", "v1", "v5", "ok10", "ok11", "refused", "yes", "no", "rest", "data"}

TypeOK ==
  /\ type \in {"none", "http", "socks4", "socks5"}
  /\ {needCheck, ssl, error, closed, granted, oldProxy, begun} \subseteq BOOLEAN
  /\ stage \in Stages /\ pc \in {"open", "write", "select", "read", "handshake", "done"}
  /\ status \in Statuses /\ (status = "none" <=> pc \in {"open", "write", "select", "read"})
  /\ asked \in Stages \cup {"none"}
  /\ Len(reply) <= 7 /\ {reply[i] : i \in DOMAIN reply} \subseteq Parts
  /\ Len(wire) <= 8 /\ {wire[i] : i \in DOMAIN wire} \subseteq Parts
  /\ torn \subseteq {"less", "more"}
  /\ faults \in 0..MaxFaults

Init ==
  /\ type \in {"none", "http", "socks4", "socks5"}
  /\ needCheck \in BOOLEAN /\ ssl \in BOOLEAN /\ oldProxy \in BOOLEAN
  /\ stage = IF type = "socks5" THEN "method" ELSE IF type = "none" THEN "connect" ELSE type
  /\ pc = "open" /\ error = FALSE /\ status = "none"
  /\ asked = "none" /\ reply = <<>> /\ wire = <<>> /\ closed = FALSE
  /\ granted = FALSE /\ begun = FALSE /\ torn = {} /\ faults = 0

-----------------------------------------------------------------------------
(* The client. *)

(* passProxy returns; an SSLSocket shakes hands only if the status is OK. *)
Return(s, e) ==
  /\ status' = s
  /\ error' = e
  /\ pc' = IF s = "OK" /\ ssl THEN "handshake" ELSE "done"

(* connectSocket, to the proxy or, without one, to the endpoint.           *)
ConnectSocket ==
  /\ pc = "open"
  /\ IF type = "none" THEN Return("OK", FALSE) /\ granted' = TRUE
     ELSE pc' = "write" /\ UNCHANGED <<error, status, granted>>
  /\ UNCHANGED <<settings, stage, asked, reply, wire, closed, begun, torn, faults>>

ConnectSocketFails ==
  /\ pc = "open"
  /\ faults < MaxFaults /\ faults' = faults + 1
  /\ Return(IF type = "none" THEN "ENDPOINT_ERROR" ELSE "PROXY_ERROR", TRUE)
  /\ UNCHANGED <<settings, stage, proxy, torn>>

(* write_some of a request; isTimeout guards the first answer only.        *)
First(s) == s \in {"http", "socks4", "method"}

Write ==
  /\ pc = "write"
  /\ asked' = stage
  /\ pc' = IF First(stage) THEN "select" ELSE "read"
  /\ error' = FALSE
  /\ UNCHANGED <<settings, stage, status, reply, wire, closed, granted, begun, torn, faults>>

WriteError(s) == IF s \in {"http", "connect"} THEN "ENDPOINT_ERROR" ELSE "PROXY_ERROR"
WriteFails ==
  /\ pc = "write"
  /\ closed \/ faults < MaxFaults
  /\ faults' = IF closed THEN faults ELSE faults + 1
  /\ Return(WriteError(stage), TRUE)
  /\ UNCHANGED <<settings, stage, proxy, torn>>

(* isTimeout: select reports data or the end of the stream, or ten seconds *)
(* have passed without either.                                             *)
NoTimeout ==    \* mutant: the helper waits without a limit
  /\ pc = "select"
  /\ wire # <<>> \/ closed
  /\ pc' = "read"
  /\ UNCHANGED <<settings, stage, error, status, proxy, torn, faults>>

IsTimeoutGoesOn ==    \* mutant: the timeout is noted, and the answer read all the same
  /\ pc = "select"
  /\ status' = IF wire # <<>> \/ closed THEN status ELSE "TIMEOUT"
  /\ pc' = "read"
  /\ UNCHANGED <<settings, stage, error, proxy, torn, faults>>

IsTimeout ==
  /\ pc = "select"
  /\ IF wire # <<>> \/ closed THEN pc' = "read" /\ UNCHANGED <<error, status>>
     ELSE Return("TIMEOUT", error)
  /\ UNCHANGED <<settings, stage, proxy, torn, faults>>

(* The end of the stream, before a byte or before the end of the header.   *)
HasHeader == \E i \in DOMAIN wire : wire[i] = "rest"
ReadFails ==
  /\ pc = "read" /\ closed
  /\ IF stage = "http" THEN ~HasHeader ELSE wire = <<>>
  /\ Return(WriteError(stage), TRUE)
  /\ UNCHANGED <<settings, stage, proxy, torn, faults>>

(* read_until takes the header, and with it what has arrived behind it.    *)
HttpProxy ==
  /\ pc = "read" /\ stage = "http" /\ HasHeader
  /\ \E n \in 2..Len(wire) :
       /\ wire' = SubSeq(wire, n + 1, Len(wire))
       /\ torn' = IF n > 2 THEN torn \cup {"more"} ELSE torn
  /\ IF wire[1] = "ok10" THEN Return("OK", FALSE) ELSE Return("ENDPOINT_ERROR", TRUE)
  /\ UNCHANGED <<settings, stage, asked, reply, closed, granted, begun, faults>>

(* One read_some is taken for the whole reply.  A byte of it that did not  *)
(* arrive is whatever the buffer on the stack held.                        *)
Says(n, s, ok) ==
  \E second \in IF n = 1 THEN {"yes", "no"} ELSE {wire[2]} :
    ok = (wire[1] = Version(s) /\ second = "yes")

ReadSome(s, ok) ==
  /\ pc = "read" /\ stage = s
  /\ \E n \in 1..Len(wire) :
       /\ Says(n, s, ok)
       /\ wire' = SubSeq(wire, n + 1, Len(wire))
       /\ torn' = torn \cup (IF n < Len(Yes(s)) THEN {"less"} ELSE {})
                       \cup (IF n > Len(Yes(s)) THEN {"more"} ELSE {})
  /\ UNCHANGED <<settings, asked, reply, closed, granted, begun, faults>>

Sock4Granted == ReadSome("socks4", TRUE) /\ Return("OK", FALSE) /\ UNCHANGED stage

(* The error of a refusal is a variable of the inner block: the caller's   *)
(* stays clear.                                                            *)
Sock4Refused == ReadSome("socks4", FALSE) /\ Return("ENDPOINT_ERROR", FALSE) /\ UNCHANGED stage
MethodRefused == ReadSome("method", FALSE) /\ Return("PROXY_ERROR", FALSE) /\ UNCHANGED stage

MethodAccepted ==
  /\ ReadSome("method", TRUE)
  /\ stage' = IF needCheck THEN "auth" ELSE "connect"
  /\ pc' = "write"
  /\ UNCHANGED <<error, status>>

AuthAccepted == /\ ReadSome("auth", TRUE)
                /\ stage' = "connect" /\ pc' = "write"
                /\ UNCHANGED <<error, status>>
AuthRefused == ReadSome("auth", FALSE) /\ Return("PROXY_ERROR", TRUE) /\ UNCHANGED stage

Sock5Granted == ReadSome("connect", TRUE) /\ Return("OK", FALSE) /\ UNCHANGED stage
Sock5RefusedHidden ==    \* mutant: the error is a variable of the inner block here, too
  ReadSome("connect", FALSE) /\ Return("ENDPOINT_ERROR", FALSE) /\ UNCHANGED stage
Sock5Refused == ReadSome("connect", FALSE) /\ Return("ENDPOINT_ERROR", TRUE) /\ UNCHANGED stage

(* handshake and async_handshake end with the other end's answer or its   *)
(* close, never by a timeout.  They need the endpoint, and its bytes.      *)
Handshake ==
  /\ pc = "handshake"
  /\ granted /\ torn = {}
  /\ pc' = "done" /\ error' = FALSE
  /\ UNCHANGED <<settings, stage, status, proxy, torn, faults>>
HandshakeFails ==
  /\ pc = "handshake"
  /\ \/ (~granted \/ torn # {} \/ closed) /\ UNCHANGED faults
     \/ faults < MaxFaults /\ faults' = faults + 1
  /\ pc' = "done" /\ error' = TRUE
  /\ UNCHANGED <<settings, stage, status, proxy, torn>>
Shake == Handshake \/ HandshakeFails

Client ==
  \/ ConnectSocket \/ ConnectSocketFails \/ Write \/ WriteFails \/ IsTimeout \/ ReadFails
  \/ HttpProxy \/ Sock4Granted \/ Sock4Refused
  \/ MethodAccepted \/ MethodRefused \/ AuthAccepted \/ AuthRefused
  \/ Sock5Granted \/ Sock5Refused

-----------------------------------------------------------------------------
(* The proxy.  It connects the endpoint before it grants the last request, *)
(* and forwards what the endpoint sends first.                             *)
Answer ==
  /\ asked # "none" /\ ~closed
  /\ \/ reply' = reply \o No(asked) /\ UNCHANGED granted
     \/ /\ reply' = reply \o Yes(asked)
        /\ granted' = (granted \/ asked \in {"http", "socks4", "connect"})
  /\ asked' = "none"
  /\ UNCHANGED <<settings, client, wire, closed, begun, torn, faults>>

ProxySends ==
  /\ reply # <<>>
  /\ wire' = Append(wire, Head(reply))
  /\ reply' = Tail(reply)
  /\ begun' = TRUE
  /\ UNCHANGED <<settings, client, asked, closed, granted, torn, faults>>

EndpointSends ==
  /\ granted /\ ~closed /\ reply = <<>> /\ type # "none"
  /\ \A i \in DOMAIN wire : wire[i] # "data"    \* bound: one part
  /\ pc \in {"select", "read"}    \* later data is the session's
  /\ wire' = Append(wire, "data")
  /\ UNCHANGED <<settings, client, asked, reply, closed, granted, begun, torn, faults>>

(* The proxy, or the endpoint that is connected without one.               *)
PeerCloses ==
  /\ pc # "open" /\ ~closed
  /\ closed' = TRUE /\ reply' = <<>> /\ asked' = "none"
  /\ UNCHANGED <<settings, client, wire, granted, begun, torn, faults>>

Finished == pc = "done" /\ UNCHANGED vars

Next == Client \/ Shake \/ Answer \/ ProxySends \/ EndpointSends \/ PeerCloses \/ Finished

(* The thread that connects runs until a call blocks, its select ends, and *)
(* a close ends its handshake.  Nothing else is assumed of the proxy or of *)
(* the endpoint: an answer, in the handshake too, may never come.          *)
FairSpec == Init /\ [][Next]_vars /\ WF_vars(Client) /\ WF_vars(closed /\ Shake)

-----------------------------------------------------------------------------
(* Properties. *)

(* What the caller is told: connect sets an error only for a timeout, and  *)
(* async_connect calls back with the error of the helper, or the timeout.  *)
Success == pc = "done" /\ ~error /\ status # "TIMEOUT"

(* The refusals whose error does not leave their block. *)
Hidden == \/ stage = "socks4" /\ status = "ENDPOINT_ERROR"
          \/ stage = "method" /\ status = "PROXY_ERROR"

(* If no read took less than a reply, a connect that is reported as made   *)
(* has the endpoint behind it, except after a refusal that is hidden; and  *)
(* one that is reported as failed although the endpoint is connected had   *)
(* a fault, a timeout, a close, an HTTP/1.1 answer, or a TLS handshake     *)
(* whose first bytes went with the reply.  An answer in HTTP is read to    *)
(* its end however it is cut: there nothing is assumed of the reads.       *)
OutcomeTrue ==
  pc = "done" /\ ~Hidden /\ "less" \notin torn =>
    /\ Success => granted
    /\ granted => \/ Success \/ status = "TIMEOUT" \/ closed \/ faults > 0
                  \/ type = "http" /\ ~oldProxy
                  \/ ssl /\ torn # {}

(* A connect returns, unless the other end keeps the connection open and  *)
(* leaves the caller in one of the two steps that have no timeout: a read  *)
(* after the proxy has begun to answer, or the TLS handshake of SSLSocket, *)
(* behind a proxy or without one.                                          *)
ConnectReturns ==
  <>(pc = "done") \/ <>[](~closed /\ ((begun /\ pc = "read") \/ pc = "handshake"))
=============================================================================
