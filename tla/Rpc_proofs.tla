------------------------------ MODULE Rpc_proofs ------------------------------
(***************************************************************************)
(* Proofs about Rpc for every set of requests and any number of losses:    *)
(* its types; that a callback is called at most once, with the answer to   *)
(* its own request or with the error that it could not be sent; that a     *)
(* request is in one place at a time, its callback in the table while it   *)
(* is; and that client and server do only what RpcService allows.          *)
(***************************************************************************)
EXTENDS Rpc, FiniteSetTheorems, TLAPS

Responses == [seq : Nat, of : Requests, zip : BOOLEAN]
RequestHandler(r) == [what |-> "request", of |-> r]

(* Number s is under way for request r: in the table, in a message, in a   *)
(* task of the server, or in a response the client has read.               *)
InSequence(q, s, r) == \E i \in DOMAIN q : q[i].seq = s /\ q[i].of = r
InSet(T, s, r) == \E t \in T : t.seq = s /\ t.of = r
IsRead(s, r) == \E i \in DOMAIN ready : /\ ready[i].what = "response"
                                        /\ ready[i].msg.seq = s
                                        /\ ready[i].msg.of = r
UnderWay(s, r) == \/ InSet(cbs, s, r)
                  \/ InSequence(up, s, r) \/ InSequence(down, s, r)
                  \/ InSequence(dispatch, s, r)
                  \/ InSet(statTasks, s, r) \/ InSet(respTasks, s, r)
                  \/ IsRead(s, r)

(* The call of request r is posted and has not run. *)
Queued(r) == \E i \in DOMAIN ready : ready[i] = RequestHandler(r)

(* Every number under way has been given out, to a request that was made.  *)
Numbered == \A s \in Nat : \A r \in Requests :
              UnderWay(s, r) => s <= requestSeq /\ r \in asked /\ ~Queued(r)

(* One number for one request, wherever it appears. *)
Paired == \A s, t \in Nat : \A q, r \in Requests :
            UnderWay(s, q) /\ UnderWay(t, r) => (s = t <=> q = r)

(* A request is posted once, and nobody has called its callback before it  *)
(* was made and run, nor while the callback is in the table.               *)
QueuedOnce == \A r \in Requests : \A i, j \in DOMAIN ready :
                ready[i] = RequestHandler(r) /\ ready[j] = RequestHandler(r) => i = j
NotYetCalled == \A r \in Requests :
                  /\ Queued(r) => r \in asked /\ outcome[r] = << >>
                  /\ r \notin asked => outcome[r] = << >>
                  /\ \A s \in Nat : InSet(cbs, s, r) => outcome[r] = << >>

(* A callback is called at most once, with its own answer or "send error". *)
OwnAnswer == \A r \in Requests : outcome[r] \in {<< >>, <<r>>, <<NoError>>}

IInv == TypeOK /\ Numbered /\ Paired /\ QueuedOnce /\ NotYetCalled /\ OwnAnswer

-----------------------------------------------------------------------------
(* Sequences: what is in the rest, and what is in one that was appended to. *)
LEMMA TailFrom ==
  ASSUME NEW S, NEW q \in Seq(S), q # << >>
  PROVE  /\ Tail(q) \in Seq(S) /\ Head(q) \in S
         /\ 1 \in DOMAIN q /\ Head(q) = q[1]
         /\ \A i \in DOMAIN Tail(q) : i + 1 \in DOMAIN q /\ Tail(q)[i] = q[i + 1]
OBVIOUS

LEMMA AppendFrom ==
  ASSUME NEW S, NEW q \in Seq(S), NEW x \in S
  PROVE  /\ Append(q, x) \in Seq(S)
         /\ \A i \in DOMAIN Append(q, x) :
              \/ i \in DOMAIN q /\ Append(q, x)[i] = q[i]
              \/ i = Len(q) + 1 /\ Append(q, x)[i] = x
         /\ \A i \in DOMAIN q : i \in DOMAIN Append(q, x) /\ i # Len(q) + 1
OBVIOUS

LEMMA EmptySeq == ASSUME NEW S PROVE << >> \in Seq(S) /\ DOMAIN << >> = {}
OBVIOUS

(* What the io thread runs. *)
LEMMA HandlerKinds ==
  ASSUME NEW h \in Handlers
  PROVE  /\ h.what = "request" => h.of \in Requests /\ h = RequestHandler(h.of)
         /\ h.what = "response" => h.msg \in Responses
         /\ h.what = "error" => h.conn \in Nat
BY DEF Handlers, RequestHandler, Responses

LEMMA HandlerTypes ==
  /\ \A r \in Requests : RequestHandler(r) \in Handlers
  /\ \A m \in Responses : [what |-> "response", msg |-> m] \in Handlers
  /\ \A c \in Nat : [what |-> "error", conn |-> c] \in Handlers
BY DEF Handlers, RequestHandler, Responses

-----------------------------------------------------------------------------
LEMMA InitIInv == Init => IInv
<1> SUFFICES ASSUME Init PROVE IInv
  OBVIOUS
<1> USE DEF Init
<1>1. TypeOK
  BY EmptySeq DEF TypeOK
<1>2. \A s, r : ~UnderWay(s, r)
  BY EmptySeq DEF UnderWay, InSet, InSequence, IsRead
<1>3. \A r : ~Queued(r)
  BY EmptySeq DEF Queued
<1>4. Numbered /\ Paired
  BY <1>2 DEF Numbered, Paired
<1>5. QueuedOnce /\ NotYetCalled
  BY <1>3, EmptySeq DEF QueuedOnce, NotYetCalled, InSet
<1>6. OwnAnswer
  BY DEF OwnAnswer
<1> QED BY <1>1, <1>4, <1>5, <1>6 DEF IInv

(* A step that calls no callback, gives out no number and posts no request *)
(* keeps the invariant if nothing is under way or queued after it that was *)
(* not before.                                                             *)
LEMMA NothingNew ==
  ASSUME IInv, TypeOK', QueuedOnce',
         UNCHANGED <<requestSeq, asked, outcome>>, cbs' \subseteq cbs,
         \A s \in Nat : \A r \in Requests : UnderWay(s, r)' => UnderWay(s, r),
         \A r \in Requests : Queued(r)' => Queued(r)
  PROVE  IInv'
<1>1. Numbered'
  BY DEF IInv, Numbered
<1>2. Paired'
  BY DEF IInv, Paired
<1>3. NotYetCalled' /\ OwnAnswer'
  BY DEF IInv, NotYetCalled, OwnAnswer, InSet
<1> QED BY <1>1, <1>2, <1>3 DEF IInv

(* The io thread takes its first handler. *)
LEMMA TakeHandler ==
  ASSUME IInv, ready # << >>, ready' = Tail(ready)
  PROVE  /\ ready' \in Seq(Handlers) /\ Head(ready) \in Handlers
         /\ QueuedOnce'
         /\ \A r \in Requests : Queued(r)' => Queued(r)
         /\ \A s, r : IsRead(s, r)' => IsRead(s, r)
<1>1. ready \in Seq(Handlers)
  BY DEF IInv, TypeOK
<1>2. /\ ready' \in Seq(Handlers) /\ Head(ready) \in Handlers
      /\ \A i \in DOMAIN ready' : i \in Nat /\ i + 1 \in DOMAIN ready /\ ready'[i] = ready[i + 1]
  BY <1>1, TailFrom
<1>3. QueuedOnce'
  <2> SUFFICES ASSUME NEW r \in Requests, NEW i \in DOMAIN ready', NEW j \in DOMAIN ready',
                      ready'[i] = RequestHandler(r), ready'[j] = RequestHandler(r)
               PROVE  i = j
    BY DEF QueuedOnce
  <2>1. i + 1 = j + 1
    BY <1>2 DEF IInv, QueuedOnce
  <2> QED BY <1>2, <2>1
<1>4. \A r \in Requests : Queued(r)' => Queued(r)
  BY <1>2 DEF Queued
<1>5. \A s, r : IsRead(s, r)' => IsRead(s, r)
  BY <1>2 DEF IsRead
<1> QED BY <1>2, <1>3, <1>4, <1>5

(* A handler other than a request is posted. *)
LEMMA PostHandler ==
  ASSUME IInv, NEW h \in Handlers, h.what # "request", ready' = Append(ready, h)
  PROVE  /\ ready' \in Seq(Handlers)
         /\ QueuedOnce'
         /\ \A r \in Requests : Queued(r)' => Queued(r)
         /\ \A s, r : IsRead(s, r)' =>
              \/ IsRead(s, r)
              \/ h.what = "response" /\ h.msg.seq = s /\ h.msg.of = r
<1>1. ready \in Seq(Handlers)
  BY DEF IInv, TypeOK
<1>2. /\ ready' \in Seq(Handlers)
      /\ \A i \in DOMAIN ready' : \/ i \in DOMAIN ready /\ ready'[i] = ready[i]
                                  \/ ready'[i] = h
  BY <1>1, AppendFrom
<1>3. \A r : h # RequestHandler(r)
  BY DEF RequestHandler
<1>4. QueuedOnce'
  BY <1>2, <1>3 DEF IInv, QueuedOnce
<1>5. \A r \in Requests : Queued(r)' => Queued(r)
  BY <1>2, <1>3 DEF Queued
<1>6. \A s, r : IsRead(s, r)' =>
              \/ IsRead(s, r)
              \/ h.what = "response" /\ h.msg.seq = s /\ h.msg.of = r
  BY <1>2 DEF IsRead
<1> QED BY <1>2, <1>4, <1>5, <1>6

-----------------------------------------------------------------------------
(* The client. *)

LEMMA PostRequestIInv ==
  ASSUME IInv, NEW r \in Requests, PostRequest(r)
  PROVE  IInv'
<1>1. ready \in Seq(Handlers) /\ RequestHandler(r) \in Handlers
  BY HandlerTypes DEF IInv, TypeOK
<1>2. /\ r \notin asked /\ asked' = asked \cup {r}
      /\ ready' = Append(ready, RequestHandler(r))
      /\ UNCHANGED <<autoReConnect, requestSeq, cbs, outcome, session, connected, connecting,
                     link, up, down, dispatch, statTasks, respTasks, calls>>
  BY DEF PostRequest, RequestHandler, client, conn, server
<1>3. /\ ready' \in Seq(Handlers)
      /\ \A i \in DOMAIN ready' : \/ i \in DOMAIN ready /\ ready'[i] = ready[i]
                                  \/ i = Len(ready) + 1 /\ ready'[i] = RequestHandler(r)
  BY <1>1, <1>2, AppendFrom
<1>4. TypeOK'
  BY <1>2, <1>3 DEF IInv, TypeOK
<1>5. ~Queued(r) /\ outcome[r] = << >> /\ \A s \in Nat : ~UnderWay(s, r)
  BY <1>2 DEF IInv, NotYetCalled, Numbered
<1>6. \A q \in Requests : Queued(q)' => Queued(q) \/ q = r
  BY <1>3 DEF Queued, RequestHandler
<1>7. \A s, q : UnderWay(s, q)' => UnderWay(s, q)
  <2>1. \A s, q : IsRead(s, q)' => IsRead(s, q)
    BY <1>3 DEF IsRead, RequestHandler
  <2> QED BY <1>2, <2>1 DEF UnderWay, InSet, InSequence
<1>8. QueuedOnce'
  <2> SUFFICES ASSUME NEW q \in Requests, NEW i \in DOMAIN ready', NEW j \in DOMAIN ready',
                      ready'[i] = RequestHandler(q), ready'[j] = RequestHandler(q)
               PROVE  i = j
    BY DEF QueuedOnce
  <2>1. CASE q = r
    BY <1>3, <1>5, <2>1 DEF Queued
  <2>2. CASE q # r
    <3>1. RequestHandler(q) # RequestHandler(r)
      BY <2>2 DEF RequestHandler
    <3> QED BY <1>3, <3>1 DEF IInv, QueuedOnce
  <2> QED BY <2>1, <2>2
<1>9. Numbered'
  <2> SUFFICES ASSUME NEW s \in Nat, NEW q \in Requests, UnderWay(s, q)'
               PROVE  s <= requestSeq /\ q \in asked' /\ ~Queued(q)'
    BY <1>2 DEF Numbered
  <2>1. UnderWay(s, q) /\ q # r
    BY <1>5, <1>7
  <2> QED BY <1>2, <1>6, <2>1 DEF IInv, Numbered
<1>10. Paired'
  BY <1>7 DEF IInv, Paired
<1>11. NotYetCalled'
  <2>1. \A q \in Requests : Queued(q)' => q \in asked' /\ outcome'[q] = << >>
    BY <1>2, <1>5, <1>6 DEF IInv, NotYetCalled
  <2>2. \A q \in Requests : \A s \in Nat : InSet(cbs, s, q)' => outcome'[q] = << >>
    BY <1>2 DEF IInv, NotYetCalled, InSet
  <2>3. \A q \in Requests : q \notin asked' => outcome'[q] = << >>
    BY <1>2 DEF IInv, NotYetCalled
  <2> QED BY <2>1, <2>2, <2>3 DEF NotYetCalled
<1>12. OwnAnswer'
  BY <1>2 DEF IInv, OwnAnswer
<1> QED BY <1>4, <1>8, <1>9, <1>10, <1>11, <1>12 DEF IInv

(* request: a new number, for a request that has none. *)
LEMMA RequestIInv ==
  ASSUME IInv, Request
  PROVE  IInv'
<1>1. /\ ready # << >> /\ ready' = Tail(ready) /\ Head(ready).what = "request"
      /\ UNCHANGED <<autoReConnect, asked, session, connected, connecting, link,
                     down, dispatch, statTasks, respTasks, calls>>
  BY DEF Request, Runs, conn, server
<1>2. PICK r \in Requests : Head(ready) = RequestHandler(r)
  BY <1>1, TakeHandler, HandlerKinds
<1> DEFINE m == [seq |-> requestSeq + 1, of |-> r]
<1>3. /\ requestSeq \in Nat /\ requestSeq' = requestSeq + 1 /\ m \in Messages
      /\ up \in Seq(Messages) /\ outcome \in [Requests -> Seq(Requests \cup {NoError})]
      /\ cbs \subseteq Messages
  BY DEF IInv, TypeOK, Request, GenSeq, Messages
<1>4. /\ up' \in {up, Append(up, m)}
      /\ \/ /\ cbs' = {e \in cbs : e.seq # m.seq} \cup {m}
            /\ outcome' = outcome
         \/ /\ cbs' = cbs
            /\ up' = up
            /\ outcome' = [outcome EXCEPT ![r] = Append(@, NoError)]
  BY <1>2 DEF Request, GenSeq, RequestHandler
<1>5. Queued(r)
  <2>1. 1 \in DOMAIN ready /\ Head(ready) = ready[1]
    BY <1>1, TailFrom DEF IInv, TypeOK
  <2> QED BY <1>2, <2>1 DEF Queued
<1>6. ~Queued(r)'
  <2>1. ready \in Seq(Handlers)
    BY DEF IInv, TypeOK
  <2>2. /\ 1 \in DOMAIN ready /\ ready[1] = RequestHandler(r)
        /\ \A i \in DOMAIN ready' : i \in Nat \ {0} /\ i + 1 \in DOMAIN ready
                                    /\ ready'[i] = ready[i + 1]
    BY <1>1, <1>2, <2>1, TailFrom
  <2>3. \A i \in DOMAIN ready' : ready[i + 1] # RequestHandler(r)
    <3> SUFFICES ASSUME NEW i \in DOMAIN ready', ready[i + 1] = RequestHandler(r) PROVE FALSE
      OBVIOUS
    <3>1. i + 1 = 1
      BY <2>2 DEF IInv, QueuedOnce
    <3> QED BY <2>2, <3>1
  <2> QED BY <2>2, <2>3 DEF Queued
<1>7. r \in asked /\ outcome[r] = << >> /\ \A s \in Nat : ~UnderWay(s, r)
  BY <1>5 DEF IInv, NotYetCalled, Numbered
<1>8. \A s \in Nat : \A q \in Requests :
        UnderWay(s, q)' => UnderWay(s, q) \/ (s = requestSeq + 1 /\ q = r)
  <2> SUFFICES ASSUME NEW s \in Nat, NEW q \in Requests, UnderWay(s, q)'
               PROVE  UnderWay(s, q) \/ (s = requestSeq + 1 /\ q = r)
    OBVIOUS
  <2>1. IsRead(s, q)' => IsRead(s, q)
    BY <1>1, TakeHandler
  <2>2. InSet(cbs, s, q)' => InSet(cbs, s, q) \/ (s = m.seq /\ q = m.of)
    BY <1>4 DEF InSet
  <2>3. InSequence(up, s, q)' => InSequence(up, s, q) \/ (s = m.seq /\ q = m.of)
    <3>1. CASE up' = up
      BY <3>1 DEF InSequence
    <3>2. CASE up' = Append(up, m)
      <4>1. \A i \in DOMAIN up' : \/ i \in DOMAIN up /\ up'[i] = up[i]
                                  \/ up'[i] = m
        BY <1>3, <3>2, AppendFrom
      <4> HIDE DEF m
      <4> QED BY <4>1 DEF InSequence
    <3> QED BY <1>4, <3>1, <3>2
  <2>4. /\ InSequence(down, s, q)' => InSequence(down, s, q)
        /\ InSequence(dispatch, s, q)' => InSequence(dispatch, s, q)
        /\ InSet(statTasks, s, q)' => InSet(statTasks, s, q)
        /\ InSet(respTasks, s, q)' => InSet(respTasks, s, q)
    BY <1>1 DEF InSequence, InSet
  <2> QED BY <2>1, <2>2, <2>3, <2>4 DEF UnderWay
<1>9. \A s \in Nat : \A q \in Requests : UnderWay(s, q) => s # requestSeq + 1 /\ q # r
  BY <1>3, <1>7 DEF IInv, Numbered
<1>10. TypeOK'
  <2>1. up' \in Seq(Messages)
    <3>1. Append(up, m) \in Seq(Messages)
      <4> HIDE DEF m
      <4> QED BY <1>3, AppendFrom
    <3> QED BY <1>3, <1>4, <3>1
  <2>2. cbs' \subseteq Messages
    BY <1>3, <1>4
  <2>3. outcome' \in [Requests -> Seq(Requests \cup {NoError})]
    <3>1. Append(outcome[r], NoError) \in Seq(Requests \cup {NoError})
      BY <1>3, AppendFrom
    <3> QED BY <1>3, <1>4, <3>1
  <2>4. ready' \in Seq(Handlers)
    BY <1>1, TakeHandler
  <2>5. requestSeq' \in Nat
    BY <1>3
  <2> QED BY <1>1, <2>1, <2>2, <2>3, <2>4, <2>5 DEF IInv, TypeOK
<1>11. Numbered'
  <2> SUFFICES ASSUME NEW s \in Nat, NEW q \in Requests, UnderWay(s, q)'
               PROVE  s <= requestSeq' /\ q \in asked /\ ~Queued(q)'
    BY <1>1 DEF Numbered
  <2>1. CASE UnderWay(s, q)
    BY <1>1, <1>3, <2>1, TakeHandler DEF IInv, Numbered
  <2>2. CASE s = requestSeq + 1 /\ q = r
    BY <1>3, <1>6, <1>7, <2>2
  <2> QED BY <1>8, <2>1, <2>2
<1>12. Paired'
  <2> SUFFICES ASSUME NEW s \in Nat, NEW t \in Nat, NEW q \in Requests, NEW p \in Requests,
                      UnderWay(s, q)', UnderWay(t, p)'
               PROVE  s = t <=> q = p
    BY DEF Paired
  <2>1. CASE UnderWay(s, q) /\ UnderWay(t, p)
    BY <2>1 DEF IInv, Paired
  <2> QED BY <1>8, <1>9, <2>1
<1>13. NotYetCalled' /\ OwnAnswer'
  <2>1. \A q \in Requests : q # r => outcome'[q] = outcome[q]
    BY <1>3, <1>4
  <2>2. outcome'[r] \in {<< >>, <<NoError>>}
    BY <1>3, <1>4, <1>7
  <2>3. \A q \in Requests : Queued(q)' => q \in asked /\ outcome'[q] = << >>
    BY <1>1, <1>6, <2>1, TakeHandler DEF IInv, NotYetCalled
  <2>4. ASSUME NEW q \in Requests, NEW s \in Nat, InSet(cbs, s, q)'
        PROVE  outcome'[q] = << >>
    <3>1. CASE q = r
      <4>1. outcome' = outcome
        <5> SUFFICES ASSUME cbs' = cbs PROVE FALSE
          BY <1>4
        <5>1. InSet(cbs, s, r)
          BY <2>4, <3>1 DEF InSet
        <5> QED BY <1>7, <5>1 DEF UnderWay
      <4> QED BY <1>7, <3>1, <4>1
    <3>2. CASE q # r
      <4>1. InSet(cbs, s, q)
        BY <1>4, <2>4, <3>2 DEF InSet
      <4> QED BY <2>1, <3>2, <4>1 DEF IInv, NotYetCalled
    <3> QED BY <3>1, <3>2
  <2>5. NotYetCalled'
    <3>1. \A q \in Requests : q \notin asked => outcome'[q] = << >>
      BY <1>7, <2>1 DEF IInv, NotYetCalled
    <3> QED BY <1>1, <2>3, <2>4, <3>1 DEF NotYetCalled
  <2>6. OwnAnswer'
    BY <2>1, <2>2 DEF IInv, OwnAnswer
  <2> QED BY <2>5, <2>6
<1>14. QueuedOnce'
  BY <1>1, TakeHandler
<1> QED BY <1>10, <1>11, <1>12, <1>13, <1>14 DEF IInv

(* onPackageReceived: the callback found by the number of the response is  *)
(* the one of its request.                                                 *)
LEMMA OnPackageReceivedIInv ==
  ASSUME IInv, OnPackageReceived
  PROVE  IInv'
<1> DEFINE m == Head(ready).msg
           found == {e \in cbs : e.seq = m.seq}
<1>1. /\ ready # << >> /\ ready' = Tail(ready) /\ Head(ready).what = "response"
      /\ UNCHANGED <<autoReConnect, requestSeq, asked, session, connected, connecting, link,
                     up, down, dispatch, statTasks, respTasks, calls>>
  BY DEF OnPackageReceived, Runs, conn, server
<1>2. m \in Responses
  BY <1>1, TakeHandler, HandlerKinds
<1>3. /\ m.seq \in Nat /\ m.of \in Requests /\ cbs \subseteq Messages
      /\ outcome \in [Requests -> Seq(Requests \cup {NoError})]
  BY <1>2 DEF IInv, TypeOK, Responses
<1>4. UnderWay(m.seq, m.of)
  <2>1. 1 \in DOMAIN ready /\ ready[1] = Head(ready)
    BY <1>1, TailFrom DEF IInv, TypeOK
  <2>2. IsRead(m.seq, m.of)
    BY <1>1, <2>1 DEF IsRead
  <2> QED BY <2>2 DEF UnderWay
<1>5. \A e \in found : e.of = m.of
  <2> SUFFICES ASSUME NEW e \in found PROVE e.of = m.of
    OBVIOUS
  <2>1. e.seq = m.seq /\ e.of \in Requests
    BY <1>3 DEF Messages
  <2>2. UnderWay(m.seq, e.of)
    BY <2>1 DEF UnderWay, InSet
  <2> QED BY <1>3, <1>4, <2>1, <2>2 DEF IInv, Paired
<1>6. \/ cbs' = cbs /\ outcome' = outcome
      \/ /\ cbs' = cbs \ found
         /\ outcome' = [r \in Requests |-> IF \E e \in found : e.of = r
                                           THEN Append(outcome[r], m.of) ELSE outcome[r]]
  BY DEF OnPackageReceived
<1> HIDE DEF m, found
<1>7. \A r \in Requests : \/ outcome'[r] = outcome[r]
                          \/ /\ r = m.of /\ outcome[r] = << >> /\ outcome'[r] = <<r>>
                             /\ \A s \in Nat : ~InSet(cbs', s, r)
  <2> SUFFICES ASSUME NEW r \in Requests, outcome'[r] # outcome[r]
               PROVE  /\ r = m.of /\ outcome[r] = << >> /\ outcome'[r] = <<r>>
                      /\ \A s \in Nat : ~InSet(cbs', s, r)
    OBVIOUS
  <2>1. PICK e \in found : e.of = r
    BY <1>6
  <2>2. e \in cbs /\ e.seq \in Nat /\ e.seq = m.seq
    BY <1>3 DEF found, Messages
  <2>3. r = m.of
    BY <1>5, <2>1
  <2>4. outcome[r] = << >>
    BY <2>1, <2>2 DEF IInv, NotYetCalled, InSet
  <2>5. outcome'[r] = <<r>>
    BY <1>6, <2>1, <2>3, <2>4
  <2>6. ASSUME NEW s \in Nat, InSet(cbs', s, r) PROVE FALSE
    <3>1. PICK f \in cbs \ found : f.seq = s /\ f.of = r
      BY <1>6, <2>5, <2>4, <2>6 DEF InSet
    <3>2. UnderWay(s, r) /\ UnderWay(m.seq, r)
      BY <2>1, <2>2, <3>1 DEF UnderWay, InSet
    <3>3. s = m.seq
      BY <1>3, <3>2 DEF IInv, Paired
    <3> QED BY <3>1, <3>3 DEF found
  <2> QED BY <2>3, <2>4, <2>5, <2>6
<1>8. cbs' \subseteq cbs
  BY <1>6
<1>9. \A s \in Nat : \A r \in Requests : UnderWay(s, r)' => UnderWay(s, r)
  <2>1. \A s, r : IsRead(s, r)' => IsRead(s, r)
    BY <1>1, TakeHandler
  <2>2. \A s, r : InSet(cbs, s, r)' => InSet(cbs, s, r)
    BY <1>8 DEF InSet
  <2>3. \A s, r : /\ InSequence(up, s, r)' => InSequence(up, s, r)
                  /\ InSequence(down, s, r)' => InSequence(down, s, r)
                  /\ InSequence(dispatch, s, r)' => InSequence(dispatch, s, r)
                  /\ InSet(statTasks, s, r)' => InSet(statTasks, s, r)
                  /\ InSet(respTasks, s, r)' => InSet(respTasks, s, r)
    BY <1>1 DEF InSequence, InSet
  <2> QED BY <2>1, <2>2, <2>3 DEF UnderWay
<1>10. TypeOK'
  <2>1. outcome' \in [Requests -> Seq(Requests \cup {NoError})]
    <3>1. \A r \in Requests : Append(outcome[r], m.of) \in Seq(Requests \cup {NoError})
      BY <1>3, AppendFrom
    <3>2. CASE outcome' = outcome
      BY <1>3, <3>2
    <3>3. CASE outcome' = [r \in Requests |-> IF \E e \in found : e.of = r
                                              THEN Append(outcome[r], m.of) ELSE outcome[r]]
      <4>1. \A r \in Requests : (IF \E e \in found : e.of = r
                                 THEN Append(outcome[r], m.of) ELSE outcome[r])
                                  \in Seq(Requests \cup {NoError})
        BY <1>3, <3>1
      <4> QED BY <3>3, <4>1, Zenon
    <3> QED BY <1>6, <3>2, <3>3
  <2>2. ready' \in Seq(Handlers)
    BY <1>1, TakeHandler
  <2> QED BY <1>1, <1>3, <1>8, <2>1, <2>2 DEF IInv, TypeOK
<1>11. Numbered' /\ Paired'
  <2>1. \A r \in Requests : Queued(r)' => Queued(r)
    BY <1>1, TakeHandler
  <2>2. Numbered'
    BY <1>1, <1>9, <2>1 DEF IInv, Numbered
  <2>3. Paired'
    BY <1>9 DEF IInv, Paired
  <2> QED BY <2>2, <2>3
<1>12. NotYetCalled'
  <2> SUFFICES ASSUME NEW r \in Requests
               PROVE  /\ Queued(r)' => r \in asked /\ outcome'[r] = << >>
                      /\ r \notin asked => outcome'[r] = << >>
                      /\ \A s \in Nat : InSet(cbs', s, r) => outcome'[r] = << >>
    BY <1>1 DEF NotYetCalled, InSet
  <2>1. CASE outcome'[r] = outcome[r]
    <3>1. Queued(r)' => Queued(r)
      BY <1>1, TakeHandler
    <3>2. \A s \in Nat : InSet(cbs', s, r) => InSet(cbs, s, r)
      BY <1>8 DEF InSet
    <3> QED BY <2>1, <3>1, <3>2 DEF IInv, NotYetCalled
  <2>2. CASE r = m.of /\ \A s \in Nat : ~InSet(cbs', s, r)
    <3>1. r \in asked /\ ~Queued(r)
      BY <1>3, <1>4, <2>2 DEF IInv, Numbered
    <3>2. ~Queued(r)'
      BY <1>1, <3>1, TakeHandler
    <3> QED BY <2>2, <3>1, <3>2
  <2> QED BY <1>7, <2>1, <2>2
<1>13. OwnAnswer'
  BY <1>7 DEF IInv, OwnAnswer
<1>14. QueuedOnce'
  BY <1>1, TakeHandler
<1> QED BY <1>10, <1>11, <1>12, <1>13, <1>14 DEF IInv

(* A response is read: it is under way as before. *)
LEMMA ClientReceivesIInv ==
  ASSUME IInv, ClientReceives
  PROVE  IInv'
<1> DEFINE h == [what |-> "response", msg |-> Head(down)]
<1>1. /\ down # << >> /\ ready' = Append(ready, h) /\ down' = Tail(down)
      /\ UNCHANGED <<autoReConnect, requestSeq, cbs, outcome, asked, session, connected,
                     connecting, link, up, dispatch, statTasks, respTasks, calls>>
  BY DEF ClientReceives, client, conn, server
<1>2. down \in Seq(Responses)
  BY DEF IInv, TypeOK, Responses
<1>3. /\ down' \in Seq(Responses) /\ Head(down) \in Responses
      /\ 1 \in DOMAIN down /\ Head(down) = down[1]
      /\ \A i \in DOMAIN down' : i + 1 \in DOMAIN down /\ down'[i] = down[i + 1]
  BY <1>1, <1>2, TailFrom
<1>4. h \in Handlers /\ h.what = "response" /\ h.msg = Head(down)
  BY <1>3, HandlerTypes
<1> HIDE DEF h
<1>5. h.what # "request"
  BY <1>4
<1>6. /\ ready' \in Seq(Handlers) /\ QueuedOnce'
      /\ \A r \in Requests : Queued(r)' => Queued(r)
      /\ \A s, r : IsRead(s, r)' => IsRead(s, r) \/ (h.msg.seq = s /\ h.msg.of = r)
  BY <1>1, <1>4, <1>5, PostHandler
<1>7. TypeOK'
  BY <1>1, <1>3, <1>6 DEF IInv, TypeOK, Responses
<1>8. \A s \in Nat : \A r \in Requests : UnderWay(s, r)' => UnderWay(s, r)
  <2>1. \A s, r : IsRead(s, r)' => IsRead(s, r) \/ InSequence(down, s, r)
    BY <1>3, <1>4, <1>6 DEF InSequence
  <2>2. \A s, r : InSequence(down, s, r)' => InSequence(down, s, r)
    BY <1>3 DEF InSequence
  <2>3. \A s, r : /\ InSequence(up, s, r)' => InSequence(up, s, r)
                  /\ InSequence(dispatch, s, r)' => InSequence(dispatch, s, r)
                  /\ InSet(cbs, s, r)' => InSet(cbs, s, r)
                  /\ InSet(statTasks, s, r)' => InSet(statTasks, s, r)
                  /\ InSet(respTasks, s, r)' => InSet(respTasks, s, r)
    BY <1>1 DEF InSequence, InSet
  <2> QED BY <2>1, <2>2, <2>3 DEF UnderWay
<1> QED BY <1>1, <1>6, <1>7, <1>8, NothingNew

(* The end of a session, and the connect after it. *)
LEMMA OnConnectionErrorIInv ==
  ASSUME IInv, OnConnectionError
  PROVE  IInv'
<1>1. /\ ready # << >> /\ ready' = Tail(ready)
      /\ UNCHANGED <<autoReConnect, requestSeq, cbs, outcome, asked, session, link,
                     up, down, dispatch, statTasks, respTasks, calls>>
  BY DEF OnConnectionError, Runs, client, server
<1>2. connected' \in BOOLEAN /\ connecting' \in BOOLEAN
  BY DEF IInv, TypeOK, OnConnectionError
<1>3. TypeOK'
  BY <1>1, <1>2, TakeHandler DEF IInv, TypeOK
<1>4. \A s \in Nat : \A r \in Requests : UnderWay(s, r)' => UnderWay(s, r)
  <2>1. \A s, r : IsRead(s, r)' => IsRead(s, r)
    BY <1>1, TakeHandler
  <2> QED BY <1>1, <2>1 DEF UnderWay, InSet, InSequence
<1> QED BY <1>1, <1>3, <1>4, TakeHandler, NothingNew

LEMMA StartConnectSyncIInv ==
  ASSUME IInv, StartConnectSync
  PROVE  IInv'
<1>1. UNCHANGED <<autoReConnect, requestSeq, cbs, outcome, asked, ready,
                  up, down, dispatch, statTasks, respTasks, calls>>
  BY DEF StartConnectSync, client, server
<1>2. TypeOK'
  <2>1. connecting' = FALSE /\ connected' = TRUE /\ link' = TRUE /\ session' = session + 1
    BY DEF StartConnectSync
  <2>2. /\ connecting' \in BOOLEAN /\ connected' \in BOOLEAN /\ link' \in BOOLEAN
        /\ session' \in Nat
    <3>1. connecting' \in BOOLEAN /\ connected' \in BOOLEAN /\ link' \in BOOLEAN
      BY <2>1
    <3>2. session \in Nat
      BY DEF IInv, TypeOK
    <3> QED BY <2>1, <3>1, <3>2
  <2>3. /\ autoReConnect' \in BOOLEAN /\ requestSeq' \in Nat /\ cbs' \subseteq Messages
        /\ outcome' \in [Requests -> Seq(Requests \cup {NoError})]
        /\ asked' \subseteq Requests /\ calls' \in [{"break", "failure"} -> Nat]
    BY <1>1 DEF IInv, TypeOK
  <2>4. /\ ready' \in Seq(Handlers) /\ up' \in Seq(Messages)
        /\ down' \in Seq([seq : Nat, of : Requests, zip : BOOLEAN])
        /\ dispatch' \in Seq(Tasks) /\ statTasks' \subseteq Tasks /\ respTasks' \subseteq Tasks
    BY <1>1 DEF IInv, TypeOK
  <2> QED BY <2>2, <2>3, <2>4 DEF TypeOK
<1>3. QueuedOnce' /\ \A r \in Requests : Queued(r)' => Queued(r)
  BY <1>1 DEF IInv, QueuedOnce, Queued
<1>4. \A s \in Nat : \A r \in Requests : UnderWay(s, r)' => UnderWay(s, r)
  BY <1>1 DEF UnderWay, InSet, InSequence, IsRead
<1> QED BY <1>1, <1>2, <1>3, <1>4, NothingNew

(* What counts a bounded thing keeps the type of the counters. *)
LEMMA CountedType ==
  ASSUME TypeOK, NEW what \in {"break", "failure"}, Counted(what)
  PROVE  calls' \in [{"break", "failure"} -> Nat]
BY DEF TypeOK, Counted

(* A lost connection takes messages with it and brings none. *)
LEMMA BreakIInv ==
  ASSUME IInv, Break
  PROVE  IInv'
<1> DEFINE h == [what |-> "error", conn |-> session]
<1>1. /\ up' = << >> /\ down' = << >> /\ link' = FALSE
      /\ ready' = Append(ready, h)
      /\ UNCHANGED <<autoReConnect, requestSeq, cbs, outcome, asked, session, connected, connecting>>
      /\ \/ UNCHANGED <<dispatch, statTasks, respTasks>>
         \/ dispatch' = << >> /\ statTasks' = {} /\ respTasks' = {}
  BY DEF Break, client, server
<1>2. h \in Handlers /\ h.what = "error"
  BY HandlerTypes DEF IInv, TypeOK
<1> HIDE DEF h
<1>3. h.what # "request" /\ h.what # "response"
  BY <1>2
<1>4. /\ ready' \in Seq(Handlers) /\ QueuedOnce'
      /\ \A r \in Requests : Queued(r)' => Queued(r)
      /\ \A s, r : IsRead(s, r)' => IsRead(s, r)
  BY <1>1, <1>2, <1>3, PostHandler
<1>5. calls' \in [{"break", "failure"} -> Nat]
  BY CountedType DEF IInv, Break
<1>6. /\ up' \in Seq(Messages) /\ down' \in Seq(Responses)
      /\ dispatch' \in Seq(Tasks) /\ statTasks' \subseteq Tasks /\ respTasks' \subseteq Tasks
  BY <1>1, EmptySeq DEF IInv, TypeOK
<1>7. TypeOK'
  <2>1. /\ autoReConnect' \in BOOLEAN /\ requestSeq' \in Nat
        /\ cbs' \subseteq Messages
        /\ outcome' \in [Requests -> Seq(Requests \cup {NoError})]
        /\ asked' \subseteq Requests /\ session' \in Nat
        /\ connected' \in BOOLEAN /\ connecting' \in BOOLEAN
    <3>1. UNCHANGED <<autoReConnect, requestSeq, cbs, outcome, asked, session,
                      connected, connecting>>
      BY <1>1 DEF Break
    <3> QED BY <3>1 DEF IInv, TypeOK
  <2>2. link' \in BOOLEAN
    BY <1>1
  <2>3. down' \in Seq([seq : Nat, of : Requests, zip : BOOLEAN])
    BY <1>6 DEF Responses
  <2> QED BY <1>4, <1>5, <1>6, <2>1, <2>2, <2>3 DEF TypeOK
<1>8. \A s \in Nat : \A r \in Requests : UnderWay(s, r)' => UnderWay(s, r)
  <2>1. \A s, r : /\ ~InSequence(up, s, r)' /\ ~InSequence(down, s, r)'
                  /\ InSequence(dispatch, s, r)' => InSequence(dispatch, s, r)
                  /\ InSet(cbs, s, r)' => InSet(cbs, s, r)
                  /\ InSet(statTasks, s, r)' => InSet(statTasks, s, r)
                  /\ InSet(respTasks, s, r)' => InSet(respTasks, s, r)
    BY <1>1, EmptySeq DEF InSequence, InSet
  <2> QED BY <1>4, <2>1 DEF UnderWay
<1> QED BY <1>1, <1>4, <1>7, <1>8, NothingNew

-----------------------------------------------------------------------------
(* The server: it moves numbers and makes none. *)

LEMMA ServerReceivesIInv ==
  ASSUME IInv, ServerReceives
  PROVE  IInv'
<1> DEFINE t == [seq |-> Head(up).seq, of |-> Head(up).of, conn |-> session]
<1>1. /\ up # << >> /\ up' = Tail(up) /\ dispatch' = Append(dispatch, t)
      /\ UNCHANGED <<autoReConnect, requestSeq, cbs, outcome, asked, ready, session, connected,
                     connecting, link, down, statTasks, respTasks, calls>>
  BY DEF ServerReceives, client, conn
<1>2. /\ up' \in Seq(Messages) /\ Head(up) \in Messages
      /\ 1 \in DOMAIN up /\ Head(up) = up[1]
      /\ \A i \in DOMAIN up' : i + 1 \in DOMAIN up /\ up'[i] = up[i + 1]
  BY <1>1, TailFrom DEF IInv, TypeOK
<1>3. t \in Tasks /\ t.seq = up[1].seq /\ t.of = up[1].of
  BY <1>2 DEF IInv, TypeOK, Messages, Tasks
<1> HIDE DEF t
<1>4. /\ dispatch' \in Seq(Tasks)
      /\ \A i \in DOMAIN dispatch' : \/ i \in DOMAIN dispatch /\ dispatch'[i] = dispatch[i]
                                     \/ dispatch'[i] = t
  BY <1>1, <1>3, AppendFrom DEF IInv, TypeOK
<1>5. TypeOK'
  BY <1>1, <1>2, <1>4 DEF IInv, TypeOK
<1>6. QueuedOnce' /\ \A r \in Requests : Queued(r)' => Queued(r)
  BY <1>1 DEF IInv, QueuedOnce, Queued
<1>7. \A s \in Nat : \A r \in Requests : UnderWay(s, r)' => UnderWay(s, r)
  <2>1. \A s, r : InSequence(up, s, r)' => InSequence(up, s, r)
    BY <1>2 DEF InSequence
  <2>2. \A s, r : InSequence(dispatch, s, r)' => InSequence(dispatch, s, r) \/ InSequence(up, s, r)
    BY <1>2, <1>3, <1>4 DEF InSequence
  <2>3. \A s, r : /\ InSequence(down, s, r)' => InSequence(down, s, r)
                  /\ InSet(cbs, s, r)' => InSet(cbs, s, r)
                  /\ InSet(statTasks, s, r)' => InSet(statTasks, s, r)
                  /\ InSet(respTasks, s, r)' => InSet(respTasks, s, r)
                  /\ IsRead(s, r)' => IsRead(s, r)
    BY <1>1 DEF InSequence, InSet, IsRead
  <2> QED BY <2>1, <2>2, <2>3 DEF UnderWay
<1> QED BY <1>1, <1>5, <1>6, <1>7, NothingNew

LEMMA OnRequestIInv ==
  ASSUME IInv, OnRequest
  PROVE  IInv'
<1>1. /\ dispatch # << >> /\ dispatch' = Tail(dispatch)
      /\ statTasks' \subseteq statTasks \cup {Head(dispatch)}
      /\ respTasks' \subseteq respTasks \cup {Head(dispatch)}
      /\ UNCHANGED <<autoReConnect, requestSeq, cbs, outcome, asked, ready, session, connected,
                     connecting, link, up, down>>
  BY DEF OnRequest, client, conn
<1>2. /\ dispatch' \in Seq(Tasks) /\ Head(dispatch) \in Tasks
      /\ 1 \in DOMAIN dispatch /\ Head(dispatch) = dispatch[1]
      /\ \A i \in DOMAIN dispatch' : i + 1 \in DOMAIN dispatch /\ dispatch'[i] = dispatch[i + 1]
  BY <1>1, TailFrom DEF IInv, TypeOK
<1>3. calls' \in [{"break", "failure"} -> Nat]
  BY CountedType DEF IInv, TypeOK, OnRequest
<1>4. TypeOK'
  BY <1>1, <1>2, <1>3 DEF IInv, TypeOK
<1>5. QueuedOnce' /\ \A r \in Requests : Queued(r)' => Queued(r)
  BY <1>1 DEF IInv, QueuedOnce, Queued
<1>6. \A s \in Nat : \A r \in Requests : UnderWay(s, r)' => UnderWay(s, r)
  <2>1. \A s, r : InSequence(dispatch, s, r)' => InSequence(dispatch, s, r)
    BY <1>2 DEF InSequence
  <2>2. \A s, r : /\ InSet(statTasks, s, r)' => InSet(statTasks, s, r) \/ InSequence(dispatch, s, r)
                  /\ InSet(respTasks, s, r)' => InSet(respTasks, s, r) \/ InSequence(dispatch, s, r)
    BY <1>1, <1>2 DEF InSet, InSequence
  <2>3. \A s, r : /\ InSequence(up, s, r)' => InSequence(up, s, r)
                  /\ InSequence(down, s, r)' => InSequence(down, s, r)
                  /\ InSet(cbs, s, r)' => InSet(cbs, s, r)
                  /\ IsRead(s, r)' => IsRead(s, r)
    BY <1>1 DEF InSequence, InSet, IsRead
  <2> QED BY <2>1, <2>2, <2>3 DEF UnderWay
<1> QED BY <1>1, <1>4, <1>5, <1>6, NothingNew

LEMMA SendRespIInv ==
  ASSUME IInv, NEW t \in statTasks \cup respTasks, SendResp(t)
  PROVE  IInv'
<1>1. t \in Tasks
  BY DEF IInv, TypeOK
<1>2. PICK m \in Responses : m.seq = t.seq /\ m.of = t.of /\ down' \in {down, Append(down, m)}
  <2>1. PICK zip \in BOOLEAN :
          down' \in {down, Append(down, [seq |-> t.seq, of |-> t.of, zip |-> zip])}
    BY DEF SendResp
  <2>2. [seq |-> t.seq, of |-> t.of, zip |-> zip] \in Responses
    BY <1>1 DEF Tasks, Responses
  <2> QED BY <2>1, <2>2
<1>3. /\ statTasks' \subseteq statTasks /\ respTasks' \subseteq respTasks
      /\ UNCHANGED <<autoReConnect, requestSeq, cbs, outcome, asked, ready, session, connected,
                     connecting, link, up, dispatch>>
  BY DEF SendResp, client, conn
<1>4. /\ down' \in Seq(Responses)
      /\ \A i \in DOMAIN down' : \/ i \in DOMAIN down /\ down'[i] = down[i]
                                 \/ down'[i] = m
  <2>1. down \in Seq(Responses)
    BY DEF IInv, TypeOK, Responses
  <2> QED BY <1>2, <2>1, AppendFrom
<1>5. calls' \in [{"break", "failure"} -> Nat]
  BY CountedType DEF IInv, TypeOK, SendResp
<1>6. TypeOK'
  BY <1>3, <1>4, <1>5 DEF IInv, TypeOK, Responses
<1>7. QueuedOnce' /\ \A r \in Requests : Queued(r)' => Queued(r)
  BY <1>3 DEF IInv, QueuedOnce, Queued
<1>8. \A s \in Nat : \A r \in Requests : UnderWay(s, r)' => UnderWay(s, r)
  <2>1. \A s, r : InSequence(down, s, r)' => \/ InSequence(down, s, r)
                                            \/ InSet(statTasks, s, r) \/ InSet(respTasks, s, r)
    BY <1>2, <1>4 DEF InSequence, InSet
  <2>2. \A s, r : /\ InSequence(up, s, r)' => InSequence(up, s, r)
                  /\ InSequence(dispatch, s, r)' => InSequence(dispatch, s, r)
                  /\ InSet(cbs, s, r)' => InSet(cbs, s, r)
                  /\ InSet(statTasks, s, r)' => InSet(statTasks, s, r)
                  /\ InSet(respTasks, s, r)' => InSet(respTasks, s, r)
                  /\ IsRead(s, r)' => IsRead(s, r)
    BY <1>3 DEF InSequence, InSet, IsRead
  <2> QED BY <2>1, <2>2 DEF UnderWay
<1> QED BY <1>3, <1>6, <1>7, <1>8, NothingNew

-----------------------------------------------------------------------------
LEMMA NextIInv == IInv /\ [Next]_vars => IInv'
<1> SUFFICES ASSUME IInv, [Next]_vars PROVE IInv'
  OBVIOUS
<1>1. CASE \E r \in Requests : PostRequest(r)
  BY <1>1, PostRequestIInv
<1>2. CASE ClientThread
  BY <1>2, RequestIInv, OnPackageReceivedIInv, OnConnectionErrorIInv, StartConnectSyncIInv
     DEF ClientThread
<1>3. CASE ClientReceives
  BY <1>3, ClientReceivesIInv
<1>4. CASE Break
  BY <1>4, BreakIInv
<1>5. CASE ServerReceives \/ OnRequest \/ ServerPools
  BY <1>5, ServerReceivesIInv, OnRequestIInv, SendRespIInv DEF ServerPools
<1>6. CASE UNCHANGED vars
  <2>1. UNCHANGED <<autoReConnect, requestSeq, cbs, outcome, asked, ready, session, connected,
                    connecting, link, up, down, dispatch, statTasks, respTasks, calls>>
    BY <1>6 DEF vars, client, conn, server
  <2>2. TypeOK' /\ QueuedOnce' /\ \A r \in Requests : Queued(r)' => Queued(r)
    BY <2>1 DEF IInv, TypeOK, QueuedOnce, Queued
  <2>3. \A s \in Nat : \A r \in Requests : UnderWay(s, r)' => UnderWay(s, r)
    BY <2>1 DEF UnderWay, InSet, InSequence, IsRead
  <2> QED BY <2>1, <2>2, <2>3, NothingNew
<1> QED BY <1>1, <1>2, <1>3, <1>4, <1>5, <1>6 DEF Next, Rest

LEMMA Inductive == Spec => []IInv
<1> QED BY InitIInv, NextIInv, PTL DEF Spec

(* The client, the messages and the server's tasks keep their types, for   *)
(* any number of requests and losses.                                      *)
THEOREM TypeCorrect == Spec => []TypeOK
<1>1. IInv => TypeOK
  BY DEF IInv
<1> QED BY Inductive, <1>1, PTL

(* Whatever is lost, overtaken or answered by a server that knows nothing  *)
(* of the request any more: a callback is called at most once, and with    *)
(* the answer to its own request or the error that it could not be sent.   *)
THEOREM AnswersOwn == Spec => []OwnAnswer
<1>1. IInv => OwnAnswer
  BY DEF IInv
<1> QED BY Inductive, <1>1, PTL

-----------------------------------------------------------------------------
(* Where a request is: one place after the other, with its callback in the *)
(* table.                                                                  *)

(* Number s of request r is at place x of k: a message by its position in  *)
(* its queue, a task by itself.                                            *)
At(k, x, s, r) ==
  \/ k = "up" /\ x \in DOMAIN up /\ up[x].seq = s /\ up[x].of = r
  \/ k = "dispatch" /\ x \in DOMAIN dispatch /\ dispatch[x].seq = s /\ dispatch[x].of = r
  \/ k = "stat" /\ x \in statTasks /\ x.seq = s /\ x.of = r
  \/ k = "resp" /\ x \in respTasks /\ x.seq = s /\ x.of = r
  \/ k = "down" /\ x \in DOMAIN down /\ down[x].seq = s /\ down[x].of = r
  \/ /\ k = "ready" /\ x \in DOMAIN ready /\ ready[x].what = "response"
     /\ ready[x].msg.seq = s /\ ready[x].msg.of = r

(* A request is at one place at most. *)
Unique == \A r \in Requests : \A s, t \in Nat : \A k, l, x, y :
            At(k, x, s, r) /\ At(l, y, t, r) => k = l /\ x = y

(* While it is at one its callback is in the table, under its number. *)
Tabled == \A r \in Requests : \A s \in Nat : \A k, x : At(k, x, s, r) => InSet(cbs, s, r)

PlaceInv == IInv /\ Unique /\ Tabled

LEMMA AtUnderWay ==
  ASSUME NEW k, NEW x, NEW s, NEW r, At(k, x, s, r)
  PROVE  UnderWay(s, r)
BY DEF At, UnderWay, InSequence, InSet, IsRead

(* Positions in what is left of a queue, and in a queue that grew. *)
LEMMA TailAt ==
  ASSUME NEW S, NEW q \in Seq(S), q # << >>
  PROVE  /\ 1 \in DOMAIN q /\ Head(q) = q[1]
         /\ \A i \in DOMAIN Tail(q) : /\ i \in Nat /\ i >= 1
                                      /\ i + 1 \in DOMAIN q /\ Tail(q)[i] = q[i + 1]
OBVIOUS

(* What is at a place after a step was there before, except for what moves *)
(* from one place to another, and for a queue that loses its head.         *)
Moved(queue, k0, x0, k1, x1) ==
  \A k, x, s, r : At(k, x, s, r)' =>
    \/ k = k1 /\ x = x1 /\ At(k0, x0, s, r)
    \/ /\ ~(k = k1 /\ x = x1) /\ ~(k = k0 /\ x = x0)
       /\ k # queue /\ At(k, x, s, r)
    \/ /\ ~(k = k1 /\ x = x1) /\ ~(k = k0 /\ x + 1 = x0)
       /\ k = queue /\ x \in Nat /\ At(k, x + 1, s, r)

LEMMA MovedUnique ==
  ASSUME Unique, NEW queue, NEW k0, NEW x0, NEW k1, NEW x1, Moved(queue, k0, x0, k1, x1)
  PROVE  Unique'
<1> SUFFICES ASSUME NEW r \in Requests, NEW s \in Nat, NEW t \in Nat,
                    NEW k, NEW l, NEW x, NEW y, At(k, x, s, r)', At(l, y, t, r)'
             PROVE  k = l /\ x = y
  BY DEF Unique
<1>1. \/ k = k1 /\ x = x1 /\ At(k0, x0, s, r)
      \/ ~(k = k1 /\ x = x1) /\ ~(k = k0 /\ x = x0) /\ k # queue /\ At(k, x, s, r)
      \/ /\ ~(k = k1 /\ x = x1) /\ ~(k = k0 /\ x + 1 = x0)
         /\ k = queue /\ x \in Nat /\ At(k, x + 1, s, r)
  BY DEF Moved
<1>2. \/ l = k1 /\ y = x1 /\ At(k0, x0, t, r)
      \/ ~(l = k1 /\ y = x1) /\ ~(l = k0 /\ y = x0) /\ l # queue /\ At(l, y, t, r)
      \/ /\ ~(l = k1 /\ y = x1) /\ ~(l = k0 /\ y + 1 = x0)
         /\ l = queue /\ y \in Nat /\ At(l, y + 1, t, r)
  BY DEF Moved
<1>3. \A m, n, z, w : At(m, z, s, r) /\ At(n, w, t, r) => m = n /\ z = w
  BY DEF Unique
<1>4. CASE k = k1 /\ x = x1 /\ At(k0, x0, s, r)
  BY <1>2, <1>3, <1>4
<1>5. CASE ~(k = k1 /\ x = x1) /\ ~(k = k0 /\ x = x0) /\ k # queue /\ At(k, x, s, r)
  BY <1>2, <1>3, <1>5
<1>6. CASE /\ ~(k = k1 /\ x = x1) /\ ~(k = k0 /\ x + 1 = x0)
           /\ k = queue /\ x \in Nat /\ At(k, x + 1, s, r)
  <2>1. l = queue /\ y \in Nat /\ At(l, y + 1, t, r)
    BY <1>2, <1>3, <1>6
  <2>2. x + 1 = y + 1
    BY <1>3, <1>6, <2>1
  <2> QED BY <1>6, <2>1, <2>2
<1> QED BY <1>1, <1>4, <1>5, <1>6

LEMMA MovedTabled ==
  ASSUME Tabled, NEW queue, NEW k0, NEW x0, NEW k1, NEW x1, Moved(queue, k0, x0, k1, x1),
         cbs' = cbs
  PROVE  Tabled'
<1> SUFFICES ASSUME NEW r \in Requests, NEW s \in Nat, NEW k, NEW x, At(k, x, s, r)'
             PROVE  InSet(cbs, s, r)'
  BY DEF Tabled
<1>1. InSet(cbs, s, r)
  BY DEF Moved, Tabled
<1> QED BY <1>1 DEF InSet

(* The steps of the network and the server. *)
LEMMA ClientReceivesMoves ==
  ASSUME IInv, ClientReceives
  PROVE  Moved("down", "down", 1, "ready", Len(ready) + 1)
<1> DEFINE h == [what |-> "response", msg |-> Head(down)]
<1>1. /\ down # << >> /\ ready' = Append(ready, h) /\ down' = Tail(down)
      /\ UNCHANGED <<up, dispatch, statTasks, respTasks>>
  BY DEF ClientReceives, server
<1>2. down \in Seq(Responses) /\ ready \in Seq(Handlers)
  BY DEF IInv, TypeOK, Responses
<1>3. /\ 1 \in DOMAIN down /\ Head(down) = down[1]
      /\ \A i \in DOMAIN down' : /\ i \in Nat /\ i >= 1
                                 /\ i + 1 \in DOMAIN down /\ down'[i] = down[i + 1]
  BY <1>1, <1>2, TailAt
<1>4. h \in Handlers /\ h.what = "response" /\ h.msg = Head(down)
  BY <1>1, <1>2, TailFrom, HandlerTypes
<1> HIDE DEF h
<1>5. /\ \A i \in DOMAIN ready' : \/ i \in DOMAIN ready /\ ready'[i] = ready[i]
                                  \/ i = Len(ready) + 1 /\ ready'[i] = h
      /\ \A i \in DOMAIN ready : i # Len(ready) + 1
  BY <1>1, <1>2, <1>4, AppendFrom
<1> SUFFICES ASSUME NEW k, NEW x, NEW s, NEW r, At(k, x, s, r)'
             PROVE  \/ k = "ready" /\ x = Len(ready) + 1 /\ At("down", 1, s, r)
                    \/ /\ ~(k = "ready" /\ x = Len(ready) + 1) /\ ~(k = "down" /\ x = 1)
                       /\ k # "down" /\ At(k, x, s, r)
                    \/ /\ ~(k = "ready" /\ x = Len(ready) + 1) /\ ~(k = "down" /\ x + 1 = 1)
                       /\ k = "down" /\ x \in Nat /\ At(k, x + 1, s, r)
  BY DEF Moved
<1>6. CASE k = "ready"
  BY <1>3, <1>4, <1>5, <1>6 DEF At
<1>7. CASE k = "down"
  BY <1>3, <1>7 DEF At
<1>8. CASE k \notin {"ready", "down"}
  BY <1>1, <1>8 DEF At
<1> QED BY <1>6, <1>7, <1>8

LEMMA ServerReceivesMoves ==
  ASSUME IInv, ServerReceives
  PROVE  Moved("up", "up", 1, "dispatch", Len(dispatch) + 1)
<1> DEFINE t == [seq |-> Head(up).seq, of |-> Head(up).of, conn |-> session]
<1>1. /\ up # << >> /\ up' = Tail(up) /\ dispatch' = Append(dispatch, t)
      /\ UNCHANGED <<ready, down, statTasks, respTasks>>
  BY DEF ServerReceives, client, conn
<1>2. up \in Seq(Messages) /\ dispatch \in Seq(Tasks) /\ session \in Nat
  BY DEF IInv, TypeOK
<1>3. /\ 1 \in DOMAIN up /\ Head(up) = up[1]
      /\ \A i \in DOMAIN up' : /\ i \in Nat /\ i >= 1
                               /\ i + 1 \in DOMAIN up /\ up'[i] = up[i + 1]
  BY <1>1, <1>2, TailAt
<1>4. t \in Tasks /\ t.seq = up[1].seq /\ t.of = up[1].of
  <2>1. Head(up) \in Messages
    BY <1>1, <1>2, TailFrom
  <2> QED BY <1>2, <1>3, <2>1 DEF Messages, Tasks
<1> HIDE DEF t
<1>5. /\ \A i \in DOMAIN dispatch' : \/ i \in DOMAIN dispatch /\ dispatch'[i] = dispatch[i]
                                     \/ i = Len(dispatch) + 1 /\ dispatch'[i] = t
      /\ \A i \in DOMAIN dispatch : i # Len(dispatch) + 1
  BY <1>1, <1>2, <1>4, AppendFrom
<1> SUFFICES ASSUME NEW k, NEW x, NEW s, NEW r, At(k, x, s, r)'
             PROVE  \/ k = "dispatch" /\ x = Len(dispatch) + 1 /\ At("up", 1, s, r)
                    \/ /\ ~(k = "dispatch" /\ x = Len(dispatch) + 1) /\ ~(k = "up" /\ x = 1)
                       /\ k # "up" /\ At(k, x, s, r)
                    \/ /\ ~(k = "dispatch" /\ x = Len(dispatch) + 1) /\ ~(k = "up" /\ x + 1 = 1)
                       /\ k = "up" /\ x \in Nat /\ At(k, x + 1, s, r)
  BY DEF Moved
<1>6. CASE k = "dispatch"
  BY <1>3, <1>4, <1>5, <1>6 DEF At
<1>7. CASE k = "up"
  BY <1>3, <1>7 DEF At
<1>8. CASE k \notin {"dispatch", "up"}
  BY <1>1, <1>8 DEF At
<1> QED BY <1>6, <1>7, <1>8

LEMMA OnRequestMoves ==
  ASSUME IInv, OnRequest
  PROVE  \E k1 \in {"stat", "resp"} : Moved("dispatch", "dispatch", 1, k1, Head(dispatch))
<1> DEFINE t == Head(dispatch)
<1>1. /\ dispatch # << >> /\ dispatch' = Tail(dispatch)
      /\ \/ statTasks' \subseteq statTasks \cup {t} /\ UNCHANGED respTasks
         \/ respTasks' \subseteq respTasks \cup {t} /\ UNCHANGED statTasks
      /\ UNCHANGED <<ready, up, down>>
  BY DEF OnRequest, client, conn
<1>2. dispatch \in Seq(Tasks)
  BY DEF IInv, TypeOK
<1>3. /\ 1 \in DOMAIN dispatch /\ t = dispatch[1]
      /\ \A i \in DOMAIN dispatch' : /\ i \in Nat /\ i >= 1
                                     /\ i + 1 \in DOMAIN dispatch /\ dispatch'[i] = dispatch[i + 1]
  BY <1>1, <1>2, TailAt
<1> HIDE DEF t
<1>4. ASSUME NEW s, NEW r, t.seq = s /\ t.of = r
      PROVE  At("dispatch", 1, s, r)
  BY <1>3, <1>4 DEF At
<1>5. ASSUME NEW k1 \in {"stat", "resp"},
             k1 = "stat" => statTasks' \subseteq statTasks \cup {t} /\ UNCHANGED respTasks,
             k1 = "resp" => respTasks' \subseteq respTasks \cup {t} /\ UNCHANGED statTasks
      PROVE  Moved("dispatch", "dispatch", 1, k1, t)
  <2> SUFFICES ASSUME NEW k, NEW x, NEW s, NEW r, At(k, x, s, r)'
               PROVE  \/ k = k1 /\ x = t /\ At("dispatch", 1, s, r)
                      \/ /\ ~(k = k1 /\ x = t) /\ ~(k = "dispatch" /\ x = 1)
                         /\ k # "dispatch" /\ At(k, x, s, r)
                      \/ /\ ~(k = k1 /\ x = t) /\ ~(k = "dispatch" /\ x + 1 = 1)
                         /\ k = "dispatch" /\ x \in Nat /\ At(k, x + 1, s, r)
    BY DEF Moved
  <2>1. CASE k = "dispatch"
    BY <1>3, <1>5, <2>1 DEF At
  <2>2. CASE k = "stat"
    BY <1>4, <1>5, <2>2 DEF At
  <2>3. CASE k = "resp"
    BY <1>4, <1>5, <2>3 DEF At
  <2>4. CASE k \notin {"dispatch", "stat", "resp"}
    BY <1>1, <1>5, <2>4 DEF At
  <2> QED BY <2>1, <2>2, <2>3, <2>4
<1>6. CASE statTasks' \subseteq statTasks \cup {t} /\ UNCHANGED respTasks
  <2>1. Moved("dispatch", "dispatch", 1, "stat", t)
    BY <1>5, <1>6
  <2> QED BY <2>1 DEF t
<1>7. CASE respTasks' \subseteq respTasks \cup {t} /\ UNCHANGED statTasks
  <2>1. Moved("dispatch", "dispatch", 1, "resp", t)
    BY <1>5, <1>7
  <2> QED BY <2>1 DEF t
<1> QED BY <1>1, <1>6, <1>7

LEMMA SendRespMoves ==
  ASSUME IInv, NEW t \in statTasks \cup respTasks, SendResp(t)
  PROVE  \E k0 \in {"stat", "resp"} : Moved("none", k0, t, "down", Len(down) + 1)
<1>1. t \in Tasks /\ down \in Seq(Responses)
  BY DEF IInv, TypeOK, Responses
<1>2. PICK m \in Responses : m.seq = t.seq /\ m.of = t.of /\ down' \in {down, Append(down, m)}
  <2>1. PICK zip \in BOOLEAN :
          down' \in {down, Append(down, [seq |-> t.seq, of |-> t.of, zip |-> zip])}
    BY DEF SendResp
  <2>2. [seq |-> t.seq, of |-> t.of, zip |-> zip] \in Responses
    BY <1>1 DEF Tasks, Responses
  <2> QED BY <2>1, <2>2
<1>3. /\ \/ t \in statTasks /\ statTasks' = statTasks \ {t} /\ UNCHANGED respTasks
         \/ t \in respTasks /\ respTasks' = respTasks \ {t} /\ UNCHANGED statTasks
      /\ UNCHANGED <<ready, up, dispatch>>
  BY DEF SendResp, client, conn
<1>4. /\ \A i \in DOMAIN down' : \/ i \in DOMAIN down /\ down'[i] = down[i]
                                 \/ i = Len(down) + 1 /\ down'[i] = m
      /\ \A i \in DOMAIN down : i # Len(down) + 1
  BY <1>1, <1>2, AppendFrom
<1>5. ASSUME NEW k0 \in {"stat", "resp"},
             k0 = "stat" => t \in statTasks /\ statTasks' = statTasks \ {t} /\ UNCHANGED respTasks,
             k0 = "resp" => t \in respTasks /\ respTasks' = respTasks \ {t} /\ UNCHANGED statTasks
      PROVE  Moved("none", k0, t, "down", Len(down) + 1)
  <2> SUFFICES ASSUME NEW k, NEW x, NEW s, NEW r, At(k, x, s, r)'
               PROVE  \/ k = "down" /\ x = Len(down) + 1 /\ At(k0, t, s, r)
                      \/ /\ ~(k = "down" /\ x = Len(down) + 1) /\ ~(k = k0 /\ x = t)
                         /\ k # "none" /\ At(k, x, s, r)
    BY DEF Moved
  <2>0. ASSUME t.seq = s, t.of = r
        PROVE  At(k0, t, s, r)
    BY <1>5, <2>0 DEF At
  <2>1. CASE k = "down"
    BY <1>2, <1>4, <2>0, <2>1 DEF At
  <2>2. CASE k = "stat"
    BY <1>5, <2>2 DEF At
  <2>3. CASE k = "resp"
    BY <1>5, <2>3 DEF At
  <2>4. CASE k \notin {"down", "stat", "resp"}
    BY <1>3, <1>5, <2>4 DEF At
  <2> QED BY <2>1, <2>2, <2>3, <2>4
<1>6. CASE t \in statTasks /\ statTasks' = statTasks \ {t} /\ UNCHANGED respTasks
  <2>1. Moved("none", "stat", t, "down", Len(down) + 1)
    BY <1>5, <1>6
  <2> QED BY <2>1
<1>7. CASE t \in respTasks /\ respTasks' = respTasks \ {t} /\ UNCHANGED statTasks
  <2>1. Moved("none", "resp", t, "down", Len(down) + 1)
    BY <1>5, <1>7
  <2> QED BY <2>1
<1> QED BY <1>3, <1>6, <1>7

(* The steps of the client's thread. *)
LEMMA HandlerMoves ==
  ASSUME IInv, ready # << >>, ready' = Tail(ready),
         UNCHANGED <<up, down, dispatch, statTasks, respTasks>>
  PROVE  Moved("ready", "none", 0, "none", 0)
<1>1. \A i \in DOMAIN ready' : /\ i \in Nat /\ i >= 1
                               /\ i + 1 \in DOMAIN ready /\ ready'[i] = ready[i + 1]
  BY TailAt DEF IInv, TypeOK
<1> SUFFICES ASSUME NEW k, NEW x, NEW s, NEW r, At(k, x, s, r)'
             PROVE  \/ k # "none" /\ k # "ready" /\ At(k, x, s, r)
                    \/ k = "ready" /\ x \in Nat /\ At(k, x + 1, s, r)
  BY DEF Moved
<1>2. CASE k = "ready"
  BY <1>1, <1>2 DEF At
<1>3. CASE k # "ready"
  BY <1>3 DEF At
<1> QED BY <1>2, <1>3

LEMMA PostedMoves ==
  ASSUME IInv, NEW h \in Handlers, h.what # "response", ready' = Append(ready, h),
         UNCHANGED <<up, down, dispatch, statTasks, respTasks>>
  PROVE  Moved("none", "none", 0, "none", 0)
<1>1. \A i \in DOMAIN ready' : \/ i \in DOMAIN ready /\ ready'[i] = ready[i]
                               \/ ready'[i] = h
  BY AppendFrom DEF IInv, TypeOK
<1> SUFFICES ASSUME NEW k, NEW x, NEW s, NEW r, At(k, x, s, r)'
             PROVE  k # "none" /\ At(k, x, s, r)
  BY DEF Moved
<1>2. CASE k = "ready"
  BY <1>1, <1>2 DEF At
<1>3. CASE k # "ready"
  BY <1>3 DEF At
<1> QED BY <1>2, <1>3

(* request: its callback goes into the table with it. *)
LEMMA RequestPlaces ==
  ASSUME PlaceInv, Request
  PROVE  Unique' /\ Tabled'
<1>1. /\ ready # << >> /\ ready' = Tail(ready) /\ Head(ready).what = "request"
      /\ UNCHANGED <<down, dispatch, statTasks, respTasks>>
  BY DEF Request, Runs, conn, server
<1>2. PICK r \in Requests : Head(ready) = RequestHandler(r)
  BY <1>1, TakeHandler, HandlerKinds DEF PlaceInv
<1> DEFINE m == [seq |-> requestSeq + 1, of |-> r]
<1>3. /\ requestSeq \in Nat /\ m \in Messages /\ up \in Seq(Messages)
      /\ m.seq = requestSeq + 1 /\ m.of = r
  BY DEF PlaceInv, IInv, TypeOK, Messages
<1>4. \/ up' \in {up, Append(up, m)} /\ cbs' = {e \in cbs : e.seq # m.seq} \cup {m}
      \/ up' = up /\ cbs' = cbs
  BY <1>2 DEF Request, GenSeq, RequestHandler
<1> HIDE DEF m
<1>5. \A k, x : \A s \in Nat : ~At(k, x, s, r)
  <2>1. 1 \in DOMAIN ready /\ Head(ready) = ready[1]
    BY <1>1, TailFrom DEF PlaceInv, IInv, TypeOK
  <2>2. Queued(r)
    BY <1>2, <2>1 DEF Queued
  <2> QED BY <2>2, AtUnderWay DEF PlaceInv, IInv, Numbered
<1>6. ASSUME NEW k, NEW x, NEW s \in Nat, NEW q \in Requests, At(k, x, s, q)'
      PROVE  \/ k = "up" /\ x = Len(up) + 1 /\ q = r /\ s = m.seq /\ m \in cbs'
             \/ k # "ready" /\ At(k, x, s, q)
             \/ k = "ready" /\ x \in Nat /\ At(k, x + 1, s, q)
  <2>1. CASE k = "up"
    <3>1. CASE up' = up
      BY <1>6, <2>1, <3>1 DEF At
    <3>2. CASE up' # up
      <4>1. up' = Append(up, m) /\ m \in cbs'
        BY <1>4, <3>2
      <4>2. \A i \in DOMAIN up' : \/ i \in DOMAIN up /\ up'[i] = up[i]
                                  \/ i = Len(up) + 1 /\ up'[i] = m
        BY <1>3, <4>1, AppendFrom
      <4> QED BY <1>3, <1>6, <2>1, <4>1, <4>2 DEF At
    <3> QED BY <3>1, <3>2
  <2>2. CASE k = "ready"
    <3>1. \A i \in DOMAIN ready' : /\ i \in Nat /\ i + 1 \in DOMAIN ready
                                   /\ ready'[i] = ready[i + 1]
      BY <1>1, TailAt DEF PlaceInv, IInv, TypeOK
    <3> QED BY <1>6, <2>2, <3>1 DEF At
  <2>3. CASE k \notin {"up", "ready"}
    BY <1>1, <1>6, <2>3 DEF At
  <2> QED BY <2>1, <2>2, <2>3
<1>7. Unique'
  <2> SUFFICES ASSUME NEW q \in Requests, NEW s \in Nat, NEW t \in Nat,
                      NEW k, NEW l, NEW x, NEW y, At(k, x, s, q)', At(l, y, t, q)'
               PROVE  k = l /\ x = y
    BY DEF Unique
  <2>1. CASE q = r
    BY <1>5, <1>6, <2>1
  <2>2. CASE q # r
    <3>1. \/ k # "ready" /\ At(k, x, s, q)
          \/ k = "ready" /\ x \in Nat /\ At(k, x + 1, s, q)
      BY <1>6, <2>2
    <3>2. \/ l # "ready" /\ At(l, y, t, q)
          \/ l = "ready" /\ y \in Nat /\ At(l, y + 1, t, q)
      BY <1>6, <2>2
    <3>3. \A n, o, z, w : At(n, z, s, q) /\ At(o, w, t, q) => n = o /\ z = w
      BY DEF PlaceInv, Unique
    <3>4. CASE k = "ready"
      <4>1. l = "ready" /\ x + 1 = y + 1 /\ x \in Nat /\ y \in Nat
        BY <3>1, <3>2, <3>3, <3>4
      <4> QED BY <3>4, <4>1
    <3>5. CASE k # "ready"
      BY <3>1, <3>2, <3>3, <3>5
    <3> QED BY <3>4, <3>5
  <2> QED BY <2>1, <2>2
<1>8. Tabled'
  <2> SUFFICES ASSUME NEW q \in Requests, NEW s \in Nat, NEW k, NEW x, At(k, x, s, q)'
               PROVE  InSet(cbs', s, q)
    BY DEF Tabled, InSet
  <2>1. CASE q = r /\ s = m.seq /\ m \in cbs'
    BY <1>3, <2>1 DEF InSet
  <2>2. ASSUME NEW z, At(k, z, s, q)
        PROVE  InSet(cbs', s, q)
    <3>1. PICK e \in cbs : e.seq = s /\ e.of = q
      BY <2>2 DEF PlaceInv, Tabled, InSet
    <3>2. s <= requestSeq
      BY <2>2, AtUnderWay DEF PlaceInv, IInv, Numbered
    <3>3. e.seq # m.seq
      BY <1>3, <3>1, <3>2
    <3>4. e \in cbs'
      BY <1>4, <3>3
    <3> QED BY <3>1, <3>4 DEF InSet
  <2> QED BY <1>6, <2>1, <2>2
<1> QED BY <1>7, <1>8

(* onPackageReceived: with the callback of a request goes its only place. *)
LEMMA ResponsePlaces ==
  ASSUME PlaceInv, OnPackageReceived
  PROVE  Unique' /\ Tabled'
<1> DEFINE m == Head(ready).msg
<1>1. /\ ready # << >> /\ ready' = Tail(ready) /\ Head(ready).what = "response"
      /\ UNCHANGED <<up, down, dispatch, statTasks, respTasks>>
      /\ cbs' = cbs \/ cbs' = cbs \ {e \in cbs : e.seq = m.seq}
  BY DEF OnPackageReceived, Runs, conn, server
<1>2. Moved("ready", "none", 0, "none", 0)
  BY <1>1, HandlerMoves DEF PlaceInv
<1>3. Unique'
  BY <1>2, MovedUnique DEF PlaceInv
<1>4. m \in Responses /\ m.seq \in Nat /\ m.of \in Requests
  <2>1. m \in Responses
    BY <1>1, TakeHandler, HandlerKinds DEF PlaceInv
  <2> QED BY <2>1 DEF Responses
<1>5. At("ready", 1, m.seq, m.of)
  <2>1. 1 \in DOMAIN ready /\ ready[1] = Head(ready)
    BY <1>1, TailFrom DEF PlaceInv, IInv, TypeOK
  <2> QED BY <1>1, <2>1 DEF At
<1> HIDE DEF m
<1>6. Tabled'
  <2> SUFFICES ASSUME NEW q \in Requests, NEW s \in Nat, NEW k, NEW x, At(k, x, s, q)'
               PROVE  InSet(cbs', s, q)
    BY DEF Tabled, InSet
  <2>1. \/ k # "ready" /\ At(k, x, s, q)
        \/ k = "ready" /\ x \in Nat /\ At(k, x + 1, s, q)
    <3>1. ~At("none", 0, s, q)
      BY DEF At
    <3> QED BY <1>2, <3>1 DEF Moved
  <2>2. x \in Nat /\ k = "ready" => x + 1 # 1
    <3>1. k = "ready" => x \in DOMAIN ready'
      BY DEF At
    <3>2. \A i \in DOMAIN ready' : i \in Nat /\ i >= 1
      BY <1>1, TailAt DEF PlaceInv, IInv, TypeOK
    <3> QED BY <3>1, <3>2
  <2>3. PICK z : At(k, z, s, q) /\ ~(k = "ready" /\ z = 1)
    BY <2>1, <2>2
  <2>4. PICK e \in cbs : e.seq = s /\ e.of = q
    BY <2>3 DEF PlaceInv, Tabled, InSet
  <2>5. s # m.seq
    <3> SUFFICES ASSUME s = m.seq PROVE FALSE
      OBVIOUS
    <3>1. UnderWay(s, q) /\ UnderWay(m.seq, m.of)
      BY <1>5, <2>3, AtUnderWay
    <3>2. q = m.of
      BY <1>4, <3>1 DEF PlaceInv, IInv, Paired
    <3> QED BY <1>4, <1>5, <2>3, <3>2 DEF PlaceInv, Unique
  <2>6. e \in cbs'
    BY <1>1, <2>4, <2>5
  <2> QED BY <2>4, <2>6 DEF InSet
<1> QED BY <1>3, <1>6

LEMMA BreakMoves ==
  ASSUME IInv, Break
  PROVE  Moved("none", "none", 0, "none", 0)
<1> DEFINE h == [what |-> "error", conn |-> session]
<1>1. /\ up' = << >> /\ down' = << >> /\ ready' = Append(ready, h)
      /\ \/ UNCHANGED <<dispatch, statTasks, respTasks>>
         \/ dispatch' = << >> /\ statTasks' = {} /\ respTasks' = {}
  BY DEF Break, server
<1>2. h \in Handlers /\ h.what # "response"
  BY HandlerTypes DEF IInv, TypeOK
<1> HIDE DEF h
<1>3. \A i \in DOMAIN ready' : \/ i \in DOMAIN ready /\ ready'[i] = ready[i]
                               \/ ready'[i] = h
  BY <1>1, <1>2, AppendFrom DEF IInv, TypeOK
<1> SUFFICES ASSUME NEW k, NEW x, NEW s, NEW r, At(k, x, s, r)'
             PROVE  k # "none" /\ At(k, x, s, r)
  BY DEF Moved
<1>4. CASE k = "ready"
  BY <1>2, <1>3, <1>4 DEF At
<1>5. CASE k \in {"up", "down"}
  BY <1>1, <1>5, EmptySeq DEF At
<1>6. CASE k \notin {"ready", "up", "down"}
  BY <1>1, <1>6, EmptySeq DEF At
<1> QED BY <1>4, <1>5, <1>6

LEMMA InitPlaces == Init => PlaceInv
<1> SUFFICES ASSUME Init PROVE Unique /\ Tabled
  BY InitIInv DEF PlaceInv
<1>1. \A k, x, s, r : ~At(k, x, s, r)
  BY EmptySeq DEF Init, At
<1> QED BY <1>1 DEF Unique, Tabled

LEMMA PlacesStep == PlaceInv /\ [Next]_vars => PlaceInv'
<1> SUFFICES ASSUME PlaceInv, [Next]_vars PROVE Unique' /\ Tabled'
  BY NextIInv DEF PlaceInv
<1>0. IInv /\ Unique /\ Tabled
  BY DEF PlaceInv
<1>1. CASE \E r \in Requests : PostRequest(r)
  <2>1. PICK r \in Requests : PostRequest(r)
    BY <1>1
  <2>2. /\ ready' = Append(ready, RequestHandler(r)) /\ cbs' = cbs
        /\ UNCHANGED <<up, down, dispatch, statTasks, respTasks>>
    BY <2>1 DEF PostRequest, RequestHandler, client, server
  <2>3. RequestHandler(r) \in Handlers /\ RequestHandler(r).what # "response"
    BY HandlerTypes DEF RequestHandler
  <2>4. Moved("none", "none", 0, "none", 0)
    BY <1>0, <2>2, <2>3, PostedMoves
  <2> QED BY <1>0, <2>2, <2>4, MovedUnique, MovedTabled
<1>2. CASE Request
  BY <1>2, RequestPlaces
<1>3. CASE OnPackageReceived
  BY <1>3, ResponsePlaces
<1>4. CASE OnConnectionError
  <2>1. /\ ready # << >> /\ ready' = Tail(ready) /\ cbs' = cbs
        /\ UNCHANGED <<up, down, dispatch, statTasks, respTasks>>
    BY <1>4 DEF OnConnectionError, Runs, client, server
  <2>2. Moved("ready", "none", 0, "none", 0)
    BY <1>0, <2>1, HandlerMoves
  <2> QED BY <1>0, <2>1, <2>2, MovedUnique, MovedTabled
<1>5. CASE StartConnectSync \/ UNCHANGED vars
  <2>1. UNCHANGED <<cbs, ready, up, down, dispatch, statTasks, respTasks>>
    BY <1>5 DEF StartConnectSync, client, server, vars
  <2>2. \A k, x, s, r : At(k, x, s, r)' <=> At(k, x, s, r)
    BY <2>1 DEF At
  <2>3. \A s, r : InSet(cbs, s, r) => InSet(cbs', s, r)
    BY <2>1
  <2>4. Unique'
    BY <1>0, <2>2 DEF Unique
  <2>5. Tabled'
    BY <1>0, <2>1, <2>2 DEF Tabled, InSet
  <2> QED BY <2>4, <2>5
<1>6. CASE ClientReceives
  <2>1. cbs' = cbs
    BY <1>6 DEF ClientReceives, client
  <2> QED BY <1>0, <1>6, <2>1, ClientReceivesMoves, MovedUnique, MovedTabled
<1>7. CASE Break
  <2>1. cbs' = cbs
    BY <1>7 DEF Break, client
  <2> QED BY <1>0, <1>7, <2>1, BreakMoves, MovedUnique, MovedTabled
<1>8. CASE ServerReceives
  <2>1. cbs' = cbs
    BY <1>8 DEF ServerReceives, client
  <2> QED BY <1>0, <1>8, <2>1, ServerReceivesMoves, MovedUnique, MovedTabled
<1>9. CASE OnRequest
  <2>1. cbs' = cbs
    BY <1>9 DEF OnRequest, client
  <2> QED BY <1>0, <1>9, <2>1, OnRequestMoves, MovedUnique, MovedTabled
<1>10. CASE \E t \in statTasks \cup respTasks : SendResp(t)
  <2>1. PICK t \in statTasks \cup respTasks : SendResp(t)
    BY <1>10
  <2>2. cbs' = cbs
    BY <2>1 DEF SendResp, client
  <2> QED BY <1>0, <2>1, <2>2, SendRespMoves, MovedUnique, MovedTabled
<1> QED BY <1>1, <1>2, <1>3, <1>4, <1>5, <1>6, <1>7, <1>8, <1>9, <1>10
        DEF Next, ClientThread, ServerPools, Rest

LEMMA PlacesInductive == Spec => []PlaceInv
<1> QED BY InitPlaces, PlacesStep, PTL DEF Spec

(* The places of the property are those of the invariant. *)
LEMMA PlacesAre ==
  ASSUME IInv, NEW r \in Requests
  PROVE  /\ Places(r) # {} => \E k, x : \E s \in Nat : At(k, x, s, r)
         /\ Unique => \A p, q \in Places(r) : p = q
<1>1. /\ up \in Seq(Messages) /\ down \in Seq(Responses) /\ dispatch \in Seq(Tasks)
      /\ statTasks \subseteq Tasks /\ respTasks \subseteq Tasks /\ ready \in Seq(Handlers)
  BY DEF IInv, TypeOK, Responses
<1>2. ASSUME NEW p \in Places(r)
      PROVE  \E k, x : \E s \in Nat :
               At(k, x, s, r) /\ p = IF k \in {"stat", "resp"} THEN <<k, x.conn>> ELSE <<k, x>>
  <2>1. CASE \E i \in DOMAIN up : up[i].of = r /\ p = <<"up", i>>
    <3>1. PICK i \in DOMAIN up : up[i].of = r /\ p = <<"up", i>>
      BY <2>1
    <3>2. up[i].seq \in Nat
      <4>1. up[i] \in Messages
        BY <1>1
      <4> QED BY <4>1 DEF Messages
    <3>3. At("up", i, up[i].seq, r)
      BY <3>1 DEF At
    <3> QED BY <3>1, <3>2, <3>3
  <2>2. CASE \E i \in DOMAIN dispatch : dispatch[i].of = r /\ p = <<"dispatch", i>>
    <3>1. PICK i \in DOMAIN dispatch : dispatch[i].of = r /\ p = <<"dispatch", i>>
      BY <2>2
    <3>2. dispatch[i].seq \in Nat
      <4>1. dispatch[i] \in Tasks
        BY <1>1
      <4> QED BY <4>1 DEF Tasks
    <3>3. At("dispatch", i, dispatch[i].seq, r)
      BY <3>1 DEF At
    <3> QED BY <3>1, <3>2, <3>3
  <2>3. CASE \E t \in statTasks : t.of = r /\ p = <<"stat", t.conn>>
    <3>1. PICK t \in statTasks : t.of = r /\ p = <<"stat", t.conn>>
      BY <2>3
    <3>2. t.seq \in Nat
      BY <1>1 DEF Tasks
    <3>3. At("stat", t, t.seq, r)
      BY <3>1 DEF At
    <3> QED BY <3>1, <3>2, <3>3
  <2>4. CASE \E t \in respTasks : t.of = r /\ p = <<"resp", t.conn>>
    <3>1. PICK t \in respTasks : t.of = r /\ p = <<"resp", t.conn>>
      BY <2>4
    <3>2. t.seq \in Nat
      BY <1>1 DEF Tasks
    <3>3. At("resp", t, t.seq, r)
      BY <3>1 DEF At
    <3> QED BY <3>1, <3>2, <3>3
  <2>5. CASE \E i \in DOMAIN down : down[i].of = r /\ p = <<"down", i>>
    <3>1. PICK i \in DOMAIN down : down[i].of = r /\ p = <<"down", i>>
      BY <2>5
    <3>2. down[i].seq \in Nat
      <4>1. down[i] \in Responses
        BY <1>1
      <4> QED BY <4>1 DEF Responses
    <3>3. At("down", i, down[i].seq, r)
      BY <3>1 DEF At
    <3> QED BY <3>1, <3>2, <3>3
  <2>6. CASE \E i \in DOMAIN ready : /\ ready[i].what = "response" /\ ready[i].msg.of = r
                                     /\ p = <<"ready", i>>
    <3>1. PICK i \in DOMAIN ready : /\ ready[i].what = "response" /\ ready[i].msg.of = r
                                    /\ p = <<"ready", i>>
      BY <2>6
    <3>2. ready[i].msg.seq \in Nat
      <4>1. ready[i] \in Handlers
        BY <1>1
      <4>2. ready[i].msg \in Responses
        BY <3>1, <4>1, HandlerKinds
      <4> QED BY <4>2 DEF Responses
    <3>3. At("ready", i, ready[i].msg.seq, r)
      BY <3>1 DEF At
    <3> QED BY <3>1, <3>2, <3>3
  <2> QED BY <2>1, <2>2, <2>3, <2>4, <2>5, <2>6 DEF Places
<1>3. ASSUME Unique, NEW p \in Places(r), NEW q \in Places(r)
      PROVE  p = q
  <2>1. PICK k, x : \E s \in Nat :
          At(k, x, s, r) /\ p = IF k \in {"stat", "resp"} THEN <<k, x.conn>> ELSE <<k, x>>
    BY <1>2
  <2>2. PICK l, y : \E s \in Nat :
          At(l, y, s, r) /\ q = IF l \in {"stat", "resp"} THEN <<l, y.conn>> ELSE <<l, y>>
    BY <1>2
  <2>3. k = l /\ x = y
    BY <1>3, <2>1, <2>2 DEF Unique
  <2> QED BY <2>1, <2>2, <2>3
<1> QED BY <1>2, <1>3

(* A request is in one place at a time, whatever is lost and made again,   *)
(* and in none when its callback has been called (request, onRequest,      *)
(* sendResp, onPackageReceived).                                           *)
THEOREM AtOnePlace == Spec => []OnePlace
<1>1. PlaceInv => OnePlace
  <2> SUFFICES ASSUME PlaceInv, NEW r \in Requests
               PROVE  Cardinality(Places(r)) <= IF outcome[r] = << >> THEN 1 ELSE 0
    BY DEF OnePlace
  <2>1. Places(r) # {} => outcome[r] = << >>
    <3> SUFFICES ASSUME Places(r) # {} PROVE outcome[r] = << >>
      OBVIOUS
    <3>1. PICK k, x : \E s \in Nat : At(k, x, s, r)
      BY PlacesAre DEF PlaceInv
    <3> QED BY <3>1 DEF PlaceInv, Tabled, IInv, NotYetCalled
  <2>2. CASE Places(r) = {}
    <3>1. Cardinality(Places(r)) = 0
      BY <2>2, FS_EmptySet
    <3> QED BY <3>1
  <2>3. CASE Places(r) # {}
    <3>1. PICK p : p \in Places(r)
      BY <2>3
    <3>2. Places(r) = {p}
      BY <3>1, PlacesAre DEF PlaceInv
    <3>3. Cardinality({p}) = 1
      BY FS_Singleton
    <3> QED BY <2>1, <2>3, <3>2, <3>3
  <2> QED BY <2>2, <2>3
<1> QED BY PlacesInductive, <1>1, PTL

(* The table holds callbacks that have not been called, each under its own *)
(* number, and that of every request that is under way.                    *)
THEOREM TableHolds == Spec => []TableAgrees
<1>1. PlaceInv => TableAgrees
  <2> SUFFICES ASSUME PlaceInv PROVE TableAgrees
    OBVIOUS
  <2>1. \A e \in cbs : /\ e.seq \in Nat /\ e.of \in Requests
                       /\ InSet(cbs, e.seq, e.of) /\ UnderWay(e.seq, e.of)
    BY DEF PlaceInv, IInv, TypeOK, Messages, InSet, UnderWay
  <2>2. \A e \in cbs : outcome[e.of] = << >>
    BY <2>1 DEF PlaceInv, IInv, NotYetCalled
  <2>3. \A e, f \in cbs : e.of = f.of <=> e.seq = f.seq
    BY <2>1 DEF PlaceInv, IInv, Paired
  <2>4. \A r \in Requests : Places(r) # {} => \E e \in cbs : e.of = r
    <3> SUFFICES ASSUME NEW r \in Requests, Places(r) # {} PROVE \E e \in cbs : e.of = r
      OBVIOUS
    <3>1. PICK k, x : \E s \in Nat : At(k, x, s, r)
      BY PlacesAre DEF PlaceInv
    <3> QED BY <3>1 DEF PlaceInv, Tabled, InSet
  <2> QED BY <2>2, <2>3, <2>4 DEF TableAgrees
<1> QED BY PlacesInductive, <1>1, PTL

-----------------------------------------------------------------------------
(* The service.  Every step of the client, the network and the server is a *)
(* step of RpcService or changes nothing of it.                            *)

NoCalls == [what \in {"break", "failure"} |-> 0]
Faulty == calls # NoCalls

(* What is under way needs the link, a handler that reports the end of the *)
(* session comes after its loss, and a loss is counted.                    *)
LinkInv ==
  /\ ~link => up = << >> /\ down = << >> /\ Faulty
  /\ ~connected => Faulty
  /\ connecting => ~link
  /\ \A t \in Range(dispatch) \cup statTasks \cup respTasks : t.conn <= session
  /\ \A h \in Range(ready) :
       h.what = "error" => h.conn <= session /\ (h.conn = session => ~link)

LEMMA RangeTail ==
  ASSUME NEW S, NEW q \in Seq(S), q # << >>
  PROVE  Range(q) = {Head(q)} \cup Range(Tail(q)) /\ Range(q) \subseteq S
<1>1. \A i \in DOMAIN q : i = 1 \/ (i - 1 \in DOMAIN Tail(q) /\ Tail(q)[i - 1] = q[i])
  OBVIOUS
<1>2. \A i \in DOMAIN Tail(q) : i + 1 \in DOMAIN q /\ Tail(q)[i] = q[i + 1]
  OBVIOUS
<1>3. 1 \in DOMAIN q /\ Head(q) = q[1]
  OBVIOUS
<1>4. \A i \in DOMAIN q : q[i] \in S
  OBVIOUS
<1> DEFINE tail == Tail(q)
           head == Head(q)
<1>5. /\ \A i \in DOMAIN q : q[i] = head \/ \E j \in DOMAIN tail : q[i] = tail[j]
      /\ \A j \in DOMAIN tail : \E i \in DOMAIN q : tail[j] = q[i]
      /\ \E i \in DOMAIN q : head = q[i]
  BY <1>1, <1>2, <1>3
<1> HIDE DEF tail, head
<1>6. Range(q) = {head} \cup Range(tail)
  BY <1>5 DEF Range
<1>7. Range(q) \subseteq S
  BY <1>4 DEF Range
<1> QED BY <1>6, <1>7 DEF tail, head

LEMMA RangeAppend ==
  ASSUME NEW S, NEW q \in Seq(S), NEW x \in S
  PROVE  Range(Append(q, x)) = Range(q) \cup {x}
<1>1. /\ DOMAIN Append(q, x) = DOMAIN q \cup {Len(q) + 1}
      /\ \A i \in DOMAIN q : Append(q, x)[i] = q[i]
      /\ Append(q, x)[Len(q) + 1] = x
  OBVIOUS
<1> QED BY <1>1 DEF Range

LEMMA RangeEmpty == Range(<< >>) = {}
<1>1. DOMAIN << >> = {}
  OBVIOUS
<1> QED BY <1>1 DEF Range

LEMMA RangeIn == ASSUME NEW S, NEW q \in Seq(S) PROVE Range(q) \subseteq S
<1>1. \A i \in DOMAIN q : q[i] \in S
  OBVIOUS
<1> QED BY <1>1 DEF Range

LEMMA Counts ==
  ASSUME TypeOK, NEW what \in {"break", "failure"}, Counted(what)
  PROVE  Faulty'
<1>1. calls' = [calls EXCEPT ![what] = @ + 1] /\ calls[what] \in Nat
      /\ calls \in [{"break", "failure"} -> Nat]
  BY DEF TypeOK, Counted
<1>2. calls'[what] = calls[what] + 1
  BY <1>1
<1>3. calls'[what] # 0
  BY <1>1, <1>2
<1>4. NoCalls[what] = 0
  BY DEF NoCalls
<1> QED BY <1>3, <1>4 DEF Faulty, NoCalls

LEMMA FaultyKept == TypeOK /\ [Next]_vars /\ Faulty => Faulty'
<1> SUFFICES ASSUME TypeOK, [Next]_vars, Faulty PROVE Faulty'
  OBVIOUS
<1>1. CASE calls' = calls
  BY <1>1 DEF Faulty, NoCalls
<1>2. CASE \E what \in {"break", "failure"} : Counted(what)
  BY <1>2, Counts
<1>3. calls' = calls \/ \E what \in {"break", "failure"} : Counted(what)
  <2>1. CASE Break
    BY <2>1 DEF Break
  <2>2. CASE OnRequest
    BY <2>2 DEF OnRequest
  <2>3. ASSUME NEW t, SendResp(t) PROVE calls' = calls \/ Counted("failure")
    BY <2>3 DEF SendResp
  <2>4. ASSUME NEW r, PostRequest(r) PROVE calls' = calls
    BY <2>4 DEF PostRequest
  <2>5. CASE ClientThread
    BY <2>5 DEF ClientThread, Request, OnPackageReceived, OnConnectionError, StartConnectSync
  <2>6. CASE ClientReceives \/ ServerReceives \/ UNCHANGED vars
    BY <2>6 DEF ClientReceives, ServerReceives, vars
  <2> QED BY <2>1, <2>2, <2>3, <2>4, <2>5, <2>6 DEF Next, ServerPools, Rest
<1> QED BY <1>1, <1>2, <1>3

LEMMA InitLink == Init => LinkInv
BY RangeEmpty DEF Init, LinkInv

LEMMA LinkStep == IInv /\ LinkInv /\ [Next]_vars => LinkInv'
<1> SUFFICES ASSUME IInv, LinkInv, [Next]_vars PROVE LinkInv'
  OBVIOUS
<1>0. /\ up \in Seq(Messages) /\ down \in Seq(Responses) /\ dispatch \in Seq(Tasks)
      /\ statTasks \subseteq Tasks /\ respTasks \subseteq Tasks /\ ready \in Seq(Handlers)
      /\ session \in Nat /\ (Faulty => Faulty')
  BY FaultyKept DEF IInv, TypeOK, Responses
<1>1. ASSUME ready # << >>, ready' = Tail(ready)
      PROVE  Range(ready') \subseteq Range(ready) /\ Head(ready) \in Range(ready)
  BY <1>0, <1>1, RangeTail
<1>2. CASE \E r \in Requests : PostRequest(r)
  <2>1. PICK r \in Requests : PostRequest(r)
    BY <1>2
  <2>2. /\ ready' = Append(ready, RequestHandler(r))
        /\ UNCHANGED <<link, up, down, connected, connecting, session, dispatch,
                       statTasks, respTasks>>
    BY <2>1 DEF PostRequest, RequestHandler, conn, server
  <2>3. RequestHandler(r) \in Handlers /\ RequestHandler(r).what # "error"
    BY HandlerTypes DEF RequestHandler
  <2>4. Range(ready') = Range(ready) \cup {RequestHandler(r)}
    BY <1>0, <2>2, <2>3, RangeAppend
  <2> QED BY <1>0, <2>2, <2>3, <2>4 DEF LinkInv
<1>3. CASE Request
  <2>1. /\ ready # << >> /\ ready' = Tail(ready) /\ (~link => up' = up)
        /\ UNCHANGED <<link, down, connected, connecting, session, dispatch,
                       statTasks, respTasks>>
    BY <1>3 DEF Request, Runs, conn, server
  <2> QED BY <1>0, <1>1, <2>1 DEF LinkInv
<1>4. CASE OnPackageReceived
  <2>1. /\ ready # << >> /\ ready' = Tail(ready)
        /\ UNCHANGED <<link, up, down, connected, connecting, session, dispatch,
                       statTasks, respTasks>>
    BY <1>4 DEF OnPackageReceived, Runs, conn, server
  <2> QED BY <1>0, <1>1, <2>1 DEF LinkInv
<1>5. CASE OnConnectionError
  <2>1. /\ ready # << >> /\ ready' = Tail(ready) /\ Head(ready).what = "error"
        /\ UNCHANGED <<link, up, down, session, dispatch, statTasks, respTasks>>
        /\ \/ Head(ready).conn = session
           \/ UNCHANGED <<connected, connecting>>
    BY <1>5 DEF OnConnectionError, Runs, server
  <2>2. CASE Head(ready).conn = session
    <3>1. ~link
      BY <1>1, <2>1, <2>2 DEF LinkInv
    <3> QED BY <1>0, <1>1, <2>1, <3>1 DEF LinkInv
  <2>3. CASE UNCHANGED <<connected, connecting>>
    BY <1>0, <1>1, <2>1, <2>3 DEF LinkInv
  <2> QED BY <2>1, <2>2, <2>3
<1>6. CASE StartConnectSync
  <2>1. /\ connecting' = FALSE /\ connected' = TRUE /\ link' = TRUE
        /\ session' = session + 1
        /\ UNCHANGED <<ready, dispatch, statTasks, respTasks>>
    BY <1>6 DEF StartConnectSync, server
  <2>2. \A h \in Range(ready) : h.what = "error" => h.conn \in Nat
    BY <1>0, RangeIn, HandlerKinds
  <2>3. \A t \in Range(dispatch) \cup statTasks \cup respTasks : t.conn \in Nat
    BY <1>0, RangeIn DEF Tasks
  <2>4. \A c \in Nat : c <= session => c <= session' /\ c # session'
    BY <1>0, <2>1
  <2>5. \A h \in Range(ready') :
          h.what = "error" => h.conn <= session' /\ (h.conn = session' => ~link')
    BY <2>1, <2>2, <2>4 DEF LinkInv
  <2>6. \A t \in Range(dispatch') \cup statTasks' \cup respTasks' : t.conn <= session'
    BY <2>1, <2>3, <2>4 DEF LinkInv
  <2> QED BY <2>1, <2>5, <2>6 DEF LinkInv
<1>7. CASE ClientReceives
  <2> DEFINE h == [what |-> "response", msg |-> Head(down)]
  <2>1. /\ ready' = Append(ready, h) /\ down # << >> /\ down' = Tail(down)
        /\ UNCHANGED <<link, up, connected, connecting, session, dispatch,
                       statTasks, respTasks>>
    BY <1>7 DEF ClientReceives, conn, server
  <2>2. h \in Handlers /\ h.what # "error"
    BY <1>0, <2>1, TailFrom, HandlerTypes
  <2> HIDE DEF h
  <2>3. Range(ready') = Range(ready) \cup {h}
    BY <1>0, <2>1, <2>2, RangeAppend
  <2> QED BY <1>0, <2>1, <2>2, <2>3 DEF LinkInv
<1>8. CASE Break
  <2> DEFINE h == [what |-> "error", conn |-> session]
  <2>1. /\ ready' = Append(ready, h) /\ up' = << >> /\ down' = << >> /\ link' = FALSE
        /\ UNCHANGED <<connected, connecting, session>>
        /\ \/ UNCHANGED <<dispatch, statTasks, respTasks>>
           \/ dispatch' = << >> /\ statTasks' = {} /\ respTasks' = {}
    BY <1>8 DEF Break, server
  <2>2. Faulty'
    BY <1>8, Counts DEF IInv, Break
  <2>3. h \in Handlers /\ h.conn = session
    BY <1>0, HandlerTypes
  <2> HIDE DEF h
  <2>4. Range(ready') = Range(ready) \cup {h}
    BY <1>0, <2>1, <2>3, RangeAppend
  <2>5. \A t \in Range(dispatch') \cup statTasks' \cup respTasks' : t.conn <= session
    BY <2>1, RangeEmpty DEF LinkInv
  <2>6. \A g \in Range(ready') : g.what = "error" => g.conn <= session
    BY <1>0, <2>3, <2>4 DEF LinkInv
  <2> QED BY <2>1, <2>2, <2>5, <2>6 DEF LinkInv
<1>9. CASE ServerReceives
  <2> DEFINE t == [seq |-> Head(up).seq, of |-> Head(up).of, conn |-> session]
  <2>1. /\ up # << >> /\ up' = Tail(up) /\ dispatch' = Append(dispatch, t)
        /\ UNCHANGED <<link, down, connected, connecting, session, ready,
                       statTasks, respTasks>>
    BY <1>9 DEF ServerReceives, conn
  <2>2. t \in Tasks /\ t.conn = session
    <3>1. Head(up) \in Messages
      BY <1>0, <2>1, TailFrom
    <3> QED BY <1>0, <3>1 DEF Messages, Tasks
  <2> HIDE DEF t
  <2>3. Range(dispatch') = Range(dispatch) \cup {t}
    BY <1>0, <2>1, <2>2, RangeAppend
  <2>4. \A u \in Range(dispatch') \cup statTasks' \cup respTasks' : u.conn <= session
    BY <1>0, <2>1, <2>2, <2>3 DEF LinkInv
  <2> QED BY <1>0, <2>1, <2>4 DEF LinkInv
<1>10. CASE OnRequest
  <2>1. /\ dispatch # << >> /\ dispatch' = Tail(dispatch)
        /\ statTasks' \subseteq statTasks \cup {Head(dispatch)}
        /\ respTasks' \subseteq respTasks \cup {Head(dispatch)}
        /\ UNCHANGED <<link, up, down, connected, connecting, session, ready>>
    BY <1>10 DEF OnRequest, conn
  <2>2. Range(dispatch) = {Head(dispatch)} \cup Range(dispatch')
    BY <1>0, <2>1, RangeTail
  <2> QED BY <1>0, <2>1, <2>2 DEF LinkInv
<1>11. CASE \E t \in statTasks \cup respTasks : SendResp(t)
  <2>1. /\ statTasks' \subseteq statTasks /\ respTasks' \subseteq respTasks
        /\ (~link => down' = down)
        /\ UNCHANGED <<link, up, connected, connecting, session, ready, dispatch>>
    BY <1>11 DEF SendResp, conn
  <2> QED BY <1>0, <2>1 DEF LinkInv
<1>12. CASE UNCHANGED vars
  BY <1>0, <1>12 DEF LinkInv, vars, conn, server
<1> QED BY <1>2, <1>3, <1>4, <1>5, <1>6, <1>7, <1>8, <1>9, <1>10, <1>11, <1>12
        DEF Next, ClientThread, ServerPools, Rest

-----------------------------------------------------------------------------
(* What has become of a request, from what can be said of it.              *)
Has(r) == \E e \in cbs : e.of = r

StateFrom(o, can, has, r) ==
  CASE o = <<r>>       -> "answered"
    [] o = <<NoError>> -> "refused"
    [] o = << >>       -> IF can THEN "sent" ELSE IF has THEN "lost" ELSE "new"
    [] OTHER           -> "wrong"

LEMMA StateOfFrom ==
  ASSUME NEW r
  PROVE  /\ StateOf(r) = StateFrom(outcome[r], CanBeAnswered(r), Has(r), r)
         /\ StateOf(r)' = StateFrom(outcome'[r], CanBeAnswered(r)', Has(r)', r)
BY DEF StateOf, StateFrom, Has

LEMMA StateFromValues ==
  ASSUME NEW r \in Requests, NEW can \in BOOLEAN, NEW has \in BOOLEAN
  PROVE  /\ StateFrom(<<r>>, can, has, r) = "answered"
         /\ StateFrom(<<NoError>>, can, has, r) = "refused"
         /\ can => StateFrom(<< >>, can, has, r) = "sent"
         /\ ~can /\ has => StateFrom(<< >>, can, has, r) = "lost"
         /\ ~can /\ ~has => StateFrom(<< >>, can, has, r) = "new"
<1>1. r # NoError
  BY RpcAssumption DEF NoError
<1>2. <<r>> # <<NoError>> /\ <<r>> # << >> /\ <<NoError>> # << >>
  BY <1>1
<1> QED BY <1>2 DEF StateFrom

LEMMA Booleans ==
  ASSUME NEW r
  PROVE  /\ CanBeAnswered(r) \in BOOLEAN /\ Has(r) \in BOOLEAN
         /\ CanBeAnswered(r)' \in BOOLEAN /\ Has(r)' \in BOOLEAN
BY DEF CanBeAnswered, Has

(* An answer can come by a message to the server, by a task of it on this  *)
(* connection, by a message to the client, or by a handler.                *)
ByUp(r) == \E m \in Range(up) : m.of = r
ByTask(r) == \E t \in Range(dispatch) \cup statTasks \cup respTasks :
               t.of = r /\ link /\ t.conn = session
ByDown(r) == \E m \in Range(down) : m.of = r /\ m.zip
ByReady(r) == \E h \in Range(ready) : h.what = "response" /\ h.msg.of = r /\ h.msg.zip

LEMMA Ways ==
  ASSUME NEW r
  PROVE  /\ CanBeAnswered(r) <=> ByUp(r) \/ ByTask(r) \/ ByDown(r) \/ ByReady(r)
         /\ CanBeAnswered(r)' <=> ByUp(r)' \/ ByTask(r)' \/ ByDown(r)' \/ ByReady(r)'
BY DEF CanBeAnswered, ByUp, ByTask, ByDown, ByReady, Range

(* Who can be answered waits for it. *)
LEMMA Waiting ==
  ASSUME PlaceInv, NEW r \in Requests, CanBeAnswered(r)
  PROVE  Has(r) /\ outcome[r] = << >>
<1>1. /\ up \in Seq(Messages) /\ down \in Seq(Responses) /\ dispatch \in Seq(Tasks)
      /\ statTasks \subseteq Tasks /\ respTasks \subseteq Tasks /\ ready \in Seq(Handlers)
  BY DEF PlaceInv, IInv, TypeOK, Responses
<1>2. ASSUME NEW k, NEW x, NEW s, s \in Nat, At(k, x, s, r)
      PROVE  Has(r) /\ outcome[r] = << >>
  <2>1. InSet(cbs, s, r)
    BY <1>2 DEF PlaceInv, Tabled
  <2> QED BY <1>2, <2>1 DEF InSet, Has, PlaceInv, IInv, NotYetCalled
<1>3. CASE \E i \in DOMAIN up : up[i].of = r
  <2>1. PICK i \in DOMAIN up : up[i].of = r
    BY <1>3
  <2>2. up[i] \in Messages
    BY <1>1
  <2>3. up[i].seq \in Nat
    BY <2>2 DEF Messages
  <2>4. At("up", i, up[i].seq, r)
    BY <2>1 DEF At
  <2> QED BY <1>2, <2>3, <2>4
<1>4. CASE \E i \in DOMAIN down : down[i].of = r
  <2>1. PICK i \in DOMAIN down : down[i].of = r
    BY <1>4
  <2>2. down[i] \in Responses
    BY <1>1
  <2>3. down[i].seq \in Nat
    BY <2>2 DEF Responses
  <2>4. At("down", i, down[i].seq, r)
    BY <2>1 DEF At
  <2> QED BY <1>2, <2>3, <2>4
<1>5. CASE \E i \in DOMAIN ready : ready[i].what = "response" /\ ready[i].msg.of = r
  <2>1. PICK i \in DOMAIN ready : ready[i].what = "response" /\ ready[i].msg.of = r
    BY <1>5
  <2>2. ready[i] \in Handlers
    BY <1>1
  <2>3. ready[i].msg \in Responses
    BY <2>1, <2>2, HandlerKinds
  <2>4. ready[i].msg.seq \in Nat
    BY <2>3 DEF Responses
  <2>5. At("ready", i, ready[i].msg.seq, r)
    BY <2>1 DEF At
  <2> QED BY <1>2, <2>4, <2>5
<1>6. CASE \E i \in DOMAIN dispatch : dispatch[i].of = r
  <2>1. PICK i \in DOMAIN dispatch : dispatch[i].of = r
    BY <1>6
  <2>2. dispatch[i] \in Tasks
    BY <1>1
  <2>3. dispatch[i].seq \in Nat
    BY <2>2 DEF Tasks
  <2>4. At("dispatch", i, dispatch[i].seq, r)
    BY <2>1 DEF At
  <2> QED BY <1>2, <2>3, <2>4
<1>7. CASE \E t \in statTasks \cup respTasks : t.of = r
  <2>1. PICK t \in statTasks \cup respTasks : t.of = r
    BY <1>7
  <2>2. t.seq \in Nat
    BY <1>1 DEF Tasks
  <2>3. At("stat", t, t.seq, r) \/ At("resp", t, t.seq, r)
    BY <2>1 DEF At
  <2> QED BY <1>2, <2>2, <2>3
<1> QED BY <1>3, <1>4, <1>5, <1>6, <1>7 DEF CanBeAnswered, Range

(* The state of a request in terms of the program. *)
LEMMA StateIs ==
  ASSUME NEW r \in Requests
  PROVE  /\ outcome[r] = << >> /\ CanBeAnswered(r) => StateOf(r) = "sent"
         /\ outcome[r] = << >> /\ ~CanBeAnswered(r) /\ ~Has(r) => StateOf(r) = "new"
         /\ outcome'[r] = << >> /\ CanBeAnswered(r)' => StateOf(r)' = "sent"
         /\ outcome'[r] = << >> /\ ~CanBeAnswered(r)' /\ Has(r)' => StateOf(r)' = "lost"
         /\ outcome'[r] = <<r>> => StateOf(r)' = "answered"
         /\ outcome'[r] = <<NoError>> => StateOf(r)' = "refused"
         /\ outcome'[r] = outcome[r] /\ (Has(r)' <=> Has(r))
              /\ (CanBeAnswered(r)' <=> CanBeAnswered(r)) => StateOf(r)' = StateOf(r)
<1>1. /\ CanBeAnswered(r) \in BOOLEAN /\ Has(r) \in BOOLEAN
      /\ CanBeAnswered(r)' \in BOOLEAN /\ Has(r)' \in BOOLEAN
  BY Booleans
<1>2. /\ StateOf(r) = StateFrom(outcome[r], CanBeAnswered(r), Has(r), r)
      /\ StateOf(r)' = StateFrom(outcome'[r], CanBeAnswered(r)', Has(r)', r)
  BY StateOfFrom
<1>3. ASSUME NEW can \in BOOLEAN, NEW has \in BOOLEAN
      PROVE  /\ StateFrom(<<r>>, can, has, r) = "answered"
             /\ StateFrom(<<NoError>>, can, has, r) = "refused"
             /\ can => StateFrom(<< >>, can, has, r) = "sent"
             /\ ~can /\ has => StateFrom(<< >>, can, has, r) = "lost"
             /\ ~can /\ ~has => StateFrom(<< >>, can, has, r) = "new"
  BY StateFromValues
<1>4. /\ outcome[r] = << >> /\ CanBeAnswered(r) => StateOf(r) = "sent"
      /\ outcome[r] = << >> /\ ~CanBeAnswered(r) /\ ~Has(r) => StateOf(r) = "new"
  <2> DEFINE can == CanBeAnswered(r)
             has == Has(r)
  <2>1. can \in BOOLEAN /\ has \in BOOLEAN
    BY <1>1
  <2>2. StateOf(r) = StateFrom(outcome[r], can, has, r)
    BY <1>2
  <2> HIDE DEF can, has
  <2>3. outcome[r] = << >> => StateOf(r) = StateFrom(<< >>, can, has, r)
    BY <2>2
  <2>4. /\ can => StateFrom(<< >>, can, has, r) = "sent"
        /\ ~can /\ ~has => StateFrom(<< >>, can, has, r) = "new"
    BY <2>1, <1>3
  <2>5. /\ outcome[r] = << >> /\ can => StateOf(r) = "sent"
        /\ outcome[r] = << >> /\ ~can /\ ~has => StateOf(r) = "new"
    BY <2>3, <2>4
  <2> QED BY <2>5 DEF can, has
<1>5. /\ outcome'[r] = << >> /\ CanBeAnswered(r)' => StateOf(r)' = "sent"
      /\ outcome'[r] = << >> /\ ~CanBeAnswered(r)' /\ Has(r)' => StateOf(r)' = "lost"
      /\ outcome'[r] = <<r>> => StateOf(r)' = "answered"
      /\ outcome'[r] = <<NoError>> => StateOf(r)' = "refused"
  <2>1. PICK can, has, state, o :
          /\ can \in BOOLEAN /\ has \in BOOLEAN
          /\ can <=> CanBeAnswered(r)'
          /\ has <=> Has(r)'
          /\ state = StateOf(r)'
          /\ o = outcome'[r]
          /\ state = StateFrom(o, can, has, r)
    BY <1>1, <1>2
  <2>2. o = << >> => state = StateFrom(<< >>, can, has, r)
    BY <2>1
  <2>3. o = <<r>> => state = StateFrom(<<r>>, can, has, r)
    BY <2>1
  <2>4. o = <<NoError>> => state = StateFrom(<<NoError>>, can, has, r)
    BY <2>1
  <2>5. /\ o = << >> /\ can => state = "sent"
        /\ o = << >> /\ ~can /\ has => state = "lost"
        /\ o = <<r>> => state = "answered"
        /\ o = <<NoError>> => state = "refused"
    <3>1. /\ StateFrom(<<r>>, can, has, r) = "answered"
          /\ StateFrom(<<NoError>>, can, has, r) = "refused"
          /\ can => StateFrom(<< >>, can, has, r) = "sent"
          /\ ~can /\ has => StateFrom(<< >>, can, has, r) = "lost"
      BY <2>1, <1>3
    <3> QED BY <2>2, <2>3, <2>4, <3>1
  <2> QED BY <2>1, <2>5
<1>7. outcome'[r] = outcome[r] /\ (Has(r)' <=> Has(r))
        /\ (CanBeAnswered(r)' <=> CanBeAnswered(r)) => StateOf(r)' = StateOf(r)
  <2> SUFFICES ASSUME outcome'[r] = outcome[r], Has(r)' <=> Has(r),
                      CanBeAnswered(r)' <=> CanBeAnswered(r)
               PROVE  StateOf(r)' = StateOf(r)
    OBVIOUS
  <2>1. Has(r)' = Has(r) /\ CanBeAnswered(r)' = CanBeAnswered(r)
    BY <1>1
  <2> QED BY <1>2, <2>1, Zenon
<1> QED BY <1>4, <1>5, <1>7

-----------------------------------------------------------------------------
(* A step of the program as the service sees it: nothing, one request that *)
(* moves on, or a fault that loses some.                                   *)
Stays(r) == StateOf(r)' = StateOf(r)
Turns(r, from, to) == /\ StateOf(r) = from /\ StateOf(r)' = to
                      /\ \A q \in Requests \ {r} : Stays(q)
Idle == calls' = calls /\ \A r \in Requests : Stays(r)
Loses == /\ Faulty'
         /\ \A r \in Requests : \/ Stays(r)
                                \/ StateOf(r) \in {"new", "sent"} /\ StateOf(r)' = "lost"
Moves == /\ calls' = calls
         /\ \E r \in Requests : \/ Turns(r, "new", "sent")
                                \/ Turns(r, "sent", "answered")
                                \/ Faulty /\ Turns(r, "new", "refused")
ServiceStep == Idle \/ Loses \/ Moves

(* Who is as well off as before, is as before. *)
LEMMA StaysIf ==
  ASSUME NEW r \in Requests, UNCHANGED <<outcome, cbs>>,
         CanBeAnswered(r)' <=> CanBeAnswered(r)
  PROVE  Stays(r)
<1>1. outcome'[r] = outcome[r] /\ (Has(r)' <=> Has(r))
  BY DEF Has
<1> QED BY <1>1, StateIs DEF Stays

LEMMA IdleIf ==
  ASSUME UNCHANGED <<outcome, cbs, calls>>,
         \A r \in Requests : CanBeAnswered(r)' <=> CanBeAnswered(r)
  PROVE  ServiceStep
BY StaysIf DEF ServiceStep, Idle

(* A fault that only takes away answers under way loses their requests. *)
LEMMA LosesIf ==
  ASSUME PlaceInv, Faulty', UNCHANGED <<outcome, cbs>>,
         \A r \in Requests : CanBeAnswered(r)' => CanBeAnswered(r)
  PROVE  ServiceStep
<1>1. ASSUME NEW r \in Requests
      PROVE  \/ Stays(r)
             \/ StateOf(r) \in {"new", "sent"} /\ StateOf(r)' = "lost"
  <2>1. ASSUME CanBeAnswered(r)' <=> CanBeAnswered(r) PROVE Stays(r)
    <3>1. UNCHANGED <<outcome, cbs>>
      OBVIOUS
    <3> QED BY <2>1, <3>1, StaysIf, Zenon
  <2>2. CASE ~CanBeAnswered(r)' /\ CanBeAnswered(r)
    <3>1. outcome[r] = << >> /\ Has(r)
      BY <2>2, Waiting
    <3>2. outcome'[r] = << >> /\ Has(r)'
      BY <3>1 DEF Has
    <3>3. StateOf(r) = "sent"
      BY <2>2, <3>1, StateIs, Zenon
    <3>4. StateOf(r)' = "lost"
      BY <2>2, <3>2, StateIs, Zenon
    <3> QED BY <3>3, <3>4
  <2> QED BY <2>1, <2>2
<1> QED BY <1>1 DEF ServiceStep, Loses

(* A handler that carries no answer makes no difference. *)
LEMMA HandlerTaken ==
  ASSUME TypeOK, ready # << >>, ready' = Tail(ready), NEW r,
         ~(Head(ready).what = "response" /\ Head(ready).msg.of = r /\ Head(ready).msg.zip)
  PROVE  ByReady(r)' <=> ByReady(r)
<1>1. ready \in Seq(Handlers)
  BY DEF TypeOK, Handlers
<1>2. Range(ready) = {Head(ready)} \cup Range(ready')
  BY <1>1, RangeTail
<1> QED BY <1>2 DEF ByReady

LEMMA PostRequestService ==
  ASSUME PlaceInv, NEW r0 \in Requests, PostRequest(r0) PROVE ServiceStep
<1>1. /\ ready' = Append(ready, RequestHandler(r0))
      /\ UNCHANGED <<outcome, cbs, calls, link, session, up, down, dispatch,
                     statTasks, respTasks>>
  BY DEF PostRequest, RequestHandler, conn, server, client
<1>2. ready \in Seq(Handlers) /\ RequestHandler(r0) \in Handlers
  BY HandlerTypes DEF PlaceInv, IInv, TypeOK, RequestHandler
<1>3. Range(ready') = Range(ready) \cup {RequestHandler(r0)}
  BY <1>1, <1>2, RangeAppend
<1>4. RequestHandler(r0).what # "response"
  BY DEF RequestHandler
<1>5. ASSUME NEW r \in Requests PROVE CanBeAnswered(r)' <=> CanBeAnswered(r)
  <2>1. ByReady(r)' <=> ByReady(r)
    BY <1>3, <1>4 DEF ByReady
  <2>2. /\ ByUp(r)' <=> ByUp(r)
        /\ ByTask(r)' <=> ByTask(r)
        /\ ByDown(r)' <=> ByDown(r)
    BY <1>1 DEF ByUp, ByTask, ByDown
  <2> QED BY <2>1, <2>2, Ways
<1> QED BY <1>1, <1>5, IdleIf

LEMMA ClientReceivesService ==
  ASSUME PlaceInv, ClientReceives PROVE ServiceStep
<1> DEFINE h == [what |-> "response", msg |-> Head(down)]
<1>1. /\ ready' = Append(ready, h) /\ down # << >> /\ down' = Tail(down)
      /\ UNCHANGED <<outcome, cbs, calls, link, session, up, dispatch,
                     statTasks, respTasks>>
  BY DEF ClientReceives, conn, server, client
<1>2. /\ ready \in Seq(Handlers) /\ down \in Seq(Responses)
  BY DEF PlaceInv, IInv, TypeOK, Responses
<1>3. Head(down) \in Responses
  BY <1>1, <1>2, TailFrom
<1>4. h \in Handlers /\ h.what = "response" /\ h.msg = Head(down)
  BY <1>3, HandlerTypes
<1> HIDE DEF h
<1>5. Range(ready') = Range(ready) \cup {h}
  BY <1>1, <1>2, <1>4, RangeAppend
<1>6. Range(down) = {Head(down)} \cup Range(down')
  BY <1>1, <1>2, RangeTail
<1>7. ASSUME NEW r \in Requests PROVE CanBeAnswered(r)' <=> CanBeAnswered(r)
  <2>1. ByDown(r)' \/ ByReady(r)' <=> ByDown(r) \/ ByReady(r)
    BY <1>4, <1>5, <1>6 DEF ByReady, ByDown
  <2>2. /\ ByUp(r)' <=> ByUp(r)
        /\ ByTask(r)' <=> ByTask(r)
    BY <1>1 DEF ByUp, ByTask
  <2> QED BY <2>1, <2>2, Ways
<1> QED BY <1>1, <1>7, IdleIf

LEMMA ServerReceivesService ==
  ASSUME PlaceInv, LinkInv, ServerReceives PROVE ServiceStep
<1> DEFINE t == [seq |-> Head(up).seq, of |-> Head(up).of, conn |-> session]
<1>1. /\ up # << >> /\ up' = Tail(up) /\ dispatch' = Append(dispatch, t)
      /\ UNCHANGED <<outcome, cbs, calls, link, session, down, ready,
                     statTasks, respTasks>>
  BY DEF ServerReceives, conn, client
<1>2. /\ up \in Seq(Messages) /\ dispatch \in Seq(Tasks) /\ session \in Nat
  BY DEF PlaceInv, IInv, TypeOK
<1>3. Head(up) \in Messages
  BY <1>1, <1>2, TailFrom
<1>4. t \in Tasks /\ t.conn = session /\ t.of = Head(up).of
  BY <1>2, <1>3 DEF Messages, Tasks
<1>5. link
  BY <1>1 DEF LinkInv
<1> HIDE DEF t
<1>6. Range(dispatch') = Range(dispatch) \cup {t}
  BY <1>1, <1>2, <1>4, RangeAppend
<1>7. Range(up) = {Head(up)} \cup Range(up')
  BY <1>1, <1>2, RangeTail
<1>8. ASSUME NEW r \in Requests PROVE CanBeAnswered(r)' <=> CanBeAnswered(r)
  <2>1. ByUp(r)' \/ ByTask(r)' <=> ByUp(r) \/ ByTask(r)
    BY <1>1, <1>4, <1>5, <1>6, <1>7 DEF ByUp, ByTask
  <2>2. /\ ByDown(r)' <=> ByDown(r)
        /\ ByReady(r)' <=> ByReady(r)
    BY <1>1 DEF ByDown, ByReady
  <2> QED BY <2>1, <2>2, Ways
<1> QED BY <1>1, <1>8, IdleIf

LEMMA OnConnectionErrorService ==
  ASSUME PlaceInv, OnConnectionError PROVE ServiceStep
<1>1. /\ ready # << >> /\ ready' = Tail(ready) /\ Head(ready).what = "error"
      /\ UNCHANGED <<outcome, cbs, calls, link, session, up, down, dispatch,
                     statTasks, respTasks>>
  BY DEF OnConnectionError, Runs, server, client
<1>2. TypeOK
  BY DEF PlaceInv, IInv
<1>3. ASSUME NEW r \in Requests PROVE CanBeAnswered(r)' <=> CanBeAnswered(r)
  <2>1. ByReady(r)' <=> ByReady(r)
    BY <1>1, <1>2, HandlerTaken
  <2>2. /\ ByUp(r)' <=> ByUp(r)
        /\ ByTask(r)' <=> ByTask(r)
        /\ ByDown(r)' <=> ByDown(r)
    BY <1>1 DEF ByUp, ByTask, ByDown
  <2> QED BY <2>1, <2>2, Ways
<1> QED BY <1>1, <1>3, IdleIf

(* What the server still has to do for the old session is lost already. *)
LEMMA StartConnectSyncService ==
  ASSUME PlaceInv, LinkInv, StartConnectSync PROVE ServiceStep
<1>1. /\ connecting /\ session' = session + 1
      /\ UNCHANGED <<outcome, cbs, calls, ready, up, down, dispatch, statTasks, respTasks>>
  BY DEF StartConnectSync, server, client
<1>2. ~link
  BY <1>1 DEF LinkInv
<1>3. /\ dispatch \in Seq(Tasks) /\ session \in Nat
      /\ statTasks \subseteq Tasks /\ respTasks \subseteq Tasks
  BY DEF PlaceInv, IInv, TypeOK
<1>4. \A t \in Range(dispatch) \cup statTasks \cup respTasks : t.conn \in Nat
  BY <1>3, RangeIn DEF Tasks
<1>5. \A c \in Nat : c <= session => c # session'
  BY <1>1, <1>3
<1>6. \A t \in Range(dispatch) \cup statTasks \cup respTasks : t.conn # session'
  BY <1>4, <1>5 DEF LinkInv
<1>7. ASSUME NEW r \in Requests PROVE CanBeAnswered(r)' <=> CanBeAnswered(r)
  <2>1. ~ByTask(r)
    BY <1>2 DEF ByTask
  <2>2. ~ByTask(r)'
    BY <1>1, <1>6 DEF ByTask
  <2>3. /\ ByUp(r)' <=> ByUp(r)
        /\ ByReady(r)' <=> ByReady(r)
        /\ ByDown(r)' <=> ByDown(r)
    BY <1>1 DEF ByUp, ByReady, ByDown
  <2> QED BY <2>1, <2>2, <2>3, Ways
<1> QED BY <1>1, <1>7, IdleIf

LEMMA BreakService == ASSUME PlaceInv, Break PROVE ServiceStep
<1> DEFINE h == [what |-> "error", conn |-> session]
<1>1. /\ ready' = Append(ready, h) /\ up' = << >> /\ down' = << >> /\ link' = FALSE
      /\ UNCHANGED <<outcome, cbs>>
  BY DEF Break, client
<1>2. ready \in Seq(Handlers) /\ session \in Nat /\ TypeOK
  BY DEF PlaceInv, IInv, TypeOK
<1>3. h \in Handlers /\ h.what = "error"
  BY <1>2, HandlerTypes
<1>4. Faulty'
  BY <1>2, Counts DEF Break
<1> HIDE DEF h
<1>5. Range(ready') = Range(ready) \cup {h}
  BY <1>1, <1>2, <1>3, RangeAppend
<1>6. ASSUME NEW r \in Requests PROVE CanBeAnswered(r)' => CanBeAnswered(r)
  <2>1. ByReady(r)' => ByReady(r)
    BY <1>3, <1>5 DEF ByReady
  <2>2. ~ByUp(r)' /\ ~ByDown(r)'
    BY <1>1, RangeEmpty DEF ByUp, ByDown
  <2>3. ~ByTask(r)'
    BY <1>1 DEF ByTask
  <2> QED BY <2>1, <2>2, <2>3, Ways
<1> QED BY <1>1, <1>4, <1>6, LosesIf

(* A request the server has taken up is a task of it; one that failed is   *)
(* none any more.                                                          *)
LEMMA OnRequestService == ASSUME PlaceInv, OnRequest PROVE ServiceStep
<1>1. /\ dispatch # << >> /\ dispatch' = Tail(dispatch)
      /\ UNCHANGED <<outcome, cbs, link, session, up, down, ready>>
  BY DEF OnRequest, conn, client
<1>2. dispatch \in Seq(Tasks) /\ TypeOK
  BY DEF PlaceInv, IInv, TypeOK
<1>3. Range(dispatch) = {Head(dispatch)} \cup Range(dispatch')
  BY <1>1, <1>2, RangeTail
<1>4. ASSUME NEW r
      PROVE  /\ ByUp(r)' <=> ByUp(r)
             /\ ByDown(r)' <=> ByDown(r)
             /\ ByReady(r)' <=> ByReady(r)
  BY <1>1 DEF ByUp, ByDown, ByReady
<1>5. CASE /\ Range(dispatch') \cup statTasks' \cup respTasks'
                = Range(dispatch) \cup statTasks \cup respTasks
           /\ calls' = calls
  <2>1. ASSUME NEW r \in Requests PROVE CanBeAnswered(r)' <=> CanBeAnswered(r)
    <3>1. ByTask(r)' <=> ByTask(r)
      BY <1>1, <1>5 DEF ByTask
    <3> QED BY <1>4, <3>1, Ways
  <2> QED BY <1>1, <1>5, <2>1, IdleIf
<1>6. CASE UNCHANGED <<statTasks, respTasks>> /\ Counted("failure")
  <2>1. ASSUME NEW r \in Requests PROVE CanBeAnswered(r)' => CanBeAnswered(r)
    <3>1. ByTask(r)' => ByTask(r)
      BY <1>1, <1>3, <1>6 DEF ByTask
    <3> QED BY <1>4, <3>1, Ways
  <2>2. Faulty'
    BY <1>2, <1>6, Counts
  <2> QED BY <1>1, <2>1, <2>2, LosesIf
<1>7. \/ /\ statTasks' = statTasks \cup {Head(dispatch)}
         /\ UNCHANGED <<respTasks, calls>>
      \/ /\ respTasks' = respTasks \cup {Head(dispatch)}
         /\ UNCHANGED <<statTasks, calls>>
      \/ UNCHANGED <<statTasks, respTasks>> /\ Counted("failure")
  BY DEF OnRequest
<1> QED BY <1>3, <1>5, <1>6, <1>7

(* A response follows its task; one that is not compressed, or that finds  *)
(* no link, answers nobody.                                                *)
LEMMA SendRespService ==
  ASSUME PlaceInv, NEW t \in statTasks \cup respTasks, SendResp(t) PROVE ServiceStep
<1>1. PICK zip \in BOOLEAN :
        /\ IF zip THEN UNCHANGED calls ELSE MayStill("failure") /\ Counted("failure")
        /\ down' = IF link /\ t.conn = session
                   THEN Append(down, [seq |-> t.seq, of |-> t.of, zip |-> zip])
                   ELSE down
  BY DEF SendResp
<1>2. /\ \/ statTasks' = statTasks \ {t} /\ respTasks' = respTasks
         \/ respTasks' = respTasks \ {t} /\ statTasks' = statTasks
      /\ UNCHANGED <<outcome, cbs, link, session, up, ready, dispatch>>
  BY DEF SendResp, conn, client
<1>3. /\ down \in Seq(Responses) /\ TypeOK
      /\ statTasks \subseteq Tasks /\ respTasks \subseteq Tasks
  BY DEF PlaceInv, IInv, TypeOK, Responses
<1> DEFINE m == [seq |-> t.seq, of |-> t.of, zip |-> zip]
           all == Range(dispatch) \cup statTasks \cup respTasks
<1>4. m \in Responses /\ m.of = t.of /\ m.zip = zip
  BY <1>3 DEF Responses, Tasks
<1>5. IF link /\ t.conn = session THEN down' = Append(down, m) ELSE down' = down
  BY <1>1
<1>6. /\ all' \subseteq all /\ all \subseteq all' \cup {t} /\ t \in all
  BY <1>2
<1> HIDE DEF m
<1>7. link /\ t.conn = session => Range(down') = Range(down) \cup {m}
  <2> SUFFICES ASSUME link /\ t.conn = session
               PROVE  Range(down') = Range(down) \cup {m}
    OBVIOUS
  <2>1. down' = Append(down, m)
    BY <1>5
  <2> QED BY <1>3, <1>4, <2>1, RangeAppend
<1>8. ASSUME NEW r
      PROVE  /\ ByUp(r)' <=> ByUp(r)
             /\ ByReady(r)' <=> ByReady(r)
  BY <1>2 DEF ByUp, ByReady
<1>9. /\ \A r : ByTask(r) <=> \E u \in all : u.of = r /\ link /\ u.conn = session
      /\ \A r : ByTask(r)' <=> \E u \in all' : u.of = r /\ link /\ u.conn = session
  BY <1>2 DEF ByTask
<1> HIDE DEF all
<1>10. CASE zip
  <2>1. ASSUME NEW r \in Requests PROVE CanBeAnswered(r)' <=> CanBeAnswered(r)
    <3>1. ByTask(r)' \/ ByDown(r)' <=> ByTask(r) \/ ByDown(r)
      <4>1. CASE link /\ t.conn = session
        <5>1. ByDown(r)' <=> ByDown(r) \/ t.of = r
          BY <1>4, <1>7, <1>10, <4>1 DEF ByDown
        <5>2. ByTask(r) <=> ByTask(r)' \/ t.of = r
          BY <1>6, <1>9, <4>1
        <5> QED BY <5>1, <5>2
      <4>2. CASE ~(link /\ t.conn = session)
        <5>1. ByDown(r)' <=> ByDown(r)
          BY <1>5, <4>2 DEF ByDown
        <5>2. ByTask(r)' <=> ByTask(r)
          BY <1>6, <1>9, <4>2
        <5> QED BY <5>1, <5>2
      <4> QED BY <4>1, <4>2
    <3> QED BY <1>8, <3>1, Ways
  <2> QED BY <1>1, <1>2, <1>10, <2>1, IdleIf
<1>11. CASE ~zip
  <2>1. ASSUME NEW r \in Requests PROVE CanBeAnswered(r)' => CanBeAnswered(r)
    <3>1. ByTask(r)' => ByTask(r)
      BY <1>6, <1>9
    <3>2. ByDown(r)' => ByDown(r)
      <4>1. CASE link /\ t.conn = session
        BY <1>4, <1>7, <1>11, <4>1 DEF ByDown
      <4>2. CASE ~(link /\ t.conn = session)
        BY <1>5, <4>2 DEF ByDown
      <4> QED BY <4>1, <4>2
    <3> QED BY <1>8, <3>1, <3>2, Ways
  <2>2. Faulty'
    BY <1>1, <1>3, <1>11, Counts
  <2> QED BY <1>2, <2>1, <2>2, LosesIf
<1> QED BY <1>10, <1>11

LEMMA NothingService == ASSUME UNCHANGED vars PROVE ServiceStep
<1>1. /\ UNCHANGED <<outcome, cbs, calls, link, session, up, down, ready, dispatch,
                     statTasks, respTasks>>
  BY DEF vars, client, conn, server
<1>2. ASSUME NEW r \in Requests PROVE CanBeAnswered(r)' <=> CanBeAnswered(r)
  <2>1. /\ ByUp(r)' <=> ByUp(r)
        /\ ByTask(r)' <=> ByTask(r)
        /\ ByDown(r)' <=> ByDown(r)
        /\ ByReady(r)' <=> ByReady(r)
    BY <1>1 DEF ByUp, ByTask, ByDown, ByReady
  <2> QED BY <2>1, Ways
<1> QED BY <1>1, <1>2, IdleIf

(* A call that finds the client connected sends its request, or loses it   *)
(* when the link is gone already; another is told that it was not sent.    *)
LEMMA RequestService == ASSUME PlaceInv, LinkInv, Request PROVE ServiceStep
<1>0. PICK r0, m : r0 = Head(ready).of /\ m = [seq |-> requestSeq + 1, of |-> r0]
  OBVIOUS
<1>1. /\ ready # << >> /\ ready' = Tail(ready) /\ Head(ready).what = "request"
      /\ UNCHANGED <<calls, link, connected, session, down, dispatch, statTasks, respTasks>>
      /\ IF connected
         THEN /\ up' = IF link THEN Append(up, m) ELSE up
              /\ cbs' = {e \in cbs : e.seq # m.seq} \cup {m}
              /\ UNCHANGED outcome
         ELSE /\ outcome' = [outcome EXCEPT ![r0] = Append(@, NoError)]
              /\ UNCHANGED <<up, cbs>>
  BY <1>0 DEF Request, Runs, GenSeq, conn, server
<1>2. /\ ready \in Seq(Handlers) /\ up \in Seq(Messages) /\ cbs \subseteq Messages
      /\ requestSeq \in Nat /\ outcome \in [Requests -> Seq(Requests \cup {NoError})]
      /\ TypeOK
  BY DEF PlaceInv, IInv, TypeOK
<1>3. Head(ready) \in Handlers /\ 1 \in DOMAIN ready /\ ready[1] = Head(ready)
  BY <1>1, <1>2, TailFrom
<1>4. r0 \in Requests /\ Head(ready) = RequestHandler(r0)
  BY <1>0, <1>1, <1>3, HandlerKinds DEF RequestHandler
<1>5. m \in Messages /\ m.of = r0 /\ m.seq = requestSeq + 1
  BY <1>0, <1>2, <1>4 DEF Messages
<1>6. Queued(r0)
  BY <1>3, <1>4 DEF Queued
<1>7. outcome[r0] = << >>
  BY <1>4, <1>6 DEF PlaceInv, IInv, NotYetCalled
<1>8. ~Has(r0)
  <2> SUFFICES ASSUME Has(r0) PROVE FALSE
    OBVIOUS
  <2>1. PICK e \in cbs : e.of = r0
    BY DEF Has
  <2>2. e.seq \in Nat
    BY <1>2, <2>1 DEF Messages
  <2>3. UnderWay(e.seq, r0)
    BY <2>1 DEF UnderWay, InSet
  <2> QED BY <1>4, <1>6, <2>2, <2>3 DEF PlaceInv, IInv, Numbered
<1>9. ~CanBeAnswered(r0)
  BY <1>4, <1>8, Waiting
<1>10. StateOf(r0) = "new"
  BY <1>4, <1>7, <1>8, <1>9, StateIs, Zenon
<1>11. ASSUME NEW r
       PROVE  /\ ByTask(r)' <=> ByTask(r)
              /\ ByDown(r)' <=> ByDown(r)
              /\ ByReady(r)' <=> ByReady(r)
  <2>1. ByReady(r)' <=> ByReady(r)
    BY <1>1, <1>2, HandlerTaken
  <2> QED BY <1>1, <2>1 DEF ByTask, ByDown
<1>12. CASE connected
  <2>1. /\ up' = IF link THEN Append(up, m) ELSE up
        /\ cbs' = {e \in cbs : e.seq # m.seq} \cup {m}
        /\ outcome' = outcome
    BY <1>1, <1>12
  <2>2. cbs' = cbs \cup {m}
    <3>1. ASSUME NEW e \in cbs PROVE e.seq # m.seq
      <4>1. e.seq \in Nat /\ e.of \in Requests
        BY <1>2 DEF Messages
      <4>2. UnderWay(e.seq, e.of)
        BY DEF UnderWay, InSet
      <4>3. e.seq <= requestSeq
        BY <4>1, <4>2 DEF PlaceInv, IInv, Numbered
      <4> QED BY <1>2, <1>5, <4>1, <4>3
    <3> QED BY <2>1, <3>1
  <2>3. Has(r0)'
    BY <1>5, <2>2 DEF Has
  <2>4. link => Range(up') = Range(up) \cup {m}
    BY <1>2, <1>5, <2>1, RangeAppend
  <2>5. ASSUME NEW r \in Requests \ {r0} PROVE Stays(r)
    <3>1. Has(r)' <=> Has(r)
      BY <1>5, <2>2 DEF Has
    <3>2. ByUp(r)' <=> ByUp(r)
      BY <1>5, <2>1, <2>4 DEF ByUp
    <3>3. CanBeAnswered(r)' <=> CanBeAnswered(r)
      BY <1>11, <3>2, Ways
    <3>4. outcome'[r] = outcome[r]
      BY <2>1
    <3> QED BY <3>1, <3>3, <3>4, StateIs DEF Stays
  <2>6. CASE link
    <3>1. CanBeAnswered(r0)'
      <4>1. ByUp(r0)'
        BY <1>5, <2>4, <2>6 DEF ByUp
      <4> QED BY <4>1, Ways
    <3>2. outcome'[r0] = << >>
      BY <1>7, <2>1
    <3>3. StateOf(r0)' = "sent"
      BY <1>4, <3>1, <3>2, StateIs, Zenon
    <3> QED BY <1>1, <1>4, <1>10, <2>5, <3>3 DEF ServiceStep, Moves, Turns
  <2>7. CASE ~link
    <3>1. ~CanBeAnswered(r0)'
      <4>1. ByUp(r0)' <=> ByUp(r0)
        BY <2>1, <2>7 DEF ByUp
      <4> QED BY <1>9, <1>11, <4>1, Ways
    <3>2. outcome'[r0] = << >>
      BY <1>7, <2>1
    <3>3. StateOf(r0)' = "lost"
      BY <1>4, <2>3, <3>1, <3>2, StateIs, Zenon
    <3>4. Faulty'
      BY <1>1, <2>7 DEF LinkInv, Faulty, NoCalls
    <3> QED BY <1>4, <1>10, <2>5, <3>3, <3>4 DEF ServiceStep, Loses
  <2> QED BY <2>6, <2>7
<1>13. CASE ~connected
  <2>1. /\ outcome' = [outcome EXCEPT ![r0] = Append(@, NoError)]
        /\ up' = up /\ cbs' = cbs
    BY <1>1, <1>13
  <2>2. outcome'[r0] = <<NoError>>
    <3>1. outcome'[r0] = Append(<< >>, NoError)
      BY <1>2, <1>4, <1>7, <2>1
    <3> QED BY <3>1
  <2>3. StateOf(r0)' = "refused"
    BY <1>4, <2>2, StateIs, Zenon
  <2>4. ASSUME NEW r \in Requests \ {r0} PROVE Stays(r)
    <3>1. Has(r)' <=> Has(r)
      BY <2>1 DEF Has
    <3>2. ByUp(r)' <=> ByUp(r)
      BY <2>1 DEF ByUp
    <3>3. CanBeAnswered(r)' <=> CanBeAnswered(r)
      BY <1>11, <3>2, Ways
    <3>4. outcome'[r] = outcome[r]
      BY <1>2, <2>1
    <3> QED BY <3>1, <3>3, <3>4, StateIs DEF Stays
  <2>5. Faulty
    BY <1>13 DEF LinkInv
  <2> QED BY <1>1, <1>4, <1>10, <2>3, <2>4, <2>5 DEF ServiceStep, Moves, Turns
<1> QED BY <1>12, <1>13

(* A compressed response answers the request it was made for, whose        *)
(* callback is the only one under its number; another answers nobody.      *)
LEMMA OnPackageReceivedService == ASSUME PlaceInv, OnPackageReceived PROVE ServiceStep
<1>0. PICK m : m = Head(ready).msg
  OBVIOUS
<1> DEFINE found == {e \in cbs : e.seq = m.seq}
<1>1. /\ ready # << >> /\ ready' = Tail(ready) /\ Head(ready).what = "response"
      /\ UNCHANGED <<calls, link, session, up, down, dispatch, statTasks, respTasks>>
      /\ IF m.zip
         THEN /\ outcome' = [r \in Requests |->
                   IF \E e \in found : e.of = r THEN Append(outcome[r], m.of)
                   ELSE outcome[r]]
              /\ cbs' = cbs \ found
         ELSE UNCHANGED <<outcome, cbs>>
  BY <1>0 DEF OnPackageReceived, Runs, conn, server
<1>2. /\ ready \in Seq(Handlers) /\ cbs \subseteq Messages /\ TypeOK
      /\ outcome \in [Requests -> Seq(Requests \cup {NoError})]
  BY DEF PlaceInv, IInv, TypeOK
<1>3. Head(ready) \in Handlers /\ 1 \in DOMAIN ready /\ ready[1] = Head(ready)
  BY <1>1, <1>2, TailFrom
<1>4. m \in Responses
  BY <1>0, <1>1, <1>3, HandlerKinds
<1>5. m.seq \in Nat /\ m.of \in Requests /\ m.zip \in BOOLEAN
  BY <1>4 DEF Responses
<1>6. At("ready", 1, m.seq, m.of)
  BY <1>0, <1>1, <1>3 DEF At
<1>7. ready[1].what = "response" /\ ready[1].msg = m /\ Head(ready).msg = m
  BY <1>0, <1>1, <1>3
<1> DEFINE others(r) == /\ ByUp(r)' <=> ByUp(r)
                        /\ ByTask(r)' <=> ByTask(r)
                        /\ ByDown(r)' <=> ByDown(r)
<1>8. \A r : others(r)
  BY <1>1 DEF ByUp, ByTask, ByDown
<1>9. CASE ~m.zip
  <2>1. ASSUME NEW r \in Requests PROVE CanBeAnswered(r)' <=> CanBeAnswered(r)
    <3>1. ByReady(r)' <=> ByReady(r)
      BY <1>1, <1>2, <1>7, <1>9, HandlerTaken
    <3> QED BY <1>8, <3>1, Ways
  <2>2. UNCHANGED <<outcome, cbs, calls>>
    BY <1>1, <1>9
  <2> QED BY <2>1, <2>2, IdleIf
<1>10. CASE m.zip
  <2> DEFINE r0 == m.of
  <2>1. CanBeAnswered(r0)
    BY <1>3, <1>7, <1>10 DEF CanBeAnswered
  <2>2. outcome[r0] = << >>
    BY <1>5, <2>1, Waiting
  <2>3. StateOf(r0) = "sent"
    BY <1>5, <2>1, <2>2, StateIs, Zenon
  <2>4. \E e \in found : e.of = r0
    <3>1. InSet(cbs, m.seq, r0)
      BY <1>5, <1>6 DEF PlaceInv, Tabled
    <3> QED BY <3>1 DEF InSet
  <2>5. \A e \in found : e.of = r0
    <3> SUFFICES ASSUME NEW e \in found PROVE e.of = r0
      OBVIOUS
    <3>1. e \in cbs /\ e.seq = m.seq /\ e.of \in Requests
      BY <1>2 DEF Messages
    <3>2. UnderWay(m.seq, e.of)
      BY <3>1 DEF UnderWay, InSet
    <3>3. UnderWay(m.seq, r0)
      BY <1>6, AtUnderWay
    <3> QED BY <1>5, <3>1, <3>2, <3>3 DEF PlaceInv, IInv, Paired
  <2>6. /\ outcome' = [r \in Requests |->
              IF \E e \in found : e.of = r THEN Append(outcome[r], m.of) ELSE outcome[r]]
        /\ cbs' = cbs \ found
    BY <1>1, <1>10
  <2>7. outcome'[r0] = <<r0>>
    <3>1. outcome'[r0] = Append(outcome[r0], m.of)
      BY <1>5, <2>4, <2>6
    <3> QED BY <2>2, <3>1
  <2>8. StateOf(r0)' = "answered"
    BY <1>5, <2>7, StateIs, Zenon
  <2>9. ASSUME NEW r \in Requests \ {r0} PROVE Stays(r)
    <3>1. outcome'[r] = outcome[r]
      BY <2>5, <2>6
    <3>2. Has(r)' <=> Has(r)
      BY <2>5, <2>6 DEF Has
    <3>3. ByReady(r)' <=> ByReady(r)
      BY <1>1, <1>2, <1>7, HandlerTaken
    <3>4. CanBeAnswered(r)' <=> CanBeAnswered(r)
      BY <1>8, <3>3, Ways
    <3> QED BY <3>1, <3>2, <3>4, StateIs DEF Stays
  <2> QED BY <1>1, <1>5, <2>3, <2>8, <2>9 DEF ServiceStep, Moves, Turns
<1> QED BY <1>5, <1>9, <1>10

LEMMA StepService == PlaceInv /\ LinkInv /\ [Next]_vars => ServiceStep
<1> SUFFICES ASSUME PlaceInv, LinkInv, [Next]_vars PROVE ServiceStep
  OBVIOUS
<1>1. ASSUME NEW r \in Requests, PostRequest(r) PROVE ServiceStep
  BY <1>1, PostRequestService
<1>2. ASSUME NEW t \in statTasks \cup respTasks, SendResp(t) PROVE ServiceStep
  BY <1>2, SendRespService
<1>3. CASE Request
  BY <1>3, RequestService
<1>4. CASE OnPackageReceived
  BY <1>4, OnPackageReceivedService
<1>5. CASE OnConnectionError
  BY <1>5, OnConnectionErrorService
<1>6. CASE StartConnectSync
  BY <1>6, StartConnectSyncService
<1>7. CASE ClientReceives
  BY <1>7, ClientReceivesService
<1>8. CASE Break
  BY <1>8, BreakService
<1>9. CASE ServerReceives
  BY <1>9, ServerReceivesService
<1>10. CASE OnRequest
  BY <1>10, OnRequestService
<1>11. CASE UNCHANGED vars
  BY <1>11, NothingService
<1> QED BY <1>1, <1>2, <1>3, <1>4, <1>5, <1>6, <1>7, <1>8, <1>9, <1>10, <1>11
        DEF Next, ClientThread, ServerPools, Rest

(* What the service sees is what it allows. *)
StateMap == [r \in Requests |-> StateOf(r)]

LEMMA StateMapNext ==
  /\ StateMap' = [r \in Requests |-> StateOf(r)']
  /\ Service!vars = <<StateMap, Faulty>>
  /\ (Service!vars)' = <<StateMap', Faulty'>>
  /\ Service!Next <=>
       \/ \E r \in Requests :
            \/ StateMap[r] = "new" /\ Service!Becomes({r}, "sent") /\ Faulty' = Faulty
            \/ StateMap[r] = "sent" /\ Service!Becomes({r}, "answered") /\ Faulty' = Faulty
            \/ Faulty /\ StateMap[r] = "new" /\ Service!Becomes({r}, "refused")
                 /\ Faulty' = Faulty
       \/ \E S \in SUBSET {r \in Requests : StateMap[r] \in {"new", "sent"}} :
            Faulty' = TRUE /\ Service!Becomes(S, "lost")
  /\ \A S, what : Service!Becomes(S, what) <=>
       StateMap' = [r \in Requests |-> IF r \in S THEN what ELSE StateMap[r]]
BY DEF StateMap, StateOf, CanBeAnswered, Faulty, NoCalls, Service!vars, Service!Next, Service!Send,
       Service!Answer, Service!Refuse, Service!Lose, Service!In, Service!Becomes

LEMMA ServiceStepIs == ASSUME ServiceStep PROVE [Service!Next]_(Service!vars)
<1>0. /\ StateMap' = [r \in Requests |-> StateOf(r)']
      /\ \A r \in Requests : StateMap[r] = StateOf(r)
      /\ StateMap = [r \in Requests |-> StateMap[r]]
  BY StateMapNext DEF StateMap
<1>1. CASE Idle
  <2>1. StateMap' = StateMap
    BY <1>0, <1>1 DEF Idle, Stays
  <2>2. Faulty' = Faulty
    BY <1>1 DEF Idle, Faulty, NoCalls
  <2> QED BY <2>1, <2>2, StateMapNext
<1>2. CASE Moves
  <2>1. Faulty' = Faulty
    BY <1>2 DEF Moves, Faulty, NoCalls
  <2>2. PICK r \in Requests : \/ Turns(r, "new", "sent")
                              \/ Turns(r, "sent", "answered")
                              \/ Faulty /\ Turns(r, "new", "refused")
    BY <1>2 DEF Moves
  <2>3. ASSUME NEW from, NEW to, Turns(r, from, to)
        PROVE  StateMap[r] = from /\ Service!Becomes({r}, to)
    <3>1. StateMap' = [q \in Requests |-> IF q \in {r} THEN to ELSE StateMap[q]]
      BY <1>0, <2>3 DEF Turns, Stays
    <3>2. StateMap[r] = from
      BY <1>0, <2>3 DEF Turns
    <3> QED BY <3>1, <3>2, StateMapNext
  <2>4. CASE Turns(r, "new", "sent")
    BY <2>1, <2>3, <2>4, StateMapNext
  <2>5. CASE Turns(r, "sent", "answered")
    BY <2>1, <2>3, <2>5, StateMapNext
  <2>6. CASE Faulty /\ Turns(r, "new", "refused")
    BY <2>1, <2>3, <2>6, StateMapNext
  <2> QED BY <2>2, <2>4, <2>5, <2>6
<1>3. CASE Loses
  <2> DEFINE S == {r \in Requests : ~(StateOf(r)' = StateOf(r))}
  <2>1. S \in SUBSET {r \in Requests : StateMap[r] \in {"new", "sent"}}
    BY <1>0, <1>3 DEF Loses, Stays
  <2>2. StateMap' = [r \in Requests |-> IF r \in S THEN "lost" ELSE StateMap[r]]
    BY <1>0, <1>3 DEF Loses, Stays
  <2>3. Faulty' = TRUE
    BY <1>3 DEF Loses, Faulty
  <2> HIDE DEF S
  <2>4. Service!Becomes(S, "lost")
    BY <2>2, StateMapNext
  <2> QED BY <2>1, <2>3, <2>4, StateMapNext
<1> QED BY <1>1, <1>2, <1>3 DEF ServiceStep

LEMMA InitService == Init => Service!Init
<1> SUFFICES ASSUME Init PROVE Service!Init
  OBVIOUS
<1>1. ASSUME NEW r \in Requests PROVE StateOf(r) = "new"
  <2>1. outcome[r] = << >> /\ ~Has(r)
    BY DEF Init, Has
  <2>2. ~CanBeAnswered(r)
    BY RangeEmpty DEF Init, CanBeAnswered
  <2> QED BY <2>1, <2>2, StateIs, Zenon
<1>2. (calls # [what \in {"break", "failure"} |-> 0]) = FALSE
  BY DEF Init
<1> QED BY <1>1, <1>2 DEF Service!Init

(* The client and the server together do what RpcService allows, step by   *)
(* step: a request is answered or refused once, refused only after         *)
(* something failed, and lost only then.  That an answer comes at last is  *)
(* the other half of ImplementsService, which needs the fairness of the    *)
(* threads.                                                                *)
THEOREM ServiceSteps == Spec => Service!Init /\ [][Service!Next]_(Service!vars)
<1>1. Init => LinkInv /\ Service!Init
  BY InitLink, InitService
<1>2. PlaceInv /\ LinkInv /\ [Next]_vars => LinkInv' /\ [Service!Next]_(Service!vars)
  BY LinkStep, StepService, ServiceStepIs DEF PlaceInv
<1> QED BY <1>1, <1>2, PlacesInductive, PTL DEF Spec
=============================================================================
