# A TLA+ model of netwb

netwb is a C++ network library on boost::asio (`src/src/net`) with a sample RPC
client and server on top of it (`src/src/sample`). This directory holds TLA+
modules of its core, the configurations that model-check them with TLC, and
proofs that TLAPS checks. `PROJECT.json` maps every definition to the lines it
models.

## 1. Inventory

| Component | State | Operations | Interacts with |
|---|---|---|---|
| `NetConnection`, sending | `m_bConnected`, `m_bSending`, two buffers with lengths and a moving average, `m_mutex` | `sendData` (sync, async), `doSendData`, its completion | called by any thread; completions on the connection's strand; the socket |
| `NetConnection`, session | socket, two timers, time of last read and write | `start`, `close`/`doClose`, `handleConnectionError`, read loop, keep-alive, timeout check | strand; reports to `NetManager` |
| `NetManager` | the pool of connections, `m_mutex` | add, remove, remove all; feeds the parser | base of client and server; calls `close()` of connections |
| `NetClient` | `m_connection`, reconnect timer | `start`, `stop`, `sendData`, connect callback, reconnect | io_service thread and application threads |
| `NetServer` | acceptor, strand, accept and listen timers, `m_bStopped` | `start`, `stop`, accept loop, broadcast | acceptor strand; each connection's strand |
| `NetPackageParser` | receive buffer, filled length, position; the same again for encrypted frames | `feedData`, `nextPackage`, `ajust`, `reset` | driven by `NetManager::onDataReceived` in a connection's strand |
| `NetPackage` | header bit fields, content | `encode`, `decode` | client, server, keep-alive |
| `NetSocket` | TCP or SSL socket, resolver | connect, accept, read, write, close | asio, `ProxyHelper` |
| `ProxyHelper` | none | HTTP, SOCKS4 and SOCKS5 handshakes | blocking, in the connecting thread |
| `Cipher`, `stream`, `base64`, `strings` | none | AES, compression wrappers, codecs | third-party libraries |
| `BaseClient`, `Client` | sequence number, table of callbacks | `request`, response dispatch, keep-alive answer | `NetClient` |
| `BaseServer`, `Server` | table of functions, a second io_service | dispatch, response | `NetServer` |
| logging, json helper, singletons | | | not part of the protocol |

What is hard in it:

- `sendData` checks `m_bConnected` outside the lock that its body takes; senders
  and completions hand the socket to each other through `m_bSending`; `doClose`
  takes the lock for its last statements only. Every order of these steps occurs.
- a blocking send holds the lock for as long as the peer likes, and strand
  handlers that need the lock stop the whole strand.
- five sources report the end of a session; the upper layer must hear of it once,
  and a client must then have exactly one attempt to reconnect.
- closes are posted, so that a pool, `isConnected()` and the socket disagree for
  a while; `stop` and `start` act in that while.
- reads cut the byte stream anywhere; the parser keeps the rest in a buffer that
  grows, and whose indices go back.
- the server's `stop` works in steps beside the acceptor's strand; a broadcast
  holds the pool's lock while it sends; the accept loop lives in one of four
  places (an accept, two timers, a handler) and must be in exactly one.
- timers compare whole seconds of a clock with intervals that began between them.
- the proxy handshakes take one `read_some` for a whole answer, and each of a
  dozen ways to fail must reach the one variable the caller looks at.
- requests outlive connections; their answers find them by number alone.

What makes each component correct:

- sending: what is accepted reaches the socket in order, without gap or
  duplicate; one write at a time; buffers hold what is copied to them; nothing
  accepted waits for ever; one blocking message is not cut by another.
- session: the end is reported once; a close closes whatever the peer does.
- client and pool: no session the pool does not know; one attempt at a time;
  a started client connects, a stopped one does not.
- server: it accepts until stopped, and not afterwards.
- parser: packages come out as they were sent, whole, once, without delay.
- RPC: every request is answered or told of the loss, once.
- codecs: decoding inverts encoding over the documented ranges.

## 2. Modules

| Module | Models |
|---|---|
| `SendStream` | what the send path promises: a stream of accepted data, a prefix of it delivered |
| `SendBuffer` | the lengths of the two send buffers: growth, exchange, average, halving (pure operators) |
| `NetConnectionSend` | the send path with its threads, strand, socket and close; implements `SendStream`, uses `SendBuffer` |
| `NetConnectionSend_proofs` | proofs about it |
| `NetPackageParser`, `MCNetPackageParser` | the plain branch of the parser with the receive loop; package sets for TLC |
| `NetPackageParser_proofs` | proofs about it |
| `NetPackageHeader` | the bit fields of a package's header, with the proof that `decode` inverts `encode` |
| `NetClient` | client, connect, reconnect timer, stop, and the pool |
| `NetClient_proofs` | proofs about it |
| `NetServer` | server, accept loop, timers, stop, restart, broadcast, and the pool under many strands |
| `NetServer_proofs` | proofs about it |
| `KeepAlive` | the two timers of a connection at both its ends, with clocks |
| `KeepAlive_proofs` | proofs about it |
| `ProxyConnect` | a blocking connect: proxy handshakes, TLS, and what the caller is told |
| `ProxyConnect_proofs` | proofs about it |
| `RpcService` | what the sample's RPC promises: each callback at most once, with its own answer |
| `Rpc` | the RPC client and server over connections that are lost; implements `RpcService` |
| `Rpc_proofs` | proofs about it |

The configurations give constants directly; only the parser's packages are
records and are defined in an MC module. Threads, callbacks and handlers appear
as the same thing everywhere: a queue per strand or io thread whose handlers run
one at a time, and the application's calls between any two of their steps.

### NetConnectionSend

One connection from a started session to its end. `connected`, `sending`,
`waiting`, `buf` and `mutex` are the fields of the same meaning; `posted` is the
strand's queue, run one handler at a time in order; `writes` are the outstanding
`async_write`s with the data each still holds; `doing` is where the strand is
within `doClose`. A cell `<<sender, call, part, parts>>` stands for a unit of
data, so that data in the wrong place is seen.

- A send call is two steps: `Check` reads `m_bConnected` without the lock,
  `AsyncSend` or `SyncBegin` is the rest under it. `AsyncSend` contains
  `doSendData` when no write is under way, as the code does.
- `SyncBegin` keeps the lock while the socket takes the data (`TakeSync`), until
  `SyncReturn` or, when the socket is gone, `SyncThrow`.
- `HandleConnectionError` and `HandleClose` enter `doClose`; `CloseSocket` needs
  no lock, `ClearBuffer` does; `Report` is `onConnectionError` with
  `removeConnection`, which posts one more close.
- The peer and the network are `TakeAsync`, `TakeSync`, `Complete`, `Break` and
  `ReadFails`. Timers are sources of handlers, without time.

Left out: the branch with a cipher (no code of the repository installs one),
`onDataSend` (it changes no state of the library), failure of `malloc`. The
average of line 381 is computed in floating point and truncated; the model
divides integers, which is the same value up to the rounding of `0.98` and
`0.02`.

### NetPackageParser

A byte is its offset in the peer's stream. The peer sends packages of a length
on the wire and a claimed length; a read takes any number of available bytes
(`Receive`, which is `feedPack`), then `Emit`, `Reset` and `Wait` are the
outcomes of `nextPackage` in the loop of `onDataReceived`. The length field is
what the package that starts at the position claims. After a wrong length has
made the parser lose the borders, the field is part of some content: any of
the lengths. `ajust` moves bytes within one buffer with `memcpy`
(`NetPackageParser.cpp:33`), also where the two ranges overlap, which the language
leaves undefined; the model takes it to copy as `memmove` does. The encrypted branch
of `feedData` is not modelled.

### NetClient

One io thread runs `ready`, the io_service's queue, in order, as the sample runs
it; the application's calls come between any two handlers, and `stop` is two
steps, the cancel of the timer and the post. `socket` and `sessions` reduce a
connection to its socket's state and `m_bConnected`. `loops` are the connections
of the client to itself. `current` is `m_connection`, `armed` a pending wait of
the reconnect timer; a wait that is cancelled runs a handler that does nothing,
which is left out. Left out also: synchronous starts, proxies, a close() by the
application, `BaseClient`'s override of `onConnectionError`.

### NetServer

Several threads run the io_service (`sample/main.cpp:26`), so the acceptor's
strand and each connection's strand run beside each other and beside the
application's thread. `strand` and `doing` are the acceptor strand's queue and
the rest of the handler it is in; `posted` and `removing` are the same for the
connections. `stop` is the steps between which others act: `StopCancelsAccept`,
`StopCloses` with `RemoveAllConnections`, `StopCancelsListen`, `StopSetsStopped`.
`OnListenTimer` and `Listen` are two steps because `m_bStopped` is read long
before the acceptor is opened; `HandleAccept` and `StartConnection` because the
connection is in the pool before it is started. `Locked` is the manager's mutex
where it is held over more than one step, a broadcast with blocking sends: adds,
removals and `stop` wait for it. Left out: the data of a session,
`onAccept`'s overrides, and a server whose constructor caught an exception (no such
address, or a listen that fails), which can never accept.

### KeepAlive

Time passes in ticks, several to a second; each end's clock turns to the next
second at a tick of its own. A stored time is kept as the seconds begun since,
which is what the code computes. `DoSendKeepAlive` and `DoTimeoutCheck` are the
handlers with the rearming of their timers, `Receive` is `handleRecvData` and the
answer to a keep-alive, `Closes` is `doClose` with both cancels. Each end keeps
alive or not. Handlers run in the tick in which they are ready, messages take up
to `MaxDelay` ticks.

### ProxyConnect

`stage` is the request the helper is at, `pc` the call it makes; a reply is the
two or three parts that the code tells apart, and a read takes any of what has
arrived, less or more than the reply. Every error path of the three handshakes
is a disjunct, with the one thing that matters in it: whether the error it sets
is the caller's or one of an inner block. `Return` is what `connect` and
`async_connect` make of the result. `Shake` is the TLS handshake that follows, with
a proxy or without one: it ends by what the other end sends, or by its close, and
by no timeout (`NetSocket.cpp:163` and `175`), so that nothing makes it end at a
peer that is silent.
The bytes of requests are left out, and the resolver.

### Rpc

One thread runs the client's io_service, as in `client_main.cpp`; requests are
posted to it. `cbs` is `m_CBs`. A synchronous connect blocks that thread
(`connecting`), inside `onConnectionError` too; refused connects, which call
`onConnectionError` again, one call deeper each time and without a pause
(`NetClient.cpp:100-113`), are one step with the connect that succeeds at last, so
that the depth of that recursion is not modelled. A message carries the number and,
for the properties only, the request it belongs to. The server's two
io_services with their threads are `dispatch`, `statTasks` and `respTasks`: one
function answers by its return value, the other by a post of its own, as in
`server.cpp`. `Break` loses the connection with what is under way, with the
server's memory or without. `SendResp` may find that the compression failed, and
`OnRequest` may throw. Under `RpcService` a request that nothing can answer any
more is lost, and losses need a fault.

### NetPackageHeader

The flag of a header packs four bits of the sequence number with version,
encryption and compression; the other 32 go in a field of their own. Bits are
taken by division and remainder, which is what the masks and shifts of unsigned
numbers do. There is nothing to explore here, and the numbers exceed TLC's, so the
module is proved and not run.

## 3. Runs

All bounds are constants of the modules. No run disables the deadlock check: the
specifications stutter only when everything that was begun has ended, so a state
in which actors wait for each other is reported.

| Run | Bounds | Shows |
|---|---|---|
| `SendAsync` | two senders, two calls each of one or two units, a keep-alive, a close, failure at any time, limit 3 units | `TypeOK`, `WriteToken`, `StreamConserved`, `ReportedOnce` |
| `SendBuffers` | one sender, five calls of 3 or 16 units, minimum 2, limit 19 | `BuffersHold` through growth, exchange and halving |
| `SendLive` | two senders, two calls each of two units, limit 3 (overflow is reached), a keep-alive, a timeout, a peer that reads | `OverflowCuts`, `ImplementsStream`, `AcceptedIsTaken` |
| `SendSync` | two blocking senders, two calls each, a close, a peer that may stop reading | `MessagesContiguous`, `SyncSendReturns`, `CloseCloses` |
| `Parser` | three packages out of six: of 2 (empty), 3 and 5 bytes, and with a length field that is too short, too long or lying; reads of up to 3 bytes, first buffer 3 | `TypeOK`, `EmittedAsSent`, `NothingLeftBehind`, `InBounds`, `AllEmitted` |
| `ClientCalls` | two starts, two stops, two failures of creating, connecting or of a session, five connections | `TypeOK`, `SessionsPooled`, `OnlySessionsPooled`, `OneAttempt`, `RemovedIsClosed`, `Reconnects` |
| `Server` | two peers, two starts, one stop, one failed bind, one failed accept, one broadcast | `TypeOK`, `PoolAgrees`, `AcceptTended`, `StopEndsAccepting`, `BroadcastPoolStable`, `AcceptsAgain`, `StopReturns` |
| `Rpc` | three requests of two functions, two lost connections, one exception or failed compression | `TypeOK`, `OnePlace`, `TableAgrees`, `ReconnectsAtOnce`, `ImplementsService` |
| `KeepAlive` | interval 1 s, timeout 4 s, two ticks a second, messages late by up to a tick | `TypeOK`, `LiveNotCut`, `DetectedInTime` |
| `Proxy` | one fault, reads and silences of any kind, in the TLS handshake too | `TypeOK`, `OutcomeTrue`, `ConnectReturns` |

Two senders are enough for the hand-over of `m_bSending`: a third one meets the
same flag and lock. Two calls each let a call meet the completion of an earlier
one and the end of the session. A limit of 3 units makes overflow happen with
data in flight and waiting. Packages shorter and longer than a read, and a first
buffer shorter than a package, reach every path of the parser; three packages
let the buffer grow, be emptied and grow again. Two starts and two stops give
every pair of calls, two failures one that meets the other's retry; five
connections are more than these can make, so the bound never binds (it would
show as a deadlock).

In `Server` one stop meets both starts, before and after; two peers give an accept
and a session in progress, and an accept beside a broadcast. In `Rpc` two
losses let a client lose the connection it has just made again, and three
requests, two of them of the function whose answers overtake others, let answers
of an old connection meet requests of a new one. In `KeepAlive` the timeout of 4 s
is the least for which the premise of `LiveNotCut` holds; with 3 s it fails, by
the second that each clock truncates, so the bound of the property is tight.
`Proxy` has no bound but one fault: the replies are finite.

### What the code does not keep

Each of these runs checks one property a comment or header states, and TLC shows
how the code breaks it.

| Run | Property | What happens |
|---|---|---|
| `SendMixed` | `MessagesContiguous` | the header asks not to mix synchronous and asynchronous sends; the keep-alive is always asynchronous and lands inside a blocking message |
| `ClientRestart` | `StartRuns` | `start` right after `stop` finds the old session not yet closed and does nothing; its close reports to nobody |

Other behaviours that a reader of the headers would not expect, which the models
have and which is why some properties carry the hypotheses they do:

- sending: an overflow drops waiting data at once but only posts the cut
  (`NetConnection.cpp:222-230`), so a later call's data is written behind the gap.
  With a blocking send stuck on a peer that does not read, the completion of a
  keep-alive waits for the lock on the strand and the posted close never runs:
  `CloseCloses` is checked without keep-alives. A length near `INT_MAX` passes the
  32-bit comparison of line 223.
- client: a connect in flight when `stop` is called becomes a session of the
  stopped client. `NetClient::sendData` returns 1 for success and for no
  connection, and 0 for a refusal, where `NetClient.h:70` says 0 for success and
  1 for an invalid connection. The branch of `handleConnect` for a connection of
  the client to itself (line 161, comment at 158) does not return, so the
  connection it closes is pooled, started and never removed: `OnlySessionsPooled`
  excepts `loops`.
- server: a connection accepted just before `stop` is pooled and started after
  `stop` has emptied the pool. A listen timer that read `m_bStopped` before `stop`
  set it opens the acceptor again: `StopEndsAccepting` is about a server that got
  its port at once. `m_bStopped` is never reset, so that after stop and start one
  failed accept ends the server, and a server on a port of its own choice cannot
  listen again after a stop; two starts of such a server make two chains of
  accepts. `AcceptTended` and `AcceptsAgain` are therefore about a server that
  nobody has stopped, the first about one that was started once.
- keep-alive: of two ends only one of which keeps alive, that one can cut itself
  off from a live peer: its own data puts off its keep-alives, and with them the
  answers. A keep-alive timer whose handler was queued when the connection closed
  arms itself for ever (line 507).
- proxies: an error variable of an inner block hides the caller's when a SOCKS4
  proxy refuses (`ProxyHelper.cpp:191`) and when a SOCKS5 proxy refuses the method
  (line 234), so that the refusal is reported as a connect, for a TLS socket
  without its handshake. An answer `HTTP/1.1 200` is taken for a refusal. A short
  read misreads an answer, and reads after the first have no timeout. Nor has the TLS
  handshake: with an endpoint that accepts the connection and says nothing, through
  a proxy or without one, `SSLSocket::connect` does not return and the callback of
  `async_connect` is not called. `ConnectReturns` names these two cases, a read
  after the proxy has begun to answer and the handshake, and no other.
- RPC: callbacks of requests that a lost connection took with it stay in the
  table and are never told; so do those whose response came uncompressed
  (`BaseClient.cpp:31`) or whose function threw.

### Fairness

Weak fairness of what the code schedules itself: a thread inside a send call goes
on, the strand runs posted handlers, asio completes operations that can
complete, the io thread runs ready handlers, a pending timer expires, a connect
ends with one result or another, the loop of `onDataReceived` goes on; in
`NetServer` each strand, both timers, a call of `stop` that has begun and peers
that read; in `Rpc` the threads of both io_services, messages that arrive on a
connection that holds, and a server that can be reached again; in `ProxyConnect`
the helper, but neither the proxy nor the endpoint: that a connection which the
other end has closed ends the TLS handshake is all that is assumed of it. `KeepAlive` bounds delays instead, so what it says
of detection in time is safety. No fairness is assumed of failures or of the application's calls. Weak fairness is
enough because each of these stays enabled until it is taken: a mutex is held
by one thread for one call, and no run needs a queue of waiters to be fair. That a
blocking write ends when another thread closes its socket (`SyncThrow`) is assumed
of the system.
`ReadingPeerSpec` adds a peer that reads, for `AcceptedIsTaken` in `SendLive`;
`SyncSendReturns` and `CloseCloses` are checked without it.

## 4. Proofs

TLAPS proves, for every value of the constants that the named assumptions allow:

| Module | Theorem | Statement |
|---|---|---|
| `NetConnectionSend_proofs` | `TypeCorrect` | `Spec => []TypeOK` |
| | `TokenKept` | `Spec => []WriteToken` |
| | `StreamKept` | `SyncSenders = {} => (Spec => []StreamConserved)` |
| | `ToldOnce` | `Spec => []ReportedOnce` |
| | `BuffersKept` | `Spec => []BuffersHold` |
| | `StreamImplemented` | `SyncSenders = {} => (Spec => ImplementsStream)`: it refines `SendStream` |
| | `NotMixed` | `SyncSenders = {} \/ OnlyBlocking => (Spec => []MessagesContiguous)` |
| `NetClient_proofs` | `TypeCorrect` | `Spec => []TypeOK` |
| | `PoolKept` | `Spec => []SessionsPooled` |
| | `OnlySessionsKept` | `Spec => []OnlySessionsPooled` |
| | `AttemptKept` | `Spec => []OneAttempt` |
| `NetServer_proofs` | `TypeCorrect` | `Spec => []TypeOK` |
| | `PoolStable` | `Spec => BroadcastPoolStable`, an action property |
| | `PoolAgreement` | `Spec => []PoolAgrees` |
| | `StopIsFinal` | `Spec => []StopEndsAccepting` |
| | `OneChainOfAccepts` | `Spec => []AcceptTended` |
| `NetPackageParser_proofs` | `TypeCorrect` | `Spec => []TypeOK` |
| | `BoundsKept` | `Spec => []InBounds` |
| | `StreamParsed` | `Spec => []EmittedAsSent` |
| | `NoneLeft` | `Spec => []NothingLeftBehind` |
| `KeepAlive_proofs` | `TypeCorrect` | `Spec => []TypeOK` |
| | `FoundInTime` | `Spec => []DetectedInTime` |
| | `PeerKept` | `Spec => []LiveNotCut` |
| `ProxyConnect_proofs` | `TypeCorrect` | `FairSpec => []TypeOK` |
| | `OutcomeIsTrue` | `FairSpec => []OutcomeTrue` |
| `Rpc_proofs` | `TypeCorrect` | `Spec => []TypeOK` |
| | `AnswersOwn` | `Spec => []OwnAnswer`: every callback at most once, with its own answer or "send error" |
| | `AtOnePlace` | `Spec => []OnePlace` |
| | `TableHolds` | `Spec => []TableAgrees` |
| | `ServiceSteps` | `Spec => Service!Init /\ [][Service!Next]_(Service!vars)`: the steps of `RpcService` |
| `NetPackageHeader` | `RoundTrip` | `decode` gives back every field of every header, the sequence number modulo 2^36 |

Assumptions: `BufferAssumption` (both buffer limits are positive, and every
length up to the maximum has a power-of-two multiple of the minimum that holds
it; true of 64 KB and 64 MB), `SendAssumption`, `ClientAssumption`,
`ServerAssumption`, `ParserAssumption`, `KeepAliveAssumption`, `ProxyAssumption` and
`RpcAssumption` (what the constants are; of the parser's, that a package has at
least its header; of the timers', that the intervals and the ticks of a second are
positive; of the client's requests, that the two functions share none). TLC
evaluates all of them.

### The send path

`WriteToken` is not inductive alone: that the flag, the outstanding write and the
queued completion agree while the session is up needs the order of the close
(`connected` is cleared before the socket, the socket before the flag), which
is the invariant's conjunct `CloseOrder`. `StreamConserved` holds until the socket
is closed, which is later than the end of `connected`; between the two no second
write can start, `OneWrite`. A blocking send writes past the stream of the
asynchronous ones, which is why `StreamKept` has its hypothesis, and what
`SendMixed` shows.

`ReportedOnce` needs that only a close begun by an error while connected reports
(`ReportOrder`). `BuffersHold` is inductive once `StreamInv` says that there is one
write: the exchange of the buffers then gives it the one that is not being read.
For the refinement every step is one of four (`StreamStep`: the stream is left
alone, added to, loses what waits, or gives its next cell); `TakenInOrder` says that
what was taken stays a beginning of what was accepted also after the close, when
`StreamConserved` says nothing any more.

`NotMixed` is two arguments. Without blocking sends the accepted data is a sequence
of whole messages that ends with one also where the waiting data begins
(`LogWhole`), so an overflow drops whole ones. With blocking sends alone nothing is
written asynchronously (`NothingAsync`), one thread writes at a time (`OneWriter`),
and what it has left goes on from the last cell taken (`InPieces`). The hypothesis
is what `NetConnection.h` asks of the application, read to the letter: a keep-alive
is an asynchronous send.

### Client and server

`SessionsPooled` is inductive with `TypeOK`: the io thread removes only the first
handler, and the lemmas on the queue say what then is still in it. What steps do to
that queue is one definition, `Posts(d, P)` (`d` handlers taken, those of `P` added), from which the other two
invariants of the client are carried over. `OnlySessionsPooled` needs that a
connection goes through its life once (`Fresh`, `Unmade`, `Once`) and that a close is
posted for one that has left the pool (`CloseUnpooled`). `OneAttempt` counts over four
places; the invariant `Single` says which one it is and that the others are empty,
`InOrder` that the close of a session which still counts runs before any handler
that would find it connected.

For the server, `PoolAgrees` needs what happens to a connection between its accept
and its start, in the handler under way and in the queues (`PoolInv`). `ChainInv` says
that of the places where the accept loop can be (an accept, two timers, the queue,
a handler between its steps) exactly one holds it, and that the acceptor is open
in those where it must be; every step of `Next` moves it from one to another.
`StopInv` is where each step of `stop` has got to against timers and handlers under
way, for a server whose bind never failed: what `StopEndsAccepting` says of others is
not kept by the code (section 3).

### The parser

The parser's invariant `IInv` adds to its four properties where the packages lie
(`Layout`), that the filled part of the buffer is the end of what was received
(`Segment`), that between two loops less than a package is left, at the front
(`Rest`), and that after the k-th well-formed package the parser is at the start of
the next, or has gone on from a malformed one (`InStep`). `Segment` and `InStep`
together say which length field `nextPackage` reads (`LengthKnown`), and with that
each of its three outcomes is what it should be; `Rest` bounds the buffer, which
grows only when the rest and a read do not fit.

### Timers

The sum of the ticks since an event and the ticks left of a timer changes only when
a handler or a message sets one of them. `CheckInv` follows that sum for the timeout
check and gives `DetectedInTime`. `LiveInv` does the same along the way from one end
to the other: the keep-alive timer of the sender bounds the age of its last send
(`SendsInTime`), the silence of an end is explained by a message under way or by the
age of its peer's last send (`Hears`), and the end of the session is the last thing
an end sends (`FinIsLast`). It needs the
hypothesis of `LiveNotCut`, that the timeout exceeds the longest silence, and
nothing else of the constants.

### Proxy

`Clean` says, as long as no read took less than a reply, what is on the way and read
so far at each stage: nothing, or the parts of one answer to the request that was
made. `Ended` is what that leaves when the helper returns; the two refusals that the
code hides are the exception `Hidden`, as in the property.

### RPC

`OwnAnswer` of `Rpc` is inductive only with where a number can be: in the table, in a
message, in a task of the server, in a response that was read (`UnderWay`). Every
number under way was given out, to a request that has run (`Numbered`), numbers and
requests under way are paired one to one (`Paired`), a request is queued once
(`QueuedOnce`), and a callback that is in the table or still queued was not called
(`NotYetCalled`). Only `Request` makes a number, a new one; every other step moves or
drops some, which is one lemma (`NothingNew`). A response that is read then finds the
callback of its own request or none, whatever connection brought it.

`PlaceInv` adds that a number has one place with one position in it (`Unique`), and
that its callback is in the table while it has (`Tabled`); `OnePlace` and `TableAgrees`
follow. The refinement also needs `LinkInv`: what is on the way needs the link, a
handler that reports the end of a session comes after its loss, and every loss is
counted, for `RpcService` allows losses only after a fault. Each action is then a
`ServiceStep`: nothing, one request that turns from new to sent, answered or refused,
or several that are lost. That an answer comes at last is the other half of
`ImplementsService`, a fairness condition that TLC checks.

### The header

`RoundTrip` needs no assumption: it splits the number into the 32 bits of its own
field and the four in the flag (`SeqParts`), and shows that the fields of the flag
do not meet (`FlagFits`, `FlagFields`).

### Only model-checked

Every invariant and action property of the runs that hold is proved. Liveness is
outside what TLAPS proves and stays with TLC: `AcceptedIsTaken`, `SyncSendReturns`,
`CloseCloses`, `OverflowCuts`, `AllEmitted`, `Reconnects`, `RemovedIsClosed`,
`AcceptsAgain`, `StopReturns`, `ReconnectsAtOnce`, `ConnectReturns`, and the fairness
that `ImplementsService` promises.

## 5. Not modelled, and the plan

- Encrypted frames: `Cipher`, the encrypting branch of `doSendData`, the
  decrypting one of `feedData`. Nothing in the repository calls `setCipher`, so no
  behaviour of its programs depends on them. As they stand, an incomplete frame
  would make the loop of `feedData` spin (line 66), its rest be copied over its
  beginning (line 51), and a cipher that fails stop the sender (line 369 of
  `NetConnection.cpp`).
- `stream`, `base64`, `strings`, the json helper: sequential conversions around
  third-party libraries, whose properties are pairs of input and output.
- The synchronous start of `NetClient` in a thread of its own, against the
  reconnect timer (`NetClient.cpp:98`); requests made by other threads than the
  io_service's in `BaseClient`, where an answer may come before its callback is
  registered (`BaseClient.cpp:140`).
- Data races on `m_connection` and `m_CBs` between such threads: a torn read is
  below the level of these modules, which read a variable in one step.
- SSL, AES, zlib, lzma, iconv and log4cxx are third party. Their vendored headers
  are most of the repository: of its 31,000 lines about 4,000 are the library's
  and the sample's own, a third of these declarations and wrappers without
  control, and the modules are about the rest.

Planned: nothing of the list in section 4 is open but liveness. What could still be
said more of is the model's edge: a start in a thread of its own, and requests of
other threads.
