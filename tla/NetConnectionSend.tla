--------------------------- MODULE NetConnectionSend ---------------------------
(***************************************************************************)
(* The send path of one NetConnection (src/src/net/NetConnection.cpp)      *)
(* from a started session to its end.                                      *)
(*                                                                         *)
(* Three kinds of actors run concurrently:                                 *)
(*  - application threads, in sendDataAsync or sendDataSync.  The check of *)
(*    m_bConnected is one step; the body, under m_mutex, is another;       *)
(*  - the strand, which runs the posted handlers one at a time in the      *)
(*    order they were posted.  doClose takes m_mutex only for its last     *)
(*    statements, so it is three steps;                                    *)
(*  - the socket (boost::asio and the peer), which takes the bytes of the  *)
(*    writes that are outstanding and posts their completions.             *)
(* The connection has no cipher: nothing in the repository installs one.   *)
(* A cell stands for a unit of data, <<sender, call, part, parts>>.        *)
(***************************************************************************)
EXTENDS Integers, Sequences, SequencesExt, SendBuffer

CONSTANTS
  Senders,        \* application threads
  SyncSenders,    \* the ones that call sendData(..., async = false)
  Strand,         \* the strand: it sends the keep-alives
  NoOwner,        \* m_mutex is free
  Lens,           \* lengths of the data passed to sendData
  KeepAliveLen,   \* length of a keep-alive package
  MaxCalls,       \* bound: send calls of each thread
  MaxKeepAlives,  \* bound: firings of the keep-alive timer
  MaxTimeouts,    \* bound: timeout checks that find the peer silent
  MaxCloses       \* bound: calls of close()

ASSUME SendAssumption ==
  /\ SyncSenders \subseteq Senders
  /\ Strand \notin Senders
  /\ NoOwner \notin Senders
  /\ Lens \subseteq Nat \ {0}
  /\ KeepAliveLen \in Nat \ {0}
  /\ {MaxCalls, MaxKeepAlives, MaxTimeouts, MaxCloses} \subseteq Nat

VARIABLES
  connected,    \* m_bConnected
  sending,      \* m_bSending
  waiting,      \* m_waitingBuf[0 .. m_waitingPos)
  buf,          \* lengths of the two buffers, see SendBuffer
  mutex,        \* the thread that holds m_mutex across steps, or NoOwner
  socket,       \* "open", "broken" (the peer or the network is gone), "closed"
  reading,      \* an async_read_some is outstanding
  writes,       \* the outstanding async_writes: the cells each has left
  posted,       \* the handlers posted to the strand
  doing,        \* where the strand is in doClose, or "idle"
  active,       \* doClose's argument
  pc,           \* where each thread is in sendData
  left,         \* what is left of each thread's blocking write
  calls,        \* number of sends started by each thread and by the strand
  used,         \* environment events so far, against the bounds
  received,     \* history: cells the socket took
  log,          \* history: cells accepted, less those an overflow dropped
  cutAt,        \* history: length of log at the first overflow, or -1
  reported      \* history: onConnectionError + removeConnection calls

connVars == <<connected, sending, waiting, buf>>
strandVars == <<posted, doing, active>>
netVars == <<socket, reading, writes, received>>
threadVars == <<mutex, pc, left>>
history == <<log, cutAt>>
vars == <<connVars, strandVars, netVars, threadVars, calls, used, history, reported>>

-----------------------------------------------------------------------------
Sources == Senders \cup {Strand}
Cells == Sources \X Nat \X Nat \X Nat
Handlers == {"sent", "sendErr", "recvErr", "connErr", "timeout", "close", "keepAlive"}
Message(s, n) == [i \in 1..n |-> <<s, calls[s], i, n>>]

TypeOK ==
  /\ connected \in BOOLEAN
  /\ sending \in BOOLEAN
  /\ waiting \in Seq(Cells)
  /\ buf \in BufferState
  /\ mutex \in SyncSenders \cup {NoOwner}
  /\ socket \in {"open", "broken", "closed"}
  /\ reading \in BOOLEAN
  /\ writes \in Seq(Seq(Cells))
  /\ posted \in Seq(Handlers)
  /\ doing \in {"idle", "closing", "clearing", "reporting"}
  /\ active \in BOOLEAN
  /\ pc \in [Senders -> {"idle", "checked", "writing"}]
  /\ left \in [Senders -> Seq(Cells)]
  /\ calls \in [Sources -> Nat]
  /\ used \in [{"timeouts", "closes"} -> Nat]
  /\ received \in Seq(Cells)
  /\ log \in Seq(Cells)
  /\ cutAt \in Nat \cup {-1}
  /\ reported \in Nat

(* init() followed by start(): the session runs, its first read is out. *)
Init ==
  /\ connected = TRUE
  /\ sending = FALSE
  /\ waiting = << >>
  /\ buf = EmptyBuffers
  /\ mutex = NoOwner
  /\ socket = "open"
  /\ reading = TRUE
  /\ writes = << >>
  /\ posted = << >>
  /\ doing = "idle"
  /\ active = FALSE
  /\ pc = [s \in Senders |-> "idle"]
  /\ left = [s \in Senders |-> << >>]
  /\ calls = [s \in Sources |-> 0]
  /\ used = [e \in {"timeouts", "closes"} |-> 0]
  /\ received = << >>
  /\ log = << >>
  /\ cutAt = -1
  /\ reported = 0

-----------------------------------------------------------------------------
(* Mutant: m_bSending is not reset when there is nothing more to send. *)
DoSendDataStaysSending(data, b, queue) ==
  /\ waiting' = << >>
  /\ sending' = TRUE
  /\ IF data = << >>
     THEN buf' = b /\ writes' = writes /\ posted' = queue
     ELSE /\ buf' = Swapped(b, Len(data))
          /\ IF socket = "closed"
             THEN writes' = writes /\ posted' = Append(queue, "sendErr")
             ELSE writes' = Append(writes, data) /\ posted' = queue

(* Mutant: m_waitingPos is not reset when the buffers change places. *)
DoSendDataKeepsWaiting(data, b, queue) ==
  /\ waiting' = data
  /\ sending' = (data # << >>)
  /\ IF data = << >>
     THEN buf' = b /\ writes' = writes /\ posted' = queue
     ELSE /\ buf' = Swapped(b, Len(data))
          /\ IF socket = "closed"
             THEN writes' = writes /\ posted' = Append(queue, "sendErr")
             ELSE writes' = Append(writes, data) /\ posted' = queue

(* doSendData, entered with m_mutex held, data in the waiting buffer and   *)
(* the handlers queue in the strand.  The buffers change places, so a      *)
(* write owns the one it reads; a write on a closed socket completes with  *)
(* an error at once.                                                       *)
DoSendData(data, b, queue) ==
  /\ waiting' = << >>
  /\ sending' = (data # << >>)
  /\ IF data = << >>
     THEN buf' = b /\ writes' = writes /\ posted' = queue
     ELSE /\ buf' = Swapped(b, Len(data))
          /\ IF socket = "closed"
             THEN writes' = writes /\ posted' = Append(queue, "sendErr")
             ELSE writes' = Append(writes, data) /\ posted' = queue

(* The body of sendDataAsync past the check of m_bConnected. *)
Overflows(data) == Len(data) + Len(waiting) > MaxSendBufSize

(* Mutant: the overflow drops the data and only returns false. *)
DropWaitingSilently(queue) ==
  /\ waiting' = << >>
  /\ posted' = queue
  /\ log' = SubSeq(log, 1, Len(log) - Len(waiting))
  /\ cutAt' = IF cutAt = -1 THEN Len(log) - Len(waiting) ELSE cutAt
  /\ UNCHANGED <<sending, buf, writes>>

DropWaiting(queue) ==
  /\ waiting' = << >>
  /\ posted' = Append(queue, "connErr")
  /\ log' = SubSeq(log, 1, Len(log) - Len(waiting))
  /\ cutAt' = IF cutAt = -1 THEN Len(log) - Len(waiting) ELSE cutAt
  /\ UNCHANGED <<sending, buf, writes>>

(* Mutant: new data is put in front of what waits. *)
AcceptDataInFront(data, queue) ==
  LET b == Reserve(buf, Len(data) + Len(waiting))
  IN  /\ log' = log \o data
      /\ UNCHANGED cutAt
      /\ IF sending
         THEN /\ waiting' = data \o waiting
              /\ buf' = b
              /\ posted' = queue
              /\ UNCHANGED <<sending, writes>>
         ELSE DoSendData(data \o waiting, b, queue)

AcceptData(data, queue) ==
  LET b == Reserve(buf, Len(data) + Len(waiting))
  IN  /\ log' = log \o data
      /\ UNCHANGED cutAt
      /\ IF sending
         THEN /\ waiting' = waiting \o data
              /\ buf' = b
              /\ posted' = queue
              /\ UNCHANGED <<sending, writes>>
         ELSE DoSendData(waiting \o data, b, queue)

SendDataAsync(data, queue) ==
  /\ mutex = NoOwner
  /\ IF Overflows(data) THEN DropWaiting(queue) ELSE AcceptData(data, queue)

-----------------------------------------------------------------------------
(* Application threads. *)

(* sendData up to the check of m_bConnected, outside m_mutex. *)
Check(s) ==
  /\ pc[s] = "idle"
  /\ calls[s] < MaxCalls
  /\ calls' = [calls EXCEPT ![s] = @ + 1]
  /\ pc' = [pc EXCEPT ![s] = IF connected THEN "checked" ELSE "idle"]
  /\ UNCHANGED <<connVars, strandVars, netVars, mutex, left, used, history, reported>>

AsyncSend(s) ==
  /\ pc[s] = "checked"
  /\ s \notin SyncSenders
  /\ \E n \in Lens : SendDataAsync(Message(s, n), posted)
  /\ pc' = [pc EXCEPT ![s] = "idle"]
  /\ UNCHANGED <<connected, doing, active, socket, reading, received, mutex, left,
                 calls, used, reported>>

(* Mutant: sendDataSync does not take m_mutex. *)
SyncBeginUnlocked(s) ==
  /\ pc[s] = "checked"
  /\ s \in SyncSenders
  /\ pc' = [pc EXCEPT ![s] = "writing"]
  /\ \E n \in Lens : /\ left' = [left EXCEPT ![s] = Message(s, n)]
                     /\ log' = log \o Message(s, n)
  /\ UNCHANGED <<connVars, strandVars, netVars, mutex, calls, used, cutAt, reported>>

(* sendDataSync takes m_mutex and keeps it while write() blocks. *)
SyncBegin(s) ==
  /\ pc[s] = "checked"
  /\ s \in SyncSenders
  /\ mutex = NoOwner
  /\ mutex' = s
  /\ pc' = [pc EXCEPT ![s] = "writing"]
  /\ \E n \in Lens : /\ left' = [left EXCEPT ![s] = Message(s, n)]
                     /\ log' = log \o Message(s, n)
  /\ UNCHANGED <<connVars, strandVars, netVars, calls, used, cutAt, reported>>

SyncReturn(s) ==
  /\ pc[s] = "writing"
  /\ left[s] = << >>
  /\ mutex' = NoOwner
  /\ pc' = [pc EXCEPT ![s] = "idle"]
  /\ UNCHANGED <<connVars, strandVars, netVars, left, calls, used, history, reported>>

(* Mutant: the exception leaves m_mutex locked. *)
SyncThrowLocked(s) ==
  /\ pc[s] = "writing"
  /\ left[s] # << >>
  /\ socket # "open"
  /\ left' = [left EXCEPT ![s] = << >>]
  /\ posted' = Append(posted, "connErr")
  /\ pc' = [pc EXCEPT ![s] = "idle"]
  /\ UNCHANGED <<connVars, doing, active, netVars, mutex, calls, used, history, reported>>

(* write() throws: the lock is released, the error is posted, and the call *)
(* returns true all the same.  A close() by another thread is taken to end *)
(* a write() that blocks.                                                  *)
SyncThrow(s) ==
  /\ pc[s] = "writing"
  /\ left[s] # << >>
  /\ socket # "open"
  /\ left' = [left EXCEPT ![s] = << >>]
  /\ mutex' = NoOwner
  /\ posted' = Append(posted, "connErr")
  /\ pc' = [pc EXCEPT ![s] = "idle"]
  /\ UNCHANGED <<connVars, doing, active, netVars, calls, used, history, reported>>

-----------------------------------------------------------------------------
(* The socket. *)

(* The socket takes the next cell of an outstanding async_write. *)
TakeAsync(i) ==
  /\ socket = "open"
  /\ writes[i] # << >>
  /\ received' = Append(received, Head(writes[i]))
  /\ writes' = [writes EXCEPT ![i] = Tail(@)]
  /\ UNCHANGED <<connVars, strandVars, socket, reading, threadVars, calls, used, history,
                 reported>>

(* The socket takes the next cell of a blocking write. *)
TakeSync(s) ==
  /\ socket = "open"
  /\ left[s] # << >>
  /\ received' = Append(received, Head(left[s]))
  /\ left' = [left EXCEPT ![s] = Tail(@)]
  /\ UNCHANGED <<connVars, strandVars, socket, reading, writes, mutex, pc, calls, used,
                 history, reported>>

(* An async_write completes, with or without an error. *)
Complete(i) ==
  /\ \/ writes[i] = << >> /\ posted' = Append(posted, "sent")
     \/ writes[i] # << >> /\ socket = "broken" /\ posted' = Append(posted, "sendErr")
  /\ writes' = RemoveAt(writes, i)
  /\ UNCHANGED <<connVars, doing, active, socket, reading, received, threadVars, calls, used,
                 history, reported>>

(* The peer closes the connection, or the network fails. *)
Break ==
  /\ socket = "open"
  /\ socket' = "broken"
  /\ UNCHANGED <<connVars, strandVars, reading, writes, received, threadVars, calls, used,
                 history, reported>>

(* The outstanding read fails on a broken connection: handleRecvData. *)
ReadFails ==
  /\ socket = "broken"
  /\ reading
  /\ reading' = FALSE
  /\ posted' = Append(posted, "recvErr")
  /\ UNCHANGED <<connVars, doing, active, socket, writes, received, threadVars, calls, used,
                 history, reported>>

-----------------------------------------------------------------------------
(* What posts to the strand: close() and the two timers. *)

Close ==
  /\ used["closes"] < MaxCloses
  /\ used' = [used EXCEPT !["closes"] = @ + 1]
  /\ posted' = Append(posted, "close")
  /\ UNCHANGED <<connVars, doing, active, netVars, threadVars, calls, history, reported>>

(* doTimeoutCheck will find the peer silent for too long. *)
TimeoutTimer ==
  /\ used["timeouts"] < MaxTimeouts
  /\ used' = [used EXCEPT !["timeouts"] = @ + 1]
  /\ posted' = Append(posted, "timeout")
  /\ UNCHANGED <<connVars, doing, active, netVars, threadVars, calls, history, reported>>

(* doSendKeepAlive will find that nothing was sent for the interval. *)
KeepAliveTimer ==
  /\ calls[Strand] < MaxKeepAlives
  /\ calls' = [calls EXCEPT ![Strand] = @ + 1]
  /\ posted' = Append(posted, "keepAlive")
  /\ UNCHANGED <<connVars, doing, active, netVars, threadVars, used, history, reported>>

-----------------------------------------------------------------------------
(* The strand. *)

Runs(handlers) == /\ doing = "idle"
                  /\ posted # << >>
                  /\ Head(posted) \in handlers

(* Mutant: a completed write does not look for data that came meanwhile. *)
HandleSendDataStops ==
  /\ Runs({"sent"})
  /\ mutex = NoOwner
  /\ sending' = FALSE
  /\ posted' = Tail(posted)
  /\ UNCHANGED <<connected, waiting, buf, doing, active, netVars, threadVars, calls, used,
                 history, reported>>

(* handleSendData without an error. *)
HandleSendData ==
  /\ Runs({"sent"})
  /\ mutex = NoOwner
  /\ DoSendData(waiting, buf, Tail(posted))
  /\ UNCHANGED <<connected, doing, active, socket, reading, received, threadVars, calls, used,
                 history, reported>>

(* Mutant: m_bConnected is not checked, so every error is handled. *)
HandleEveryError ==
  /\ Runs({"sendErr", "recvErr", "connErr", "timeout"})
  /\ posted' = Tail(posted)
  /\ connected' = FALSE
  /\ doing' = "closing" /\ active' = FALSE
  /\ UNCHANGED <<sending, waiting, buf, netVars, threadVars, calls, used, history, reported>>

(* handleConnectionError, from handleSendData, handleRecvData,             *)
(* doTimeoutCheck or posted by a send call.  Only the first one counts.    *)
HandleConnectionError ==
  /\ Runs({"sendErr", "recvErr", "connErr", "timeout"})
  /\ posted' = Tail(posted)
  /\ connected' = FALSE
  /\ IF connected
     THEN doing' = "closing" /\ active' = FALSE
     ELSE UNCHANGED <<doing, active>>
  /\ UNCHANGED <<sending, waiting, buf, netVars, threadVars, calls, used, history, reported>>

(* doClose(true), posted by close(). *)
HandleClose ==
  /\ Runs({"close"})
  /\ posted' = Tail(posted)
  /\ connected' = FALSE
  /\ doing' = "closing"
  /\ active' = TRUE
  /\ UNCHANGED <<sending, waiting, buf, netVars, threadVars, calls, used, history, reported>>

(* Mutant: doClose takes m_mutex before it touches the socket. *)
CloseSocketLocked ==
  /\ doing = "closing"
  /\ mutex = NoOwner
  /\ doing' = "clearing"
  /\ socket' = "closed"
  /\ writes' = << >>
  /\ reading' = FALSE
  /\ posted' = posted \o [i \in 1..Len(writes) |-> "sendErr"]
                      \o (IF reading THEN <<"recvErr">> ELSE << >>)
  /\ UNCHANGED <<connVars, active, received, threadVars, calls, used, history, reported>>

(* doClose cancels and closes the socket: what is outstanding is aborted. *)
CloseSocket ==
  /\ doing = "closing"
  /\ doing' = "clearing"
  /\ socket' = "closed"
  /\ writes' = << >>
  /\ reading' = FALSE
  /\ posted' = posted \o [i \in 1..Len(writes) |-> "sendErr"]
                      \o (IF reading THEN <<"recvErr">> ELSE << >>)
  /\ UNCHANGED <<connVars, active, received, threadVars, calls, used, history, reported>>

(* doClose empties the buffer, under m_mutex. *)
ClearBuffer ==
  /\ doing = "clearing"
  /\ mutex = NoOwner
  /\ waiting' = << >>
  /\ sending' = FALSE
  /\ doing' = IF active THEN "idle" ELSE "reporting"
  /\ UNCHANGED <<connected, buf, posted, active, netVars, threadVars, calls, used, history,
                 reported>>

(* handleConnectionError after doClose: onConnectionError, and             *)
(* removeConnection, which calls close() once more.                        *)
Report ==
  /\ doing = "reporting"
  /\ doing' = "idle"
  /\ reported' = reported + 1
  /\ posted' = Append(posted, "close")
  /\ UNCHANGED <<connVars, active, netVars, threadVars, calls, used, history>>

(* doSendKeepAlive: an asynchronous send from the strand. *)
HandleKeepAlive ==
  /\ Runs({"keepAlive"})
  /\ IF connected
     THEN SendDataAsync(Message(Strand, KeepAliveLen), Tail(posted))
     ELSE posted' = Tail(posted) /\ UNCHANGED <<sending, waiting, buf, writes, history>>
  /\ UNCHANGED <<connected, doing, active, socket, reading, received, threadVars, calls, used,
                 reported>>

-----------------------------------------------------------------------------
Quiescent == /\ \A s \in Senders : pc[s] = "idle" /\ calls[s] = MaxCalls
             /\ posted = << >>
             /\ doing = "idle"
             /\ writes = << >>

Terminated == Quiescent /\ UNCHANGED vars

Thread(s) == Check(s) \/ AsyncSend(s) \/ SyncBegin(s) \/ SyncReturn(s) \/ SyncThrow(s)

StrandRuns == \/ HandleSendData
              \/ HandleConnectionError
              \/ HandleClose
              \/ CloseSocket
              \/ ClearBuffer
              \/ Report
              \/ HandleKeepAlive

Take == \/ \E i \in DOMAIN writes : TakeAsync(i)
        \/ \E s \in Senders : TakeSync(s)

Completion == \/ \E i \in DOMAIN writes : Complete(i)
              \/ ReadFails

Next == \/ \E s \in Senders : Thread(s)
        \/ StrandRuns
        \/ Take
        \/ Completion
        \/ Break
        \/ Close
        \/ TimeoutTimer
        \/ KeepAliveTimer
        \/ Terminated

Spec == Init /\ [][Next]_vars

(* A thread that has passed the check goes on, the strand runs what is     *)
(* posted, and asio completes what can complete.                           *)
Fairness == /\ \A s \in Senders : WF_vars(AsyncSend(s)) /\ WF_vars(SyncBegin(s))
                                  /\ WF_vars(SyncReturn(s)) /\ WF_vars(SyncThrow(s))
            /\ WF_vars(StrandRuns)
            /\ WF_vars(Completion)

FairSpec == Spec /\ Fairness

(* Also: a peer that reads, so that the socket keeps taking data. *)
ReadingPeerSpec == FairSpec /\ WF_vars(Take)
-----------------------------------------------------------------------------
(* Safety. *)

InFlight == IF writes = << >> THEN << >> ELSE writes[1]

Completions == {i \in DOMAIN posted : posted[i] \in {"sent", "sendErr"}}

(* The hand-over between the sending threads and the write completions     *)
(* (NetConnection.cpp:248 and 320-333): while connected, m_bSending is set *)
(* exactly when one write is outstanding or its completion is queued.  If  *)
(* it stayed set with neither, data would wait for ever; if it were clear  *)
(* with one, a second write would start on a buffer that is being read.    *)
WriteToken ==
  connected => /\ Len(writes) <= 1
               /\ \A i, j \in Completions : i = j
               /\ writes # << >> => Completions = {}
               /\ sending <=> writes # << >> \/ Completions # {}

(* As long as the socket is open, whatever the threads, the strand and the *)
(* close interleave, what the socket took, what the one write in progress  *)
(* still holds and what waits in the buffer are together exactly the data  *)
(* the callers were told is on its way, in the order of their calls.       *)
StreamConserved ==
  socket = "open" => /\ Len(writes) <= 1
                     /\ received \o InFlight \o waiting = log

(* memcpy and async_write stay inside the buffers, also across growth, the *)
(* exchange of the two buffers and the halving of the waiting one (lines   *)
(* 233-246, 329-334 and 382-386).                                          *)
BuffersHold == /\ Len(waiting) <= buf.waitingLen
               /\ Len(waiting) <= MaxSendBufSize
               /\ Len(InFlight) <= buf.sendLen

(* A read error, a write error, a timeout, an overflow and a close() can   *)
(* all arrive: the upper layer is told at most once, and never while the   *)
(* connection still counts as connected (handleConnectionError, 393-406).  *)
ReportedOnce == /\ reported <= 1
                /\ reported = 1 => ~connected /\ socket = "closed"

(* Blocking sends hold m_mutex over the whole write, so no other message   *)
(* gets in between the bytes of one message.                               *)
MessagesContiguous ==
  \A i \in 1..(Len(received) - 1) :
    LET c == received[i]
        d == received[i + 1]
    IN  \/ d = <<c[1], c[2], c[3] + 1, c[4]>>
        \/ c[3] = c[4] /\ d[3] = 1

(* The send path implements the stream it promises. *)
Stream == INSTANCE SendStream WITH
            accepted <- log, delivered <- received, up <- socket # "closed", doomed <- cutAt >= 0
ImplementsStream == Stream!Spec

-----------------------------------------------------------------------------
(* Liveness. *)

(* An overflow cuts the connection in the end. *)
OverflowCuts == cutAt >= 0 ~> socket = "closed"

(* With a peer that reads, all that was accepted is taken, unless the      *)
(* connection fails: no wake-up is lost.                                   *)
AcceptedIsTaken == received # log ~> (received = log \/ socket # "open")

(* A blocking send, or one that waits for its turn, returns once close()   *)
(* was called, also with a peer that does not read: the exception releases *)
(* m_mutex.                                                                *)
SyncSendReturns ==
  \A s \in SyncSenders : (pc[s] # "idle" /\ used["closes"] > 0) ~> pc[s] = "idle"

(* close() closes the connection (NetConnection.h:83-86). *)
CloseCloses == used["closes"] > 0 ~> socket = "closed"
=============================================================================
